----------------------- MODULE KeysAndRendererProofs ------------------------
(***************************************************************************)
(* What is true of the renderer for any number of buffers and requests     *)
(* (the drains under way and their flags, and where every buffer is), and  *)
(* of thread-specific data for any number of threads, slots, keys and      *)
(* rounds.  The two share no variable.                                     *)
(***************************************************************************)
EXTENDS Renderer, ThreadKeys, FiniteSetTheorems, TLAPS

Kinds == {"queue", "eos", "flush", "pause", "resume", "start", "stop", "open", "disable"}
Message == [what : Kinds, s : Streams, n : Nat]
Asks(m, what, s) == m.what = what /\ m.s = s
Posts(m, s) == Asks(m, "queue", s) \/ Asks(m, "eos", s)
Places == 1 .. Len(messages)

RShape ==
    /\ messages \in Seq(Message)
    /\ mQueue \in [Streams -> Seq(Nat)] /\ mPendingInputMessages \in Seq(Nat)
    /\ mDrainPending \in [Streams -> BOOLEAN] /\ mGeneration \in [Streams -> Nat]
    /\ given \in [Streams -> Nat] /\ ended \in [Streams -> BOOLEAN]
    /\ handler \in [at : {"idle", "park", "flushed"}, s : Streams, n : Nat]

(* Flags `pend` tell for which streams a drain of the present generation   *)
(* is among `left`, and there is no other.                                 *)
Match(pend, left) ==
    /\ pend \in [Streams -> BOOLEAN]
    /\ \A d \in left : d.s \in Streams /\ d.gen \in Nat /\ d.gen <= mGeneration[d.s]
    /\ \A d, e \in left : Current(d) /\ Current(e) /\ d.s = e.s => d = e
    /\ \A s \in Streams : pend[s] <=> \E d \in left : d.s = s /\ Current(d)
    /\ offloading => ~pend["audio"]

OneDrain == Match(mDrainPending, drains)

(* The sink is opened once, and offloading given up once, after that:      *)
(* there is no audio before.                                               *)
Opening ==
    /\ \A i \in Places :
          /\ messages[i].what = "open" => opened = "asked"
          /\ messages[i].what = "disable" => offloading /\ opened = "yes"
          /\ Posts(messages[i], "audio") => opened = "yes"
    /\ \A i, j \in Places : /\ messages[i].what = messages[j].what
                            /\ messages[i].what \in {"open", "disable"}
                            => i = j
    /\ opened # "yes" => mQueue["audio"] = <<>>

(* Behind the end of the audio stream there is nothing up to its flush.    *)
FlushIn(S) == \E f \in S : Asks(messages[f], "flush", "audio")
EndsAt(i) ==
    /\ ended["audio"] \/ FlushIn(i + 1 .. Len(messages))
    /\ \A j \in i + 1 .. Len(messages) :
          Posts(messages[j], "audio") => FlushIn(i + 1 .. j - 1)
NothingAfterEnd ==
    /\ \A i \in 1 .. Len(mQueue["audio"]) :
          mQueue["audio"][i] = EOS => i = Len(mQueue["audio"]) /\ EndsAt(0)
    /\ \A i \in Places : /\ Asks(messages[i], "eos", "audio") => EndsAt(i)
                         /\ Asks(messages[i], "queue", "audio") => messages[i].n # EOS

Moving(s) ==
    /\ mDrainPending[s] => mQueue[s] # <<>>
    /\ mQueue[s] # <<>> /\ ~mPaused =>
          \/ mDrainPending[s]
          \/ s = "audio" /\ (mAudioSinkStopped \/ offloading \/ undrained)

DrainInv == RShape /\ OneDrain /\ Opening /\ NothingAfterEnd
            /\ \A s \in Streams : Moving(s)

----------------------------------------------------------------------------
(* The invariant is enough.                                                *)
LEMMA DrainInvSuits == DrainInv => OnlyKnownStalls
<1> SUFFICES ASSUME DrainInv, NEW s \in Streams
             PROVE  Cardinality({d \in drains : d.s = s /\ Current(d)})
                       = IF mDrainPending[s] THEN 1 ELSE 0
  BY DEF OnlyKnownStalls, DrainInv, Moving
<1> DEFINE D == {d \in drains : d.s = s /\ Current(d)}
<1>1. /\ \A d, e \in D : d = e
      /\ mDrainPending[s] <=> D # {}
  BY DEF DrainInv, OneDrain, Match
<1> HIDE DEF D
<1>2. CASE D = {} BY <1>1, <1>2, FS_EmptySet DEF D
<1>3. CASE D # {}
  <2>1. PICK d \in D : TRUE BY <1>3
  <2>2. D = {d} BY <1>1, <2>1
  <2> QED BY <1>1, <1>3, <2>2, FS_Singleton DEF D
<1> QED BY <1>2, <1>3

LEMMA DrainInvStart == RendererInit => DrainInv
<1> SUFFICES ASSUME RendererInit PROVE DrainInv OBVIOUS
<1>1. messages = <<>> /\ Len(messages) = 0 /\ messages \in Seq(Message) BY DEF RendererInit
<1>2. mQueue \in [Streams -> Seq(Nat)] /\ \A s \in Streams : mQueue[s] = <<>>
  BY DEF RendererInit
<1>3. RShape
  <2>1. mPendingInputMessages \in Seq(Nat) BY DEF RendererInit
  <2>2. handler \in [at : {"idle", "park", "flushed"}, s : Streams, n : Nat]
    BY DEF RendererInit, Idle, Streams
  <2> QED BY <1>1, <1>2, <2>1, <2>2 DEF RendererInit, RShape
<1>4. OneDrain BY DEF RendererInit, OneDrain, Match, Streams
<1>5. Opening BY <1>1, <1>2 DEF Opening, Places, Streams
<1>6. NothingAfterEnd BY <1>1, <1>2 DEF NothingAfterEnd, Places, Streams
<1>7. \A s \in Streams : ~mDrainPending[s] BY DEF RendererInit
<1> QED BY <1>2, <1>3, <1>4, <1>5, <1>6, <1>7 DEF DrainInv, Moving

----------------------------------------------------------------------------
(* What happens to the messages: some are sent, or the first is handled.   *)
Sent == /\ messages' \in Seq(Message) /\ Len(messages') >= Len(messages)
        /\ \A i \in Places : messages'[i] = messages[i]
New == Len(messages) + 1 .. Len(messages')

LEMMA OneSent ==
    ASSUME RShape, NEW m \in Message, messages' = Append(messages, m)
    PROVE  /\ Sent /\ Len(messages') = Len(messages) + 1
           /\ messages'[Len(messages) + 1] = m
           /\ New = {Len(messages) + 1}
<1>1. messages \in Seq(Message) /\ Len(messages) \in Nat BY DEF RShape
<1>2. Len(messages') = Len(messages) + 1 /\ messages'[Len(messages) + 1] = m BY <1>1
<1> QED BY <1>1, <1>2 DEF Sent, New, Places

HandledOne == /\ messages # <<>> /\ Told \in Message /\ Told = messages[1]
              /\ messages \in Seq(Message) /\ Len(messages) \in Nat /\ Len(messages) >= 1
              /\ messages' \in Seq(Message) /\ Len(messages') = Len(messages) - 1
              /\ \A i \in Places' : messages'[i] = messages[i + 1]

LEMMA HandlesOne ==
    ASSUME RShape, NEW what, Handle(what)
    PROVE  HandledOne /\ Told.what = what /\ handler = Idle
           /\ UNCHANGED <<given, ended, requests>>
<1>1. messages \in Seq(Message) /\ messages # <<>> /\ messages' = Tail(messages)
  BY DEF RShape, Handle
<1>2. Len(messages) \in Nat /\ Len(messages) >= 1 BY <1>1
<1>3. messages' \in Seq(Message) /\ Len(messages') = Len(messages) - 1 BY <1>1, <1>2
<1>4. \A i \in 1 .. Len(messages') : messages'[i] = messages[i + 1] BY <1>1, <1>2, <1>3
<1>5. Told = messages[1] /\ messages[1] \in Message BY <1>1, <1>2 DEF Told
<1> QED BY <1>1, <1>2, <1>3, <1>4, <1>5 DEF HandledOne, Handle, Told, Places

LEMMA OpeningHandled ==
    ASSUME Opening, HandledOne, opened' = opened, offloading' = offloading,
           mQueue'["audio"] = <<>> \/ mQueue'["audio"] = mQueue["audio"] \/ opened = "yes"
    PROVE  Opening'
<1>1. \A i \in Places' : i + 1 \in Places /\ messages'[i] = messages[i + 1]
  BY DEF HandledOne, Places
<1>2. \A i, j \in Places' : i + 1 = j + 1 => i = j BY DEF HandledOne, Places
<1>3. ASSUME NEW i \in Places'
      PROVE  /\ messages'[i].what = "open" => opened' = "asked"
             /\ messages'[i].what = "disable" => offloading' /\ opened' = "yes"
             /\ Posts(messages'[i], "audio") => opened' = "yes"
  BY <1>1 DEF Opening
<1>4. ASSUME NEW i \in Places', NEW j \in Places', messages'[i].what = messages'[j].what,
             messages'[i].what \in {"open", "disable"}
      PROVE  i = j
  BY <1>1, <1>2, <1>4 DEF Opening
<1>5. opened' # "yes" => mQueue'["audio"] = <<>> BY DEF Opening
<1> QED BY <1>3, <1>4, <1>5 DEF Opening, Posts, Asks

LEMMA OpeningSent ==
    ASSUME RShape, Opening, Sent, opened' = opened, offloading' = offloading,
           \A i \in New : /\ messages'[i].what \notin {"open", "disable"}
                          /\ Posts(messages'[i], "audio") => opened = "yes",
           mQueue'["audio"] = mQueue["audio"] \/ opened = "yes"
    PROVE  Opening'
<1>1. Places \subseteq Nat /\ Len(messages) \in Nat /\ Len(messages') \in Nat
  BY DEF RShape, Sent, Places
<1>2. Places' = Places \cup New BY <1>1 DEF Sent, Places, New
<1>3. ASSUME NEW i \in Places'
      PROVE  /\ messages'[i].what = "open" => opened' = "asked"
             /\ messages'[i].what = "disable" => offloading' /\ opened' = "yes"
             /\ Posts(messages'[i], "audio") => opened' = "yes"
  BY <1>2 DEF Opening, Sent
<1>4. ASSUME NEW i \in Places', NEW j \in Places', messages'[i].what = messages'[j].what,
             messages'[i].what \in {"open", "disable"}
      PROVE  i = j
  <2>1. i \in Places /\ j \in Places BY <1>2, <1>4
  <2> QED BY <1>4, <2>1 DEF Opening, Sent
<1>5. opened' # "yes" => mQueue'["audio"] = <<>> BY DEF Opening
<1> QED BY <1>3, <1>4, <1>5 DEF Opening, Posts, Asks

----------------------------------------------------------------------------
(* What is left of the audio queue when k of it have been taken.           *)
Shortened(k) ==
    /\ k \in Nat /\ k <= Len(mQueue["audio"])
    /\ Len(mQueue'["audio"]) = Len(mQueue["audio"]) - k
    /\ \A i \in 1 .. Len(mQueue'["audio"]) : mQueue'["audio"][i] = mQueue["audio"][i + k]

(* Sending anything else leaves the ends of the audio stream.              *)
LEMMA EndSent ==
    ASSUME RShape, NothingAfterEnd, Sent,
           \A i \in New : ~Posts(messages'[i], "audio"),
           \/ ended'["audio"] = ended["audio"]
           \/ \E f \in New : Asks(messages'[f], "flush", "audio"),
           NEW k, Shortened(k)
    PROVE  NothingAfterEnd'
<1>1. Len(messages) \in Nat /\ Len(messages') \in Nat /\ Len(messages') >= Len(messages)
      /\ Len(mQueue["audio"]) \in Nat
  BY DEF RShape, Sent, Streams
<1>2. Places' = Places \cup New BY <1>1 DEF Places, New
<1>3. ASSUME NEW i \in Nat, i <= Len(messages), EndsAt(i) PROVE EndsAt(i)'
  <2>1. ended'["audio"] \/ FlushIn(i + 1 .. Len(messages))'
    <3>1. CASE \E f \in New : Asks(messages'[f], "flush", "audio")
      <4>1. New \subseteq i + 1 .. Len(messages') BY <1>1, <1>3 DEF New
      <4> QED BY <3>1, <4>1 DEF FlushIn, Asks
    <3>2. CASE ended'["audio"] = ended["audio"]
      <4>1. CASE ended["audio"] BY <3>2, <4>1
      <4>2. CASE FlushIn(i + 1 .. Len(messages))
        <5>1. PICK f \in i + 1 .. Len(messages) : Asks(messages[f], "flush", "audio")
          BY <4>2 DEF FlushIn
        <5>2. f \in Places /\ f \in i + 1 .. Len(messages') BY <1>1 DEF Places
        <5> QED BY <5>1, <5>2 DEF FlushIn, Asks, Sent
      <4> QED BY <1>3, <4>1, <4>2 DEF EndsAt
    <3> QED BY <3>1, <3>2
  <2>2. ASSUME NEW j \in i + 1 .. Len(messages'), Posts(messages'[j], "audio")
        PROVE  FlushIn(i + 1 .. j - 1)'
    <3>1. j \in Places /\ messages'[j] = messages[j] /\ j \in i + 1 .. Len(messages)
      BY <1>1, <1>2, <2>2 DEF Places, New, Sent
    <3>2. PICK f \in i + 1 .. j - 1 : Asks(messages[f], "flush", "audio")
      BY <1>3, <2>2, <3>1 DEF EndsAt, FlushIn
    <3>3. f \in Places BY <1>1, <3>1 DEF Places
    <3> QED BY <3>2, <3>3 DEF FlushIn, Asks, Sent
  <2> QED BY <2>1, <2>2 DEF EndsAt, Posts, Asks
<1>4. ASSUME NEW i \in 1 .. Len(mQueue'["audio"]), mQueue'["audio"][i] = EOS
      PROVE  i = Len(mQueue'["audio"]) /\ EndsAt(0)'
  <2>1. i + k \in 1 .. Len(mQueue["audio"]) /\ mQueue["audio"][i + k] = EOS
    BY <1>1, <1>4 DEF Shortened
  <2>2. i + k = Len(mQueue["audio"]) /\ EndsAt(0) BY <2>1 DEF NothingAfterEnd
  <2> QED BY <1>1, <1>3, <2>2 DEF Shortened
<1>5. ASSUME NEW i \in Places', Asks(messages'[i], "eos", "audio") PROVE EndsAt(i)'
  <2>1. i \in Places /\ messages'[i] = messages[i] /\ i \in Nat /\ i <= Len(messages)
    BY <1>1, <1>2, <1>5 DEF Places, Sent, Posts
  <2> QED BY <1>3, <1>5, <2>1 DEF NothingAfterEnd
<1>6. ASSUME NEW i \in Places', Asks(messages'[i], "queue", "audio")
      PROVE  messages'[i].n # EOS
  BY <1>2, <1>6 DEF Sent, Posts, NothingAfterEnd
<1> QED BY <1>4, <1>5, <1>6 DEF NothingAfterEnd, Asks

LEMMA EndShifts ==
    ASSUME HandledOne, UNCHANGED ended, NEW i \in Nat, EndsAt(i + 1)
    PROVE  EndsAt(i)'
<1>1. Len(messages) \in Nat /\ Len(messages') = Len(messages) - 1 BY DEF HandledOne
<1>2. ASSUME NEW a \in Nat, NEW b \in Int, b <= Len(messages), FlushIn(a + 2 .. b)
      PROVE  FlushIn(a + 1 .. b - 1)'
  <2>1. PICK f \in a + 2 .. b : Asks(messages[f], "flush", "audio") BY <1>2 DEF FlushIn
  <2>2. f - 1 \in Places' /\ f - 1 \in a + 1 .. b - 1 BY <1>1, <1>2 DEF Places
  <2>3. messages'[f - 1] = messages[f] BY <1>1, <1>2, <2>2 DEF HandledOne
  <2> QED BY <2>1, <2>2, <2>3 DEF FlushIn, Asks
<1>3. i + 1 + 1 = i + 2 OBVIOUS
<1>4. ended'["audio"] \/ FlushIn(i + 1 .. Len(messages))'
  BY <1>1, <1>2, <1>3 DEF EndsAt
<1>5. ASSUME NEW j \in i + 1 .. Len(messages'), Posts(messages'[j], "audio")
      PROVE  FlushIn(i + 1 .. j - 1)'
  <2>1. /\ j \in Places' /\ messages'[j] = messages[j + 1]
        /\ j + 1 \in i + 2 .. Len(messages) /\ j + 1 - 1 = j
    BY <1>1 DEF HandledOne, Places
  <2>2. FlushIn(i + 2 .. j) BY <1>3, <1>5, <2>1 DEF EndsAt
  <2>3. j \in Int /\ j <= Len(messages) BY <1>1
  <2> QED BY <1>2, <2>2, <2>3
<1> QED BY <1>4, <1>5 DEF EndsAt, Posts, Asks

(* An end that is handled goes to the queue, and nothing is behind it.     *)
LEMMA EndHandled ==
    ASSUME RShape, NothingAfterEnd, HandledOne, UNCHANGED ended,
           \/ mQueue'["audio"] = <<>>
           \/ /\ ~Asks(Told, "flush", "audio")
              /\ \E k : Shortened(k)
           \/ /\ Posts(Told, "audio")
              /\ \E x \in Nat : /\ mQueue'["audio"] = Append(mQueue["audio"], x)
                                /\ x = EOS => Told.what = "eos"
    PROVE  NothingAfterEnd'
<1> DEFINE Q == mQueue["audio"]
           R == mQueue'["audio"]
<1>1. Q \in Seq(Nat) /\ Len(Q) \in Nat BY DEF RShape, Streams
<1>2. Len(messages) \in Nat /\ Len(messages) >= 1 /\ Len(messages') = Len(messages) - 1
      /\ Told = messages[1]
  BY DEF HandledOne
<1>3. ASSUME NEW i \in Places', Asks(messages'[i], "eos", "audio") PROVE EndsAt(i)'
  <2>1. i + 1 \in Places /\ messages'[i] = messages[i + 1] /\ i \in Nat
    BY <1>2 DEF HandledOne, Places
  <2> QED BY <1>3, <2>1, EndShifts DEF NothingAfterEnd
<1>4. ASSUME EndsAt(0), ~Asks(Told, "flush", "audio") PROVE EndsAt(1)
  <2>1. ASSUME NEW b \in Int, FlushIn(1 .. b) PROVE FlushIn(2 .. b)
    <3>1. PICK f \in 1 .. b : Asks(messages[f], "flush", "audio") BY <2>1 DEF FlushIn
    <3>2. f \in 2 .. b BY <1>2, <1>4, <3>1
    <3> QED BY <3>1, <3>2 DEF FlushIn
  <2> QED BY <1>2, <1>4, <2>1 DEF EndsAt
<1>5. ASSUME EndsAt(0), Posts(Told, "audio") PROVE FALSE
  <2>1. 1 \in 0 + 1 .. Len(messages) /\ 0 + 1 .. 1 - 1 = {} BY <1>2
  <2> QED BY <1>2, <1>5, <2>1 DEF EndsAt, FlushIn
<1>6. ASSUME NEW i \in 1 .. Len(R), R[i] = EOS PROVE i = Len(R) /\ EndsAt(0)'
  <2>1. CASE R = <<>> BY <1>6, <2>1
  <2>2. ASSUME ~Asks(Told, "flush", "audio"), NEW k, Shortened(k) PROVE i = Len(R) /\ EndsAt(0)'
    <3>0. k \in Nat /\ k <= Len(Q) /\ Len(R) = Len(Q) - k /\ R[i] = Q[i + k]
      BY <2>2 DEF Shortened
    <3>1. i + k \in 1 .. Len(Q) /\ Q[i + k] = EOS
      <4> HIDE DEF Q, R
      <4> QED BY <1>1, <1>6, <3>0
    <3>2. i + k = Len(Q) /\ EndsAt(0) BY <3>1 DEF NothingAfterEnd
    <3>3. EndsAt(0 + 1) BY <1>4, <2>2, <3>2
    <3>4. EndsAt(0)' BY <3>3, EndShifts
    <3> QED BY <1>1, <2>2, <3>2, <3>4 DEF Shortened
  <2>3. ASSUME Posts(Told, "audio"), NEW x \in Nat, R = Append(Q, x),
               x = EOS => Told.what = "eos"
        PROVE  i = Len(R) /\ EndsAt(0)'
    <3>1. \A j \in 1 .. Len(Q) : Q[j] # EOS BY <1>5, <2>3 DEF NothingAfterEnd
    <3>2. i = Len(R) /\ x = EOS
      <4> HIDE DEF Q, R
      <4> QED BY <1>1, <1>6, <2>3, <3>1
    <3>3. Asks(messages[1], "eos", "audio") /\ 1 \in Places
      BY <1>2, <2>3, <3>2 DEF Posts, Asks, Places
    <3>4. EndsAt(0 + 1) BY <3>3 DEF NothingAfterEnd
    <3>5. EndsAt(0)' BY <3>4, EndShifts
    <3> QED BY <3>2, <3>5
  <2> QED BY <2>1, <2>2, <2>3
<1>7. ASSUME NEW i \in Places', Asks(messages'[i], "queue", "audio")
      PROVE  messages'[i].n # EOS
  <2>1. i + 1 \in Places /\ messages'[i] = messages[i + 1]
    BY <1>2 DEF HandledOne, Places
  <2> QED BY <1>7, <2>1 DEF NothingAfterEnd
<1> QED BY <1>3, <1>6, <1>7 DEF NothingAfterEnd, Asks

(* A decoder queues nothing behind an end that has not been flushed.       *)
LEMMA EndQueued ==
    ASSUME RShape, NothingAfterEnd, ~ended["audio"], UNCHANGED mQueue,
           NEW m \in Message, messages' = Append(messages, m), Posts(m, "audio"),
           m.what = "eos" => ended'["audio"], m.what = "queue" => m.n # EOS
    PROVE  NothingAfterEnd'
<1>1. /\ Sent /\ Len(messages') = Len(messages) + 1
      /\ messages'[Len(messages) + 1] = m
  BY OneSent
<1>2. Len(messages) \in Nat BY DEF RShape
<1>3. ASSUME NEW i \in Nat, i <= Len(messages), EndsAt(i) PROVE EndsAt(i)'
  <2>1. PICK f \in i + 1 .. Len(messages) : Asks(messages[f], "flush", "audio")
    BY <1>3 DEF EndsAt, FlushIn
  <2>2. f \in Places /\ messages'[f] = messages[f] BY <1>1, <1>2 DEF Places, Sent
  <2>3. f \in i + 1 .. Len(messages') BY <1>1, <1>2
  <2>4. FlushIn(i + 1 .. Len(messages))' BY <2>1, <2>2, <2>3 DEF FlushIn, Asks
  <2>5. ASSUME NEW j \in i + 1 .. Len(messages'), Posts(messages'[j], "audio")
        PROVE  FlushIn(i + 1 .. j - 1)'
    <3>1. CASE j = Len(messages) + 1
      <4>1. f \in i + 1 .. j - 1 BY <1>2, <3>1
      <4> QED BY <2>1, <2>2, <4>1 DEF FlushIn, Asks
    <3>2. CASE j # Len(messages) + 1
      <4>1. j \in Places /\ messages'[j] = messages[j] /\ j \in i + 1 .. Len(messages)
        BY <1>1, <1>2, <3>2 DEF Places, Sent
      <4>2. PICK g \in i + 1 .. j - 1 : Asks(messages[g], "flush", "audio")
        BY <1>3, <2>5, <4>1 DEF EndsAt, FlushIn
      <4>3. g \in Places BY <1>2, <4>1 DEF Places
      <4> QED BY <1>1, <4>2, <4>3 DEF FlushIn, Asks, Sent
    <3> QED BY <3>1, <3>2
  <2> QED BY <2>4, <2>5 DEF EndsAt, Posts, Asks
<1>4. ASSUME NEW i \in 1 .. Len(mQueue'["audio"]), mQueue'["audio"][i] = EOS
      PROVE  i = Len(mQueue'["audio"]) /\ EndsAt(0)'
  BY <1>2, <1>3, <1>4 DEF NothingAfterEnd
<1>5. ASSUME NEW i \in Places', Asks(messages'[i], "eos", "audio") PROVE EndsAt(i)'
  <2>1. CASE i = Len(messages) + 1
    <3>1. ended'["audio"] BY <1>1, <1>5, <2>1 DEF Asks
    <3>2. i + 1 .. Len(messages') = {} BY <1>1, <1>2, <2>1
    <3> QED BY <3>1, <3>2 DEF EndsAt
  <2>2. CASE i # Len(messages) + 1
    <3>1. i \in Places /\ messages'[i] = messages[i] /\ i \in Nat /\ i <= Len(messages)
      BY <1>1, <1>2, <2>2 DEF Places, Sent
    <3> QED BY <1>3, <1>5, <3>1 DEF NothingAfterEnd
  <2> QED BY <2>1, <2>2
<1>6. ASSUME NEW i \in Places', Asks(messages'[i], "queue", "audio")
      PROVE  messages'[i].n # EOS
  <2>1. CASE i = Len(messages) + 1 BY <1>1, <1>6, <2>1 DEF Asks
  <2>2. CASE i # Len(messages) + 1
    <3>1. i \in Places /\ messages'[i] = messages[i]
      BY <1>1, <1>2, <2>2 DEF Places, Sent
    <3> QED BY <1>6, <3>1 DEF NothingAfterEnd
  <2> QED BY <2>1, <2>2
<1> QED BY <1>4, <1>5, <1>6 DEF NothingAfterEnd, Asks

----------------------------------------------------------------------------
(* What posting drains does.                                               *)
LEMMA DrainsPosted ==
    ASSUME RShape, NEW S, S \subseteq Streams, NEW pend, NEW left, Match(pend, left),
           PostDrains(S, pend, left), offloading' = offloading,
           \A s \in S : pend[s] => mQueue'[s] # <<>>
    PROVE  /\ OneDrain' /\ mDrainPending' \in [Streams -> BOOLEAN]
           /\ UNCHANGED mGeneration
           /\ \A s \in Streams : pend[s] => mDrainPending'[s]
           /\ \A s \in Streams \ S : pend[s] <=> mDrainPending'[s]
           /\ \A s \in S : Moving(s)'
           /\ undrained => undrained' \/ mDrainPending'["audio"]
<1> DEFINE now == {s \in S : ~pend[s] /\ MayDrain(s)}
<1>1. /\ mDrainPending' = [s \in Streams |-> pend[s] \/ s \in now]
      /\ undrained' = (undrained /\ "audio" \notin now)
      /\ UNCHANGED mGeneration
  BY DEF PostDrains
<1>2. PICK N : /\ drains' = left \cup N
               /\ \A d \in N : d.s \in now /\ d.gen = mGeneration[d.s]
               /\ \A s \in now : \E d \in N : d.s = s
               /\ \A d, e \in N : d.s = e.s => d = e
  <2> DEFINE P(again, s) == [s |-> s, gen |-> mGeneration[s], repost |-> again /\ s = "video",
                             twin |-> \E d \in left : d.s = s /\ Current(d)]
  <2>1. PICK again \in BOOLEAN : drains' = left \cup {P(again, s) : s \in now}
    BY DEF PostDrains
  <2> HIDE DEF now
  <2>2. \A s \in now : P(again, s).s = s /\ P(again, s).gen = mGeneration[s] OBVIOUS
  <2> HIDE DEF P
  <2> DEFINE N == {P(again, s) : s \in now}
  <2>3. \A d \in N : d.s \in now /\ d.gen = mGeneration[d.s] BY <2>2
  <2>4. \A s \in now : \E d \in N : d.s = s BY <2>2
  <2>5. \A d, e \in N : d.s = e.s => d = e BY <2>2
  <2> QED BY <2>1, <2>3, <2>4, <2>5
<1>3. now \subseteq Streams /\ \A s \in now : ~pend[s] /\ MayDrain(s) OBVIOUS
<1>4. \A s \in S \ now : pend[s] \/ ~MayDrain(s) OBVIOUS
<1> HIDE DEF now
<1>5. \A d \in left \cup drains' : Current(d)' <=> Current(d) BY <1>1 DEF Current
<1>6. \A d \in N : Current(d) BY <1>2 DEF Current
<1>7. ASSUME NEW d \in drains', NEW e \in drains', Current(d), Current(e), d.s = e.s
      PROVE  d = e
  <2>1. CASE d \in left /\ e \in left BY <1>7, <2>1 DEF Match
  <2>2. CASE d \in N /\ e \in N BY <1>2, <1>7, <2>2
  <2>3. ASSUME NEW x \in left, NEW y \in N, Current(x), x.s = y.s PROVE FALSE
    BY <1>2, <1>3, <2>3 DEF Match
  <2> QED BY <1>2, <1>7, <2>1, <2>2, <2>3
<1>8. \A s \in Streams : mDrainPending'[s] <=> pend[s] \/ s \in now BY <1>1
<1>9. ASSUME NEW s \in Streams
      PROVE  mDrainPending'[s] <=> \E d \in drains' : d.s = s /\ Current(d)
  BY <1>2, <1>6, <1>8 DEF Match
<1>10. \A d \in drains' : d.s \in Streams /\ d.gen \in Nat /\ d.gen <= mGeneration[d.s]
  <2>1. \A s \in Streams : mGeneration[s] \in Nat BY DEF RShape
  <2> QED BY <1>2, <1>3, <2>1 DEF Match
<1>11. offloading' => ~mDrainPending'["audio"]
  BY <1>3, <1>8 DEF Match, MayDrain, Streams
<1>12. mDrainPending' \in [Streams -> BOOLEAN] BY <1>1 DEF Match
<1>13. OneDrain' BY <1>1, <1>5, <1>7, <1>9, <1>10, <1>11, <1>12 DEF OneDrain, Match, Current
<1>14. ASSUME NEW s \in S PROVE Moving(s)'
  <2>1. s \in Streams OBVIOUS
  <2>2. CASE mDrainPending'[s]
    <3>1. mQueue'[s] # <<>> BY <1>3, <1>8, <2>1, <2>2 DEF MayDrain
    <3> QED BY <1>12, <2>1, <2>2, <3>1 DEF Moving
  <2>3. CASE ~mDrainPending'[s]
    <3>1. ~MayDrain(s) BY <1>4, <1>8, <2>1, <2>3
    <3> QED BY <2>1, <2>3, <3>1 DEF Moving, MayDrain, Streams
  <2> QED BY <2>2, <2>3
<1>15. now \subseteq S BY DEF now
<1> QED BY <1>1, <1>8, <1>12, <1>13, <1>14, <1>15 DEF Streams

LEMMA DrainsStay ==
    ASSUME OneDrain, UNCHANGED <<drains, mDrainPending, mGeneration, offloading>>
    PROVE  OneDrain'
BY DEF OneDrain, Match, Current

LEMMA MovesOn ==
    ASSUME \A s \in Streams : Moving(s),
           UNCHANGED <<mDrainPending, mQueue, mPaused, mAudioSinkStopped, offloading>>,
           undrained => undrained'
    PROVE  \A s \in Streams : Moving(s)'
BY DEF Moving

(* A drain is over, and with it the flag of its stream.                    *)
LEMMA OneLess ==
    ASSUME RShape, OneDrain, NEW d \in drains, Current(d)
    PROVE  Match(Without(d.s), drains \ {d})
BY DEF RShape, OneDrain, Match, Without

(* What sinks take, and callbacks of offloaded ones.                       *)
LEMMA LeadIsWithin ==
    ASSUME RShape
    PROVE  /\ Lead \in Nat /\ Lead <= Len(mQueue["audio"])
           /\ NothingAfterEnd => Lead + 1 >= Len(mQueue["audio"])
<1> DEFINE Q == mQueue["audio"]
           L == {i \in DOMAIN Q : \A j \in 1 .. i : Q[j] # EOS}
           n == Len(Q)
<1>1. Q \in Seq(Nat) /\ n \in Nat /\ DOMAIN Q = 1 .. n BY DEF RShape, Streams
<1>2. L \subseteq 1 .. n BY <1>1
<1>3. IsFiniteSet(1 .. n) /\ Cardinality(1 .. n) = n BY <1>1, FS_Interval
<1>4. IsFiniteSet(L) /\ Cardinality(L) \in Nat /\ Cardinality(L) <= n
  <2> HIDE DEF L, n
  <2> QED BY <1>2, <1>3, FS_Subset, FS_CardinalityType
<1>5. ASSUME NothingAfterEnd PROVE Cardinality(L) + 1 >= n
  <2>1. \A i \in 1 .. n : Q[i] = EOS => i = n BY <1>5 DEF NothingAfterEnd
  <2>2. 1 .. n - 1 \subseteq L BY <1>1, <2>1
  <2>3. Cardinality(1 .. n - 1) <= Cardinality(L)
    <3> HIDE DEF L, n
    <3> QED BY <1>4, <2>2, FS_Subset
  <2>4. CASE n = 0 BY <1>4, <2>4
  <2>5. CASE n # 0
    <3> HIDE DEF n, L
    <3>1. n - 1 \in Int /\ 1 <= n /\ 1 \in Int BY <1>1, <2>5
    <3>2. Cardinality(1 .. n - 1) = n - 1 BY <1>1, <2>5, <3>1, FS_Interval
    <3> QED BY <1>1, <1>4, <2>3, <3>2
  <2> QED BY <2>4, <2>5
<1>6. Lead = Cardinality(L) BY DEF Lead
<1> QED BY <1>4, <1>5, <1>6

LEMMA AudioTaken ==
    ASSUME RShape, NothingAfterEnd, NEW k \in 0 .. Lead, NEW end \in {0, 1}, TakeAudio(k, end)
    PROVE  /\ mQueue' \in [Streams -> Seq(Nat)]
           /\ mQueue'["video"] = mQueue["video"]
           /\ Shortened(k + end)
           /\ end = 1 => mQueue'["audio"] = <<>> /\ k + 1 = Len(mQueue["audio"])
<1> DEFINE Q == mQueue["audio"]
           R == mQueue'["audio"]
<1>1. Q \in Seq(Nat) /\ Len(Q) \in Nat BY DEF RShape, Streams
<1>2. /\ mQueue' = [mQueue EXCEPT !["audio"] = SubSeq(Q, k + end + 1, Len(Q))]
      /\ end = 1 => k = Lead /\ k < Len(Q)
  BY DEF TakeAudio
<1>3. R = SubSeq(Q, k + end + 1, Len(Q)) /\ mQueue'["video"] = mQueue["video"]
  BY <1>2 DEF RShape, Streams
<1>4. k \in Nat /\ k + end \in Nat /\ k + end <= Len(Q)
  <2>1. Lead \in Nat /\ Lead <= Len(Q) BY LeadIsWithin
  <2> HIDE DEF Q
  <2> QED BY <1>1, <1>2, <2>1
<1>5. /\ R \in Seq(Nat) /\ Len(R) = Len(Q) - (k + end)
      /\ \A i \in 1 .. Len(R) : R[i] = Q[i + (k + end)]
  <2> DEFINE a == k + end
  <2>1. R = SubSeq(Q, a + 1, Len(Q)) BY <1>3
  <2>2. a \in Nat /\ a <= Len(Q) BY <1>4
  <2> HIDE DEF Q, R, a
  <2>3. R \in Seq(Nat) /\ Len(R) = Len(Q) - a BY <1>1, <2>1, <2>2
  <2>4. \A i \in 1 .. Len(R) : R[i] = Q[i + a]
    <3> SUFFICES ASSUME NEW i \in 1 .. Len(R) PROVE R[i] = Q[i + a] OBVIOUS
    <3>1. i \in 1 .. Len(Q) - a BY <2>3
    <3>2. a + 1 \in Int /\ Len(Q) - (a + 1) + 1 = Len(Q) - a BY <1>1, <2>2
    <3>3. R[i] = Q[a + 1 + i - 1] BY <1>1, <2>1, <2>2, <3>1, <3>2
    <3> QED BY <1>1, <2>2, <3>3
  <2> QED BY <2>3, <2>4 DEF a
<1>6. mQueue' \in [Streams -> Seq(Nat)] BY <1>2, <1>3, <1>5 DEF RShape, Streams
<1>7. Shortened(k + end) BY <1>4, <1>5 DEF Shortened
<1>8. ASSUME end = 1 PROVE R = <<>> /\ k + 1 = Len(Q)
  <2>1. Lead + 1 >= Len(Q) BY LeadIsWithin
  <2> HIDE DEF Q, R
  <2>2. k + 1 = Len(Q) BY <1>1, <1>2, <1>4, <1>8, <2>1
  <2>3. Len(R) = 0 BY <1>1, <1>4, <1>5, <1>8, <2>2
  <2> QED BY <1>5, <2>2, <2>3
<1> QED BY <1>3, <1>6, <1>7, <1>8

----------------------------------------------------------------------------
(* The calls of decoders and player, which send one message.               *)
LEMMA CallKeeps ==
    ASSUME DrainInv, NEW m \in Message, messages' = Append(messages, m),
           UNCHANGED <<onBuffers, onDrains, onState, handler>>,
           given' \in [Streams -> Nat], ended' \in [Streams -> BOOLEAN],
           Opening', NothingAfterEnd'
    PROVE  DrainInv'
<1>1. messages' \in Seq(Message) BY OneSent DEF DrainInv, Sent
<1>2. RShape' BY <1>1 DEF DrainInv, RShape, onBuffers, onDrains
<1>3. OneDrain' BY DrainsStay DEF DrainInv, onDrains, onState
<1>4. \A s \in Streams : Moving(s)'
  BY MovesOn DEF DrainInv, onBuffers, onDrains, onState
<1> QED BY <1>2, <1>3, <1>4 DEF DrainInv

LEMMA QueueKeeps ==
    ASSUME DrainInv, NEW s \in Streams, queueBuffer(s) \/ queueEOS(s)
    PROVE  DrainInv'
<1>1. /\ UNCHANGED <<onBuffers, onDrains, onState, handler, opened>>
      /\ MayQueue(s)
      /\ \/ /\ given' = [given EXCEPT ![s] = @ + 1] /\ UNCHANGED ended
            /\ messages' = Append(messages, Msg("queue", s, given'[s]))
         \/ /\ ended' = [ended EXCEPT ![s] = TRUE] /\ UNCHANGED given
            /\ messages' = Append(messages, Msg("eos", s, 0))
  BY DEF queueBuffer, queueEOS
<1>2. given' \in [Streams -> Nat] /\ ended' \in [Streams -> BOOLEAN]
      /\ RShape /\ Opening /\ NothingAfterEnd
  <2>1. RShape /\ Opening /\ NothingAfterEnd BY DEF DrainInv
  <2>2. given \in [Streams -> Nat] /\ ended \in [Streams -> BOOLEAN] BY <2>1 DEF RShape
  <2>3. given' = given \/ given' = [given EXCEPT ![s] = @ + 1] BY <1>1
  <2>4. ended' = ended \/ ended' = [ended EXCEPT ![s] = TRUE] BY <1>1
  <2>5. given' \in [Streams -> Nat] BY <2>2, <2>3
  <2>6. ended' \in [Streams -> BOOLEAN] BY <2>2, <2>4
  <2> QED BY <2>1, <2>5, <2>6
<1>3. PICK x \in Message : /\ messages' = Append(messages, x) /\ x.s = s
                           /\ x.what \in {"queue", "eos"}
                           /\ x.what = "eos" => ended' = [ended EXCEPT ![s] = TRUE]
                           /\ x.what = "queue" => UNCHANGED ended /\ x.n # EOS
  <2>1. Msg("queue", s, given'[s]) \in Message /\ Msg("eos", s, 0) \in Message
    BY <1>2 DEF Msg, Message, Kinds
  <2>2. given' = [given EXCEPT ![s] = @ + 1] => given'[s] # EOS
    BY <1>2 DEF RShape, EOS
  <2> QED BY <1>1, <2>1, <2>2 DEF Msg
<1>4. Sent /\ New = {Len(messages) + 1} /\ messages'[Len(messages) + 1] = x
  BY <1>2, <1>3, OneSent
<1>5. Opening'
  BY <1>1, <1>2, <1>3, <1>4, OpeningSent DEF onBuffers, onState, MayQueue, Posts, Asks
<1>6. NothingAfterEnd'
  <2>1. CASE s = "audio"
    <3>1. ~ended["audio"] /\ UNCHANGED mQueue BY <1>1, <2>1 DEF MayQueue, onBuffers
    <3>2. Posts(x, "audio") /\ (x.what = "eos" => ended'["audio"])
      BY <1>2, <1>3, <2>1 DEF Posts, Asks, RShape
    <3> QED BY <1>2, <1>3, <3>1, <3>2, EndQueued
  <2>2. CASE s # "audio"
    <3>1. ended'["audio"] = ended["audio"] BY <1>2, <1>3, <2>2 DEF RShape, Streams
    <3>2. Shortened(0) BY <1>1, <1>2 DEF Shortened, onBuffers, RShape, Streams
    <3>3. \A i \in New : ~Posts(messages'[i], "audio") BY <1>3, <1>4, <2>2 DEF Posts, Asks
    <3> QED BY <1>2, <1>4, <3>1, <3>2, <3>3, EndSent
  <2> QED BY <2>1, <2>2
<1> QED BY <1>1, <1>2, <1>3, <1>5, <1>6, CallKeeps

(* Nothing of the streams is sent: the rest of the calls.                  *)
LEMMA NoticeKeeps ==
    ASSUME RShape, NothingAfterEnd, NEW m \in Message, messages' = Append(messages, m),
           ~Posts(m, "audio"), UNCHANGED mQueue,
           ended'["audio"] = ended["audio"] \/ Asks(m, "flush", "audio")
    PROVE  NothingAfterEnd'
<1>1. Sent /\ New = {Len(messages) + 1} /\ messages'[Len(messages) + 1] = m BY OneSent
<1>2. Shortened(0) BY DEF Shortened, RShape, Streams
<1> QED BY <1>1, <1>2, EndSent

LEMMA FlushKeeps ==
    ASSUME DrainInv, NEW s \in Streams, flush(s)
    PROVE  DrainInv'
<1> DEFINE m == Msg("flush", s, given[s])
<1>1. /\ UNCHANGED <<onBuffers, onDrains, onState, handler, opened, given>>
      /\ ended' = [ended EXCEPT ![s] = FALSE] /\ messages' = Append(messages, m)
  BY DEF flush
<1>2. RShape /\ Opening /\ NothingAfterEnd /\ m \in Message /\ m.what = "flush" /\ m.s = s
  BY DEF DrainInv, RShape, Msg, Message, Kinds
<1> HIDE DEF m
<1>3. Sent /\ New = {Len(messages) + 1} /\ messages'[Len(messages) + 1] = m
  BY <1>1, <1>2, OneSent
<1>4. Opening' BY <1>1, <1>2, <1>3, OpeningSent DEF onBuffers, onState, Posts, Asks
<1>5. ended'["audio"] = ended["audio"] \/ Asks(m, "flush", "audio")
  BY <1>1, <1>2 DEF RShape, Streams, Asks
<1>6. NothingAfterEnd' BY <1>1, <1>2, <1>5, NoticeKeeps DEF onBuffers, Posts, Asks
<1>7. given' \in [Streams -> Nat] /\ ended' \in [Streams -> BOOLEAN]
  BY <1>1, <1>2 DEF RShape
<1> QED BY <1>1, <1>2, <1>4, <1>6, <1>7, CallKeeps

LEMMA SignalKeeps ==
    ASSUME DrainInv, NEW what \in {"pause", "resume", "start", "disable"}, Signal(what)
    PROVE  DrainInv'
<1> DEFINE m == Msg(what, "audio", 0)
<1>1. /\ UNCHANGED <<onBuffers, onDrains, onState, handler, opened, given, ended>>
      /\ messages' = Append(messages, m)
      /\ what = "disable" => /\ offloading /\ opened = "yes"
                             /\ \A i \in DOMAIN messages : messages[i].what # "disable"
  BY DEF Signal
<1>2. RShape /\ Opening /\ NothingAfterEnd /\ m \in Message /\ m.what = what
  BY DEF DrainInv, RShape, Msg, Message, Kinds, Streams
<1> HIDE DEF m
<1>3. /\ Sent /\ New = {Len(messages) + 1} /\ messages'[Len(messages) + 1] = m
      /\ Len(messages') = Len(messages) + 1
  BY <1>1, <1>2, OneSent
<1>4. ~Posts(m, "audio") BY <1>2 DEF Posts, Asks
<1>5. Opening'
  <2>1. CASE what # "disable"
    BY <1>1, <1>2, <1>3, <1>4, <2>1, OpeningSent DEF onBuffers, onState
  <2>2. CASE what = "disable"
    <3>1. Len(messages) \in Nat /\ DOMAIN messages = Places BY <1>2 DEF RShape, Places
    <3>2. Places' = Places \cup {Len(messages) + 1} BY <1>3, <3>1 DEF Places
    <3>3. UNCHANGED <<opened, offloading, mQueue>> BY <1>1 DEF onBuffers, onState
    <3>4. ASSUME NEW i \in Places'
          PROVE  /\ messages'[i].what = "open" => opened' = "asked"
                 /\ messages'[i].what = "disable" => offloading' /\ opened' = "yes"
                 /\ Posts(messages'[i], "audio") => opened' = "yes"
      BY <1>1, <1>2, <1>3, <1>4, <2>2, <3>2, <3>3 DEF Opening, Sent
    <3>5. ASSUME NEW i \in Places', NEW j \in Places',
                 messages'[i].what = messages'[j].what,
                 messages'[i].what \in {"open", "disable"}
          PROVE  i = j
      <4>1. CASE i \in Places /\ j \in Places BY <1>2, <1>3, <3>5, <4>1 DEF Opening, Sent
      <4>2. \A k \in Places : messages'[k].what # "disable" BY <1>1, <1>3, <2>2, <3>1 DEF Sent
      <4> QED BY <1>2, <1>3, <2>2, <3>2, <3>5, <4>1, <4>2
    <3> QED BY <1>2, <3>3, <3>4, <3>5 DEF Opening, Posts, Asks
  <2> QED BY <2>1, <2>2
<1>6. NothingAfterEnd' BY <1>1, <1>2, <1>4, NoticeKeeps DEF onBuffers
<1>7. given' \in [Streams -> Nat] /\ ended' \in [Streams -> BOOLEAN]
  BY <1>1, <1>2 DEF RShape
<1> QED BY <1>1, <1>2, <1>5, <1>6, <1>7, CallKeeps

LEMMA AskingKeeps == ASSUME DrainInv, openAudioSink PROVE DrainInv'
<1> DEFINE m == Msg("open", "audio", 0)
<1>1. /\ UNCHANGED <<onBuffers, onDrains, onState, handler, given, ended>>
      /\ messages' = Append(messages, m) /\ opened = "no" /\ opened' = "asked"
  BY DEF openAudioSink
<1>2. RShape /\ Opening /\ NothingAfterEnd /\ m \in Message /\ m.what = "open"
  BY DEF DrainInv, RShape, Msg, Message, Kinds, Streams
<1> HIDE DEF m
<1>3. /\ Sent /\ messages'[Len(messages) + 1] = m /\ Len(messages') = Len(messages) + 1
  BY <1>1, <1>2, OneSent
<1>4. ~Posts(m, "audio") BY <1>2 DEF Posts, Asks
<1>5. Opening'
  <2>1. Len(messages) \in Nat BY <1>2 DEF RShape
  <2>2. Places' = Places \cup {Len(messages) + 1} BY <1>3, <2>1 DEF Places
  <2>3. \A i \in Places : /\ messages'[i].what \notin {"open", "disable"}
                          /\ ~Posts(messages'[i], "audio")
    BY <1>1, <1>2, <1>3 DEF Opening, Sent
  <2>4. mQueue'["audio"] = <<>> BY <1>1, <1>2 DEF Opening, onBuffers
  <2>5. ASSUME NEW i \in Places'
        PROVE  /\ messages'[i].what = "open" => opened' = "asked"
               /\ messages'[i].what # "disable" /\ ~Posts(messages'[i], "audio")
    BY <1>1, <1>2, <1>3, <1>4, <2>2, <2>3
  <2>6. ASSUME NEW i \in Places', NEW j \in Places', messages'[i].what \in {"open", "disable"},
               messages'[j].what \in {"open", "disable"}
        PROVE  i = j
    BY <2>2, <2>3, <2>6
  <2> QED BY <2>4, <2>5, <2>6 DEF Opening, Posts, Asks
<1>6. NothingAfterEnd' BY <1>1, <1>2, <1>4, NoticeKeeps DEF onBuffers
<1>7. given' \in [Streams -> Nat] /\ ended' \in [Streams -> BOOLEAN]
  BY <1>1, <1>2 DEF RShape
<1> QED BY <1>1, <1>2, <1>5, <1>6, <1>7, CallKeeps

----------------------------------------------------------------------------
(* What the looper does between messages, and messages without drains.     *)
LEMMA TestKeeps == ASSUME DrainInv, TestStarted PROVE DrainInv'
<1>1. /\ Handle("queue") /\ Told.s = "video"
      /\ handler' = [at |-> "park", s |-> "video", n |-> Told.n]
      /\ UNCHANGED <<mQueue, mPendingInputMessages, drains, mDrainPending, mGeneration,
                     undrained, mPaused, mAudioSinkStopped, offloading, opened>>
  BY DEF TestStarted, onBuffers, onDrains, onState
<1>2. RShape /\ OneDrain /\ Opening /\ NothingAfterEnd BY DEF DrainInv
<1>3. HandledOne /\ Told.what = "queue" /\ UNCHANGED <<given, ended>> BY <1>1, <1>2, HandlesOne
<1>4. RShape' BY <1>1, <1>2, <1>3 DEF RShape, HandledOne, Message, Streams
<1>5. Opening' BY <1>1, <1>2, <1>3, OpeningHandled
<1>6. NothingAfterEnd'
  <2>1. Shortened(0) BY <1>1, <1>2 DEF Shortened, RShape, Streams
  <2> QED BY <1>1, <1>2, <1>3, <2>1, EndHandled DEF Asks
<1>7. OneDrain' /\ \A s \in Streams : Moving(s)' BY <1>1, <1>2, DrainsStay, MovesOn DEF DrainInv
<1> QED BY <1>4, <1>5, <1>6, <1>7 DEF DrainInv

LEMMA BetweenKeeps == ASSUME DrainInv, Park \/ FlushComplete PROVE DrainInv'
<1>1. /\ UNCHANGED <<messages, mQueue, drains, mDrainPending, mGeneration, undrained,
                     mPaused, mAudioSinkStopped, offloading, given, ended, opened>>
      /\ mPendingInputMessages' \in {mPendingInputMessages,
                                     Append(mPendingInputMessages, handler.n)}
      /\ handler' = Idle
  BY DEF Park, FlushComplete, onBuffers, onDrains, onState, onPlayer
<1>2. RShape'
  <2>1. mPendingInputMessages' \in Seq(Nat)
    <3>1. handler.n \in Nat /\ mPendingInputMessages \in Seq(Nat) BY DEF DrainInv, RShape
    <3> QED BY <1>1, <3>1
  <2>2. handler' \in [at : {"idle", "park", "flushed"}, s : Streams, n : Nat]
    BY <1>1 DEF Idle, Streams
  <2> QED BY <1>1, <2>1, <2>2 DEF DrainInv, RShape
<1>3. OneDrain' /\ \A s \in Streams : Moving(s)' BY <1>1, DrainsStay, MovesOn DEF DrainInv
<1>4. Opening' BY <1>1 DEF DrainInv, Opening, Places
<1>5. NothingAfterEnd' BY <1>1 DEF DrainInv, NothingAfterEnd, EndsAt, FlushIn, Places
<1> QED BY <1>2, <1>3, <1>4, <1>5 DEF DrainInv

(* A message that is no buffer and no flush leaves the streams alone.      *)
Aside(what) == /\ Handle(what) /\ what \notin {"queue", "eos", "flush"}
               /\ UNCHANGED <<mQueue, mPendingInputMessages, handler>>

LEMMA AsideKeeps ==
    ASSUME DrainInv, NEW what, Aside(what), mDrainPending' \in [Streams -> BOOLEAN],
           mGeneration' \in [Streams -> Nat]
    PROVE  /\ RShape' /\ NothingAfterEnd'
           /\ UNCHANGED <<opened, offloading>> => Opening'
<1>1. RShape /\ Opening /\ NothingAfterEnd BY DEF DrainInv
<1>2. HandledOne /\ Told.what = what /\ UNCHANGED <<given, ended>>
  BY <1>1, HandlesOne DEF Aside
<1>3. RShape' BY <1>1, <1>2 DEF Aside, RShape, HandledOne
<1>4. NothingAfterEnd'
  <2>1. Shortened(0) BY <1>1 DEF Shortened, RShape, Streams, Aside
  <2> QED BY <1>1, <1>2, <2>1, EndHandled DEF Asks, Aside
<1>5. UNCHANGED <<opened, offloading>> => Opening' BY <1>1, <1>2, OpeningHandled DEF Aside
<1> QED BY <1>3, <1>4, <1>5

LEMMA StopKeeps == ASSUME DrainInv, onStopAudioSink PROVE DrainInv'
<1>1. /\ Aside("stop") /\ mAudioSinkStopped' = TRUE
      /\ UNCHANGED <<drains, mDrainPending, mGeneration, undrained, mPaused, offloading, opened>>
  BY DEF onStopAudioSink, Aside, onDrains, onBuffers
<1>2. RShape' /\ NothingAfterEnd' /\ Opening' BY <1>1, AsideKeeps DEF DrainInv, RShape
<1>3. OneDrain' BY <1>1, DrainsStay DEF DrainInv
<1>4. \A s \in Streams : Moving(s)' BY <1>1 DEF DrainInv, Moving, Aside
<1> QED BY <1>2, <1>3, <1>4 DEF DrainInv

LEMMA StartKeeps == ASSUME DrainInv, onStartAudioSink PROVE DrainInv'
<1>1. /\ Aside("start") /\ Strand
      /\ UNCHANGED <<drains, mDrainPending, mGeneration, mPaused, offloading, opened>>
  BY DEF onStartAudioSink, Aside, onBuffers
<1>2. RShape' /\ NothingAfterEnd' /\ Opening' BY <1>1, AsideKeeps DEF DrainInv, RShape
<1>3. OneDrain' BY <1>1, DrainsStay DEF DrainInv
<1>4. \A s \in Streams : Moving(s)' BY <1>1 DEF DrainInv, Moving, Aside, Strand
<1> QED BY <1>2, <1>3, <1>4 DEF DrainInv

(* A new generation outdates the drains of its stream.                     *)
LEMMA Outdated ==
    ASSUME RShape, OneDrain, NEW S, S \subseteq Streams,
           mGeneration' = [s \in Streams |-> mGeneration[s] + IF s \in S THEN 1 ELSE 0],
           mDrainPending' = [s \in Streams |-> s \notin S /\ mDrainPending[s]],
           UNCHANGED drains, offloading' => offloading
    PROVE  OneDrain'
<1>1. \A s \in Streams : mGeneration[s] \in Nat /\ mDrainPending[s] \in BOOLEAN BY DEF RShape
<1>2. ASSUME NEW d \in drains
      PROVE  /\ d.s \in Streams /\ d.gen \in Nat /\ d.gen <= mGeneration'[d.s]
             /\ Current(d)' <=> Current(d) /\ d.s \notin S
  <2>1. d.s \in Streams /\ d.gen \in Nat /\ d.gen <= mGeneration[d.s]
    BY DEF OneDrain, Match
  <2> QED BY <1>1, <2>1 DEF Current
<1>3. \A d, e \in drains : Current(d)' /\ Current(e)' /\ d.s = e.s => d = e
  BY <1>2 DEF OneDrain, Match
<1>4. ASSUME NEW s \in Streams
      PROVE  mDrainPending'[s] <=> \E d \in drains : d.s = s /\ Current(d)'
  <2>1. mDrainPending[s] <=> \E d \in drains : d.s = s /\ Current(d) BY DEF OneDrain, Match
  <2>2. mDrainPending'[s] <=> s \notin S /\ mDrainPending[s] OBVIOUS
  <2>3. CASE s \in S BY <1>2, <2>2, <2>3
  <2>4. CASE s \notin S BY <1>2, <2>1, <2>2, <2>4
  <2> QED BY <2>3, <2>4
<1>5. offloading' => ~mDrainPending'["audio"] BY DEF OneDrain, Match, Streams
<1>6. mDrainPending' \in [Streams -> BOOLEAN] BY <1>1
<1> QED BY <1>2, <1>3, <1>4, <1>5, <1>6 DEF OneDrain, Match, Current

LEMMA PauseKeeps == ASSUME DrainInv, onPause PROVE DrainInv'
<1> DEFINE S == IF mPaused THEN {} ELSE Streams
<1>1. /\ Aside("pause") /\ mPaused' = TRUE
      /\ mGeneration' = IF mPaused THEN mGeneration ELSE [s \in Streams |-> mGeneration[s] + 1]
      /\ mDrainPending' = IF mPaused THEN mDrainPending ELSE [s \in Streams |-> FALSE]
      /\ UNCHANGED <<drains, undrained, offloading, opened>>
  BY DEF onPause, Aside, onBuffers
<1>2. RShape BY DEF DrainInv
<1>3. mGeneration' = [s \in Streams |-> mGeneration[s] + IF s \in S THEN 1 ELSE 0]
  <2>1. \A s \in Streams : mGeneration[s] \in Nat BY <1>2 DEF RShape
  <2>2. mGeneration = [s \in Streams |-> mGeneration[s]] BY <1>2 DEF RShape
  <2> QED BY <1>1, <2>1, <2>2
<1>4. mDrainPending' = [s \in Streams |-> s \notin S /\ mDrainPending[s]]
  <2>1. \A s \in Streams : mDrainPending[s] \in BOOLEAN BY <1>2 DEF RShape
  <2>2. mDrainPending = [s \in Streams |-> mDrainPending[s]] BY <1>2 DEF RShape
  <2> QED BY <1>1, <2>1, <2>2
<1>5. mDrainPending' \in [Streams -> BOOLEAN] /\ mGeneration' \in [Streams -> Nat]
  BY <1>1, <1>2 DEF RShape
<1>6. RShape' /\ NothingAfterEnd' /\ Opening' BY <1>1, <1>5, AsideKeeps
<1>7. OneDrain'
  <2>1. S \subseteq Streams OBVIOUS
  <2> HIDE DEF S
  <2> QED BY <1>1, <1>2, <1>3, <1>4, <2>1, Outdated DEF DrainInv
<1>8. ASSUME NEW s \in Streams PROVE Moving(s)'
  <2>1. mDrainPending'[s] => mDrainPending[s] BY <1>1
  <2> QED BY <1>1, <2>1 DEF DrainInv, Moving, Aside
<1> QED BY <1>6, <1>7, <1>8 DEF DrainInv

LEMMA Bumped ==
    ASSUME NEW g \in [Streams -> Nat], NEW s \in Streams
    PROVE  [g EXCEPT ![s] = @ + 1] = [t \in Streams |-> g[t] + IF t \in {s} THEN 1 ELSE 0]
<1>1. \A t \in Streams : [g EXCEPT ![s] = @ + 1][t] = g[t] + IF t \in {s} THEN 1 ELSE 0
  OBVIOUS
<1> QED BY <1>1

LEMMA EmptiedKeeps == ASSUME DrainInv, onFlush PROVE DrainInv'
<1> DEFINE s == Told.s
<1>1. /\ Handle("flush")
      /\ mPendingInputMessages' \in {<<>>, mPendingInputMessages}
      /\ mQueue' = [mQueue EXCEPT ![s] = <<>>]
      /\ mGeneration' = [mGeneration EXCEPT ![s] = @ + 1]
      /\ mDrainPending' = [mDrainPending EXCEPT ![s] = FALSE]
      /\ handler' = [at |-> "flushed", s |-> s, n |-> Told.n]
      /\ UNCHANGED <<drains, undrained, mPaused, mAudioSinkStopped, offloading, opened>>
  BY DEF onFlush, onState
<1>2. RShape /\ OneDrain /\ Opening /\ NothingAfterEnd BY DEF DrainInv
<1>3. /\ HandledOne /\ Told.what = "flush" /\ UNCHANGED <<given, ended>>
      /\ s \in Streams /\ Told.n \in Nat
  BY <1>1, <1>2, HandlesOne DEF HandledOne, Message
<1> HIDE DEF s
<1>4. /\ mGeneration' = [t \in Streams |-> mGeneration[t] + IF t \in {s} THEN 1 ELSE 0]
      /\ mDrainPending' = [t \in Streams |-> t \notin {s} /\ mDrainPending[t]]
  <2>1. mGeneration \in [Streams -> Nat] /\ mDrainPending \in [Streams -> BOOLEAN]
    BY <1>2 DEF RShape
  <2>2. mGeneration' = [t \in Streams |-> mGeneration[t] + IF t \in {s} THEN 1 ELSE 0]
    BY <1>1, <1>3, <2>1, Bumped
  <2>3. mDrainPending' = [t \in Streams |-> t \notin {s} /\ mDrainPending[t]]
    BY <1>1, <1>3, <2>1
  <2> QED BY <2>2, <2>3
<1>5. /\ mQueue' \in [Streams -> Seq(Nat)] /\ mQueue'[s] = <<>>
      /\ \A t \in Streams \ {s} : mQueue'[t] = mQueue[t]
  BY <1>1, <1>2, <1>3 DEF RShape
<1>6. RShape'
  <2>1. messages' \in Seq(Message) BY <1>3 DEF HandledOne
  <2>2. mPendingInputMessages' \in Seq(Nat)
    <3>1. mPendingInputMessages \in Seq(Nat) /\ <<>> \in Seq(Nat) BY <1>2 DEF RShape
    <3>2. mPendingInputMessages' = <<>> \/ mPendingInputMessages' = mPendingInputMessages
      BY <1>1
    <3> QED BY <3>1, <3>2
  <2>3. mGeneration' \in [Streams -> Nat] /\ mDrainPending' \in [Streams -> BOOLEAN]
    BY <1>1, <1>2, <1>3 DEF RShape
  <2>4. handler' \in [at : {"idle", "park", "flushed"}, s : Streams, n : Nat] BY <1>1, <1>3
  <2>5. given' \in [Streams -> Nat] /\ ended' \in [Streams -> BOOLEAN] BY <1>2, <1>3 DEF RShape
  <2> QED BY <1>5, <2>1, <2>2, <2>3, <2>4, <2>5 DEF RShape
<1>7. OneDrain'
  <2>1. {s} \subseteq Streams BY <1>3
  <2> QED BY <1>1, <1>2, <1>4, <2>1, Outdated
<1>8. Opening' BY <1>1, <1>2, <1>3, <1>5, OpeningHandled DEF Streams
<1>9. NothingAfterEnd'
  <2>1. CASE s = "audio" BY <1>2, <1>3, <1>5, <2>1, EndHandled
  <2>2. CASE s # "audio"
    <3>1. Shortened(0) BY <1>2, <1>5, <2>2 DEF Shortened, RShape, Streams
    <3>2. ~Asks(Told, "flush", "audio") BY <2>2 DEF Asks, s
    <3> QED BY <1>2, <1>3, <3>1, <3>2, EndHandled
  <2> QED BY <2>1, <2>2
<1>10. \A t \in Streams : Moving(t)'
  <2>1. \A t \in Streams \ {s} : mDrainPending'[t] = mDrainPending[t] BY <1>1, <1>2 DEF RShape
  <2>2. ~mDrainPending'[s] BY <1>1, <1>2, <1>3 DEF RShape
  <2> QED BY <1>1, <1>5, <2>1, <2>2 DEF DrainInv, Moving
<1> QED BY <1>6, <1>7, <1>8, <1>9, <1>10 DEF DrainInv

(* Offloading is given up while the sink has all the audio, so that there  *)
(* is no drain to outdate.                                                 *)
LEMMA GivenUp ==
    ASSUME RShape, OneDrain, offloading, ~offloading',
           mGeneration' = [mGeneration EXCEPT !["audio"] = @ + 1],
           UNCHANGED <<drains, mDrainPending>>
    PROVE  OneDrain' /\ mGeneration' \in [Streams -> Nat] /\ ~mDrainPending["audio"]
<1> DEFINE S == {"audio"}
<1>1. /\ mGeneration \in [Streams -> Nat] /\ mDrainPending \in [Streams -> BOOLEAN]
      /\ "audio" \in Streams /\ S \subseteq Streams /\ ~mDrainPending["audio"]
  BY DEF RShape, Streams, OneDrain, Match
<1>2. mGeneration' = [s \in Streams |-> mGeneration[s] + IF s \in S THEN 1 ELSE 0]
  BY <1>1, Bumped
<1>3. mDrainPending' = [s \in Streams |-> s \notin S /\ mDrainPending[s]]
  <2>1. mDrainPending = [s \in Streams |-> mDrainPending[s]] BY <1>1
  <2>2. \A s \in Streams : mDrainPending[s] = (s \notin S /\ mDrainPending[s]) BY <1>1
  <2> QED BY <2>1, <2>2
<1>4. mGeneration' \in [Streams -> Nat] BY <1>1
<1>5. OneDrain'
  <2> HIDE DEF S
  <2> QED BY <1>1, <1>2, <1>3, Outdated
<1> QED BY <1>1, <1>4, <1>5

LEMMA DisableKeeps == ASSUME DrainInv, onDisableOffloadAudio PROVE DrainInv'
<1>1. /\ Aside("disable") /\ offloading' = FALSE /\ Strand
      /\ mGeneration' = [mGeneration EXCEPT !["audio"] = @ + 1]
      /\ UNCHANGED <<drains, mDrainPending, mPaused, mAudioSinkStopped, opened>>
  BY DEF onDisableOffloadAudio, Aside, onBuffers
<1>2. RShape /\ OneDrain /\ Opening BY DEF DrainInv
<1>3. HandledOne /\ Told.what = "disable" BY <1>1, <1>2, HandlesOne DEF Aside
<1>4. 1 \in Places /\ Told = messages[1] BY <1>3 DEF HandledOne, Places
<1>5. offloading /\ opened = "yes" BY <1>2, <1>3, <1>4 DEF Opening
<1>6. OneDrain' /\ mGeneration' \in [Streams -> Nat] BY <1>1, <1>2, <1>5, GivenUp
<1>7. RShape' /\ NothingAfterEnd' BY <1>1, <1>2, <1>6, AsideKeeps DEF RShape
<1>8. Opening'
  <2>1. \A i \in Places' : i + 1 \in Places /\ i + 1 # 1 /\ messages'[i] = messages[i + 1]
    BY <1>3 DEF HandledOne, Places
  <2>2. \A i \in Places' : messages'[i].what # "disable" BY <1>2, <1>3, <1>4, <2>1 DEF Opening
  <2>3. ASSUME NEW i \in Places', NEW j \in Places', messages'[i].what = "open",
               messages'[j].what = "open"
        PROVE  i = j
    <3>1. i + 1 = j + 1 BY <1>2, <2>1, <2>3 DEF Opening
    <3>2. i \in Nat /\ j \in Nat BY <1>3 DEF Places, HandledOne
    <3> QED BY <3>1, <3>2
  <2> QED BY <1>1, <1>2, <1>5, <2>1, <2>2, <2>3 DEF Opening, Posts, Asks
<1>9. \A s \in Streams : Moving(s)' BY <1>1 DEF DrainInv, Moving, Aside, Strand
<1> QED BY <1>6, <1>7, <1>8, <1>9 DEF DrainInv

LEMMA OpenKeeps == ASSUME DrainInv, onOpenAudioSink PROVE DrainInv'
<1>1. /\ Aside("open")
      /\ \/ opened' = "yes" /\ UNCHANGED <<offloading, mGeneration>>
         \/ /\ offloading /\ offloading' = FALSE /\ opened' \in {"yes", "no"}
            /\ mGeneration' = [mGeneration EXCEPT !["audio"] = @ + 1]
      /\ UNCHANGED <<drains, mDrainPending, undrained, mPaused>>
  BY DEF onOpenAudioSink, Aside, onBuffers
<1>2. RShape /\ OneDrain /\ Opening BY DEF DrainInv
<1>3. HandledOne /\ Told.what = "open" BY <1>1, <1>2, HandlesOne DEF Aside
<1>4. 1 \in Places /\ Told = messages[1] BY <1>3 DEF HandledOne, Places
<1>5. opened = "asked" /\ mQueue["audio"] = <<>> BY <1>2, <1>3, <1>4 DEF Opening
<1>6. OneDrain' /\ mGeneration' \in [Streams -> Nat]
  <2>1. CASE UNCHANGED <<offloading, mGeneration>> BY <1>1, <1>2, <2>1, DrainsStay DEF RShape
  <2>2. CASE ~UNCHANGED <<offloading, mGeneration>> BY <1>1, <1>2, <2>2, GivenUp
  <2> QED BY <2>1, <2>2
<1>7. RShape' /\ NothingAfterEnd' BY <1>1, <1>2, <1>6, AsideKeeps DEF RShape
<1>8. Opening'
  <2>1. \A i \in Places' : i + 1 \in Places /\ i + 1 # 1 /\ messages'[i] = messages[i + 1]
    BY <1>3 DEF HandledOne, Places
  <2>2. \A i \in Places' : /\ messages'[i].what \notin {"open", "disable"}
                           /\ ~Posts(messages'[i], "audio")
    BY <1>2, <1>3, <1>4, <1>5, <2>1 DEF Opening
  <2>3. mQueue'["audio"] = <<>> BY <1>1, <1>5 DEF Aside
  <2> QED BY <2>2, <2>3 DEF Opening, Posts, Asks
<1>9. \A s \in Streams : Moving(s)'
  <2>1. Moving("audio")'
    <3>1. ~mDrainPending["audio"] BY <1>5 DEF DrainInv, Moving, Streams
    <3> QED BY <1>1, <1>5, <3>1 DEF Moving, Aside
  <2>2. Moving("video")' BY <1>1 DEF DrainInv, Moving, Aside, Streams
  <2> QED BY <2>1, <2>2 DEF Streams
<1> QED BY <1>6, <1>7, <1>8, <1>9 DEF DrainInv

----------------------------------------------------------------------------
(* Messages and drains after which new drains are posted.                  *)
Enqueued(what, x) ==
    /\ Handle(what) /\ what \in {"queue", "eos"} /\ x = IF what = "eos" THEN EOS ELSE Told.n
    /\ UNCHANGED <<mPaused, mAudioSinkStopped, offloading, opened, mPendingInputMessages, handler>>
    /\ \/ UNCHANGED <<mQueue, onDrains>>
       \/ /\ mQueue' = [mQueue EXCEPT ![Told.s] = Append(@, x)]
          /\ PostDrains({Told.s}, mDrainPending, drains)

LEMMA EnqueuedKeeps == ASSUME DrainInv, NEW what, NEW x, Enqueued(what, x) PROVE DrainInv'
<1>1. RShape /\ OneDrain /\ Opening /\ NothingAfterEnd BY DEF DrainInv
<1>0. PICK s \in Streams : s = Told.s
  BY <1>1, HandlesOne DEF Enqueued, HandledOne, Message
<1>2. HandledOne /\ Told.what = what /\ UNCHANGED <<given, ended>> /\ x \in Nat
  <2>1. HandledOne /\ Told.what = what /\ UNCHANGED <<given, ended>>
    BY <1>1, HandlesOne DEF Enqueued
  <2> QED BY <2>1 DEF HandledOne, Message, Enqueued, EOS
<1>3. 1 \in Places /\ Told = messages[1] BY <1>2 DEF HandledOne, Places
<1>4. s = "audio" => opened = "yes" /\ (x = EOS => what = "eos")
  BY <1>0, <1>1, <1>2, <1>3 DEF Opening, NothingAfterEnd, Posts, Asks, Enqueued
<1>5. what # "flush" /\ (s = "audio" => Posts(Told, "audio"))
  BY <1>0, <1>2 DEF Enqueued, Posts, Asks
<1>6. CASE UNCHANGED <<mQueue, onDrains>>
  <2>1. Shortened(0) BY <1>1, <1>6 DEF Shortened, RShape, Streams
  <2>2. NothingAfterEnd' BY <1>1, <1>2, <1>5, <2>1, EndHandled DEF Asks
  <2>3. RShape' BY <1>1, <1>2, <1>6 DEF RShape, HandledOne, Enqueued, onDrains
  <2>4. OneDrain' /\ \A t \in Streams : Moving(t)'
    BY <1>1, <1>6, DrainsStay, MovesOn DEF DrainInv, Enqueued, onDrains
  <2>5. Opening' BY <1>1, <1>2, <1>6, OpeningHandled DEF Enqueued
  <2> QED BY <2>2, <2>3, <2>4, <2>5 DEF DrainInv
<1>7. CASE /\ mQueue' = [mQueue EXCEPT ![s] = Append(@, x)]
           /\ PostDrains({s}, mDrainPending, drains)
  <2>1. /\ mQueue' \in [Streams -> Seq(Nat)]
        /\ mQueue'[s] = Append(mQueue[s], x)
        /\ \A t \in Streams \ {s} : mQueue'[t] = mQueue[t]
    <3>1. mQueue \in [Streams -> Seq(Nat)] BY <1>1 DEF RShape
    <3>2. Append(mQueue[s], x) \in Seq(Nat) BY <1>2, <3>1
    <3> QED BY <1>2, <1>7, <3>1, <3>2
  <2>2. /\ OneDrain' /\ mDrainPending' \in [Streams -> BOOLEAN]
        /\ UNCHANGED mGeneration
        /\ \A t \in Streams \ {s} : mDrainPending[t] <=> mDrainPending'[t]
        /\ Moving(s)'
        /\ undrained => undrained' \/ mDrainPending'["audio"]
    <3> DEFINE S == {s}
    <3>1. S \subseteq Streams OBVIOUS
    <3>2. offloading' = offloading /\ Match(mDrainPending, drains)
      BY <1>1 DEF Enqueued, OneDrain
    <3>3. mQueue'[s] # <<>>
      <4>1. mQueue[s] \in Seq(Nat) BY <1>1 DEF RShape
      <4> QED BY <1>2, <2>1, <4>1
    <3>4. PostDrains(S, mDrainPending, drains) /\ \A t \in S : mQueue'[t] # <<>>
      BY <1>7, <3>3
    <3>5. \A t \in S : t = s OBVIOUS
    <3>6. s \in S OBVIOUS
    <3> HIDE DEF S
    <3>7. /\ OneDrain' /\ mDrainPending' \in [Streams -> BOOLEAN]
          /\ UNCHANGED mGeneration
          /\ \A t \in Streams \ S : mDrainPending[t] <=> mDrainPending'[t]
          /\ \A t \in S : Moving(t)'
          /\ undrained => undrained' \/ mDrainPending'["audio"]
      BY <1>1, <3>1, <3>2, <3>4, DrainsPosted
    <3>8. Moving(s)' BY <3>6, <3>7
    <3> QED BY <3>5, <3>7, <3>8
  <2>3. RShape' BY <1>1, <1>2, <2>1, <2>2 DEF RShape, HandledOne, Enqueued
  <2>4. Opening'
    BY <1>1, <1>2, <1>4, <2>1, OpeningHandled DEF Enqueued, Streams
  <2>5. NothingAfterEnd'
    <3>1. CASE s = "audio"
      <4>1. mQueue'["audio"] = Append(mQueue["audio"], x) BY <2>1, <3>1
      <4>2. Posts(Told, "audio") /\ (x = EOS => Told.what = "eos")
        BY <1>2, <1>4, <1>5, <3>1
      <4> QED BY <1>1, <1>2, <4>1, <4>2, EndHandled
    <3>2. CASE s # "audio"
      <4>1. Shortened(0) BY <1>1, <2>1, <3>2 DEF Shortened, RShape, Streams
      <4> QED BY <1>0, <1>1, <1>2, <1>5, <3>2, <4>1, EndHandled DEF Asks
    <3> QED BY <3>1, <3>2
  <2>6. ASSUME NEW t \in Streams PROVE Moving(t)'
    <3>1. CASE t = s BY <2>2, <3>1
    <3>2. CASE t # s
      <4>1. Moving(t) /\ mQueue'[t] = mQueue[t]
            /\ UNCHANGED <<mPaused, mAudioSinkStopped, offloading>>
        BY <2>1, <3>2 DEF DrainInv, Enqueued
      <4> QED BY <2>2, <4>1 DEF Moving
    <3> QED BY <3>1, <3>2
  <2> QED BY <2>2, <2>3, <2>4, <2>5, <2>6 DEF DrainInv
<1> QED BY <1>0, <1>6, <1>7 DEF Enqueued

LEMMA QueuedKeeps == ASSUME DrainInv, onQueueBuffer \/ onQueueEOS PROVE DrainInv'
<1>1. onQueueBuffer => Enqueued("queue", Told.n)
  BY DEF onQueueBuffer, Enqueued
<1>2. onQueueEOS => Enqueued("eos", EOS) BY DEF onQueueEOS, Enqueued, onState
<1> QED BY <1>1, <1>2, EnqueuedKeeps

LEMMA ResumeKeeps == ASSUME DrainInv, onResume PROVE DrainInv'
<1> DEFINE S == IF mPaused THEN Streams ELSE {}
<1>1. /\ Aside("resume") /\ UNCHANGED <<offloading, opened>> /\ mPaused' = FALSE
      /\ ~mPaused /\ mAudioSinkStopped => mAudioSinkStopped'
      /\ PostDrains(S, mDrainPending, drains)
  <2>1. mAudioSinkStopped' = (mAudioSinkStopped /\ ~(mPaused /\ mHasAudio)) BY DEF onResume
  <2> QED BY <2>1 DEF onResume, Aside, onBuffers
<1>2. RShape /\ OneDrain BY DEF DrainInv
<1>3. /\ OneDrain' /\ mDrainPending' \in [Streams -> BOOLEAN] /\ UNCHANGED mGeneration
      /\ \A t \in Streams \ S : mDrainPending[t] <=> mDrainPending'[t]
      /\ \A t \in S : Moving(t)'
      /\ undrained => undrained' \/ mDrainPending'["audio"]
  <2>1. S \subseteq Streams OBVIOUS
  <2>2. \A t \in Streams : mDrainPending[t] => mQueue'[t] # <<>>
    BY <1>1 DEF DrainInv, Moving, Aside
  <2> HIDE DEF S
  <2> QED BY <1>1, <1>2, <2>1, <2>2, DrainsPosted DEF OneDrain
<1>4. RShape' /\ NothingAfterEnd' /\ Opening' BY <1>1, <1>2, <1>3, AsideKeeps DEF RShape
<1>5. ASSUME NEW t \in Streams PROVE Moving(t)'
  <2>1. CASE mPaused BY <1>3, <2>1
  <2>2. CASE ~mPaused
    <3>1. Moving(t) /\ mQueue' = mQueue BY <1>1 DEF DrainInv, Aside
    <3> QED BY <1>1, <1>3, <2>2, <3>1 DEF Moving
  <2> QED BY <2>1, <2>2
<1> QED BY <1>3, <1>4, <1>5 DEF DrainInv

(* What looks at a drain.                                                  *)
LooksAt(d) == /\ d \in drains
              /\ UNCHANGED <<messages, handler, given, ended, opened, mPendingInputMessages,
                             mPaused, offloading>>

LEMMA LookKeeps ==
    ASSUME DrainInv, NEW d, LooksAt(d), mQueue' \in [Streams -> Seq(Nat)],
           mDrainPending' \in [Streams -> BOOLEAN], UNCHANGED mGeneration,
           \/ mQueue'["audio"] = mQueue["audio"]
           \/ \E k : Shortened(k)
    PROVE  RShape' /\ Opening' /\ NothingAfterEnd'
<1>1. RShape /\ Opening /\ NothingAfterEnd BY DEF DrainInv
<1>2. RShape' BY <1>1 DEF RShape, LooksAt
<1>3. Opening'
  <2>1. ASSUME mQueue["audio"] = <<>> PROVE mQueue'["audio"] = <<>>
    <3>1. ASSUME NEW k, Shortened(k) PROVE mQueue'["audio"] = <<>>
      <4>1. mQueue'["audio"] \in Seq(Nat) BY DEF Streams
      <4>2. Len(mQueue'["audio"]) = 0 BY <2>1, <3>1, <4>1 DEF Shortened
      <4> QED BY <4>1, <4>2
    <3> QED BY <2>1, <3>1
  <2> QED BY <1>1, <2>1 DEF Opening, LooksAt, Places
<1>4. Sent /\ New = {}
  <2>1. Len(messages) \in Nat BY <1>1 DEF RShape
  <2> QED BY <1>1, <2>1 DEF Sent, New, LooksAt, RShape
<1>5. Shortened(0) \/ \E k : Shortened(k) BY <1>1 DEF Shortened, RShape, Streams
<1>6. NothingAfterEnd' BY <1>1, <1>4, <1>5, EndSent DEF LooksAt
<1> QED BY <1>2, <1>3, <1>6

LEMMA StaleKeeps == ASSUME DrainInv, NEW d \in drains, DropStale(d) PROVE DrainInv'
<1>1. /\ LooksAt(d) /\ ~Current(d) /\ drains' = drains \ {d}
      /\ UNCHANGED <<mDrainPending, mGeneration, undrained, mQueue, mAudioSinkStopped>>
  BY DEF DropStale, Draining, LooksAt, onState, onPlayer
<1>2. RShape' /\ Opening' /\ NothingAfterEnd' BY <1>1, LookKeeps DEF DrainInv, RShape
<1>3. OneDrain' BY <1>1 DEF DrainInv, OneDrain, Match, Current, LooksAt
<1>4. \A s \in Streams : Moving(s)' BY <1>1, MovesOn DEF DrainInv, LooksAt
<1> QED BY <1>2, <1>3, <1>4 DEF DrainInv

(* A drain that is done, with a new one if PostDrains finds work.          *)
LEMMA DrainedKeeps ==
    ASSUME DrainInv, NEW d \in drains, Current(d), LooksAt(d),
           mQueue' \in [Streams -> Seq(Nat)],
           \A s \in Streams \ {d.s} : mQueue'[s] = mQueue[s],
           d.s = "audio" => \E k : Shortened(k),
           d.s = "video" => UNCHANGED mAudioSinkStopped,
           \/ PostDrains({d.s}, Without(d.s), drains \ {d})
           \/ /\ mDrainPending' = Without(d.s) /\ drains' = drains \ {d}
              /\ UNCHANGED mGeneration /\ (undrained => undrained') /\ Moving(d.s)'
    PROVE  DrainInv'
<1>1. RShape /\ OneDrain /\ Opening /\ NothingAfterEnd BY DEF DrainInv
<1>2. PICK s \in Streams : s = d.s BY <1>1 DEF OneDrain, Match
<1>3. Match(Without(s), drains \ {d}) BY <1>1, <1>2, OneLess
<1>4. /\ OneDrain' /\ mDrainPending' \in [Streams -> BOOLEAN] /\ UNCHANGED mGeneration
      /\ \A t \in Streams \ {s} : Without(s)[t] <=> mDrainPending'[t]
      /\ Moving(s)'
      /\ undrained => undrained' \/ mDrainPending'["audio"]
  <2>1. CASE PostDrains({d.s}, Without(d.s), drains \ {d})
    <3>1. {s} \subseteq Streams /\ offloading' = offloading BY DEF LooksAt
    <3>2. ~Without(s)[s] BY <1>1 DEF Without, RShape
    <3> DEFINE S == {s}
               pend == Without(s)
               left == drains \ {d}
    <3>3. PostDrains(S, pend, left) BY <1>2, <2>1
    <3>4. RShape /\ Match(pend, left) BY <1>1, <1>3
    <3>5. S \subseteq Streams /\ \A t \in S : pend[t] => mQueue'[t] # <<>> BY <3>2
    <3>6. s \in S /\ Streams \ S = Streams \ {s} OBVIOUS
    <3> HIDE DEF S, pend, left
    <3>7. /\ OneDrain' /\ mDrainPending' \in [Streams -> BOOLEAN] /\ UNCHANGED mGeneration
          /\ \A t \in Streams \ S : pend[t] <=> mDrainPending'[t]
          /\ \A t \in S : Moving(t)'
          /\ undrained => undrained' \/ mDrainPending'["audio"]
      BY <3>1, <3>3, <3>4, <3>5, DrainsPosted
    <3> QED BY <3>6, <3>7 DEF pend
  <2>2. CASE /\ mDrainPending' = Without(d.s) /\ drains' = drains \ {d}
             /\ UNCHANGED mGeneration /\ (undrained => undrained') /\ Moving(d.s)'
    <3>1. OneDrain' BY <1>2, <1>3, <2>2 DEF OneDrain, Match, Current, LooksAt
    <3>2. mDrainPending' \in [Streams -> BOOLEAN] BY <1>2, <1>3, <2>2 DEF Match
    <3> QED BY <1>2, <2>2, <3>1, <3>2
  <2> QED BY <2>1, <2>2
<1>5. mQueue'["audio"] = mQueue["audio"] \/ \E k : Shortened(k)
  BY <1>2 DEF Streams
<1>6. RShape' /\ Opening' /\ NothingAfterEnd' BY <1>4, <1>5, LookKeeps
<1>7. ASSUME NEW t \in Streams, t # s PROVE Moving(t)'
  <2>1. Moving(t) /\ mQueue'[t] = mQueue[t] /\ UNCHANGED <<mPaused, offloading>>
        /\ (t = "audio" => UNCHANGED mAudioSinkStopped)
    BY <1>2, <1>7 DEF DrainInv, LooksAt, Streams
  <2>2. mDrainPending[t] <=> mDrainPending'[t]
    <3>1. Without(s)[t] = mDrainPending[t] BY <1>1, <1>7 DEF Without, RShape
    <3>2. t \in Streams \ {s} BY <1>7
    <3> QED BY <1>4, <3>1, <3>2
  <2> QED BY <1>4, <2>1, <2>2 DEF Moving
<1> QED BY <1>4, <1>6, <1>7 DEF DrainInv

LEMMA AudioKeeps == ASSUME DrainInv, NEW d \in drains, onDrainAudioQueue(d) PROVE DrainInv'
<1>1. /\ LooksAt(d) /\ Current(d) /\ d.s = "audio"
  BY DEF onDrainAudioQueue, Draining, LooksAt, onPlayer
<1>2. PICK k \in 0 .. Lead, end \in {0, 1} :
         /\ TakeAudio(k, end)
         /\ \/ PostDrains({"audio"}, Without("audio"), drains \ {d})
            \/ /\ end = 1 /\ mDrainPending' = Without("audio") /\ drains' = drains \ {d}
               /\ UNCHANGED <<mGeneration, undrained>>
  BY DEF onDrainAudioQueue
<1>3. /\ mQueue' \in [Streams -> Seq(Nat)] /\ mQueue'["video"] = mQueue["video"]
      /\ Shortened(k + end)
      /\ end = 1 => mQueue'["audio"] = <<>>
  BY <1>2, AudioTaken DEF DrainInv
<1>4. \A s \in Streams \ {d.s} : mQueue'[s] = mQueue[s] BY <1>1, <1>3 DEF Streams
<1>5. CASE PostDrains({"audio"}, Without("audio"), drains \ {d})
  BY <1>1, <1>3, <1>4, <1>5, DrainedKeeps
<1>6. CASE /\ end = 1 /\ mDrainPending' = Without("audio") /\ drains' = drains \ {d}
           /\ UNCHANGED <<mGeneration, undrained>>
  <2>1. ~mDrainPending'["audio"] BY <1>6 DEF DrainInv, RShape, Without, Streams
  <2>2. Moving("audio")' BY <1>3, <1>6, <2>1 DEF Moving
  <2> QED BY <1>1, <1>3, <1>4, <1>6, <2>2, DrainedKeeps
<1> QED BY <1>2, <1>5, <1>6

LEMMA NoPositionKeeps == ASSUME DrainInv, NEW d \in drains, NoPosition(d) PROVE DrainInv'
<1>1. /\ LooksAt(d) /\ Current(d) /\ d.s = "audio" /\ undrained' = TRUE
      /\ mDrainPending' = Without("audio") /\ drains' = drains \ {d} /\ UNCHANGED mGeneration
  BY DEF NoPosition, Draining, LooksAt, onPlayer
<1>2. PICK k \in 0 .. Lead : TakeAudio(k, 0) BY DEF NoPosition
<1>3. /\ mQueue' \in [Streams -> Seq(Nat)] /\ mQueue'["video"] = mQueue["video"]
      /\ Shortened(k + 0)
  BY <1>2, AudioTaken DEF DrainInv
<1>4. Moving("audio")'
  <2>1. ~mDrainPending'["audio"] BY <1>1 DEF DrainInv, RShape, Without, Streams
  <2> QED BY <1>1, <2>1 DEF Moving
<1>5. \A s \in Streams \ {d.s} : mQueue'[s] = mQueue[s] BY <1>1, <1>3 DEF Streams
<1> QED BY <1>1, <1>3, <1>4, <1>5, DrainedKeeps

LEMMA VideoKeeps == ASSUME DrainInv, NEW d \in drains, onDrainVideoQueue(d) PROVE DrainInv'
<1> DEFINE q == mQueue["video"]
<1>1. /\ LooksAt(d) /\ Current(d) /\ d.s = "video" /\ UNCHANGED mAudioSinkStopped
      /\ mQueue' = [mQueue EXCEPT !["video"] = Tail(q)] \/ UNCHANGED mQueue
      /\ PostDrains({"video"}, Without("video"), drains \ {d})
  BY DEF onDrainVideoQueue, Draining, LooksAt, onPlayer
<1>2. RShape BY DEF DrainInv
<1>3. q \in Seq(Nat) /\ q # <<>>
  <2>1. mDrainPending["video"] BY <1>1 DEF DrainInv, OneDrain, Match, Streams
  <2> QED BY <1>2, <2>1 DEF DrainInv, Moving, RShape, Streams
<1>4. Tail(q) \in Seq(Nat)
  <2> HIDE DEF q
  <2> QED BY <1>3
<1>5. mQueue' \in [Streams -> Seq(Nat)] /\ \A s \in Streams \ {"video"} : mQueue'[s] = mQueue[s]
  BY <1>1, <1>2, <1>4 DEF RShape
<1> QED BY <1>1, <1>5, DrainedKeeps

----------------------------------------------------------------------------
(* How often an element is in a sequence.                                  *)
LEMMA TimesJoin ==
    ASSUME NEW S, NEW a \in Seq(S), NEW b \in Seq(S), NEW x
    PROVE  Times(x, a) \in Nat /\ Times(x, a \o b) = Times(x, a) + Times(x, b)
<1> DEFINE m == Len(a)
           n == Len(b)
           A == {i \in 1 .. m : a[i] = x}
           B == {i \in 1 .. n : b[i] = x}
           C == {i \in 1 .. m + n : (a \o b)[i] = x}
           D == {i \in m + 1 .. m + n : (a \o b)[i] = x}
           f == [i \in B |-> i + m]
<1>1. /\ m \in Nat /\ n \in Nat /\ DOMAIN a = 1 .. m /\ DOMAIN b = 1 .. n
      /\ a \o b \in Seq(S) /\ DOMAIN (a \o b) = 1 .. m + n
      /\ \A i \in 1 .. m : (a \o b)[i] = a[i]
  OBVIOUS
<1>2. \A i \in 1 .. n : (a \o b)[i + m] = b[i] OBVIOUS
<1>3. Times(x, a) = Cardinality(A) /\ Times(x, b) = Cardinality(B)
      /\ Times(x, a \o b) = Cardinality(C)
  BY <1>1 DEF Times
<1> HIDE DEF m, n
<1>4. A \cup D = C /\ A \cap D = {} BY <1>1
<1>5. f \in Bijection(B, D)
  <2>1. \A i \in B : i + m \in D BY <1>1, <1>2
  <2>2. \A i, j \in B : f[i] = f[j] => i = j BY <1>1
  <2>3. ASSUME NEW d \in D PROVE \E i \in B : f[i] = d
    <3>1. d - m \in 1 .. n /\ (d - m) + m = d BY <1>1
    <3>2. b[d - m] = x BY <1>2, <3>1
    <3> QED BY <3>1, <3>2
  <2> QED BY <2>1, <2>2, <2>3 DEF Bijection, Injection, Surjection, IsInjective
<1>6. IsFiniteSet(1 .. m) /\ IsFiniteSet(1 .. n) BY <1>1, FS_Interval
<1>7. IsFiniteSet(A) /\ IsFiniteSet(B)
  <2> A \subseteq 1 .. m /\ B \subseteq 1 .. n OBVIOUS
  <2> HIDE DEF A, B
  <2> QED BY <1>6, FS_Subset
<1>8. ExistsBijection(B, D) BY <1>5 DEF ExistsBijection
<1> HIDE DEF A, B, C, D, f
<1>9. IsFiniteSet(D) /\ Cardinality(D) = Cardinality(B) BY <1>7, <1>8, FS_Bijection
<1>10. Cardinality(A) \in Nat /\ Cardinality(D) \in Nat BY <1>7, <1>9, FS_CardinalityType
<1>11. Cardinality(C) = Cardinality(A) + Cardinality(D) - Cardinality(A \cap D)
  BY <1>4, <1>7, <1>9, FS_Union
<1>12. Cardinality(A \cap D) = 0 BY <1>4, FS_EmptySet
<1> QED BY <1>3, <1>9, <1>10, <1>11, <1>12

LEMMA TimesNone ==
    ASSUME NEW S, NEW a \in Seq(S), NEW x
    PROVE  /\ Times(x, a) \in Nat
           /\ Times(x, a) = 0 <=> \A i \in 1 .. Len(a) : a[i] # x
<1> DEFINE A == {i \in 1 .. Len(a) : a[i] = x}
<1>1. Times(x, a) = Cardinality(A)
  <2>1. DOMAIN a = 1 .. Len(a) OBVIOUS
  <2> QED BY <2>1 DEF Times
<1>2. Len(a) \in Nat /\ IsFiniteSet(1 .. Len(a)) BY FS_Interval
<1>3. A \subseteq 1 .. Len(a) OBVIOUS
<1>4. A = {} <=> \A i \in 1 .. Len(a) : a[i] # x OBVIOUS
<1> HIDE DEF A
<1>5. IsFiniteSet(A) BY <1>2, <1>3, FS_Subset
<1> QED BY <1>1, <1>4, <1>5, FS_EmptySet, FS_CardinalityType

LEMMA TimesOne ==
    ASSUME NEW y, NEW x
    PROVE  Times(x, <<y>>) = IF x = y THEN 1 ELSE 0
<1>1. CASE x = y
  <2>1. {i \in DOMAIN <<y>> : <<y>>[i] = x} = {1} BY <1>1
  <2> QED BY <1>1, <2>1, FS_Singleton DEF Times
<1>2. CASE x # y
  <2>1. {i \in DOMAIN <<y>> : <<y>>[i] = x} = {} BY <1>2
  <2> QED BY <1>2, <2>1, FS_EmptySet DEF Times
<1> QED BY <1>1, <1>2

LEMMA TimesAppend ==
    ASSUME NEW S, NEW a \in Seq(S), NEW y \in S, NEW x
    PROVE  Times(x, Append(a, y)) = Times(x, a) + IF x = y THEN 1 ELSE 0
<1>1. Append(a, y) = a \o <<y>> OBVIOUS
<1>2. <<y>> \in Seq(S) OBVIOUS
<1>3. Times(x, a \o <<y>>) = Times(x, a) + Times(x, <<y>>) BY <1>2, TimesJoin
<1> QED BY <1>1, <1>3, TimesOne

LEMMA TimesTail ==
    ASSUME NEW S, NEW a \in Seq(S), a # <<>>, NEW x
    PROVE  Times(x, a) = Times(x, Tail(a)) + IF Head(a) = x THEN 1 ELSE 0
<1>1. a = <<Head(a)>> \o Tail(a) OBVIOUS
<1>2. Head(a) \in S /\ <<Head(a)>> \in Seq(S) /\ Tail(a) \in Seq(S) OBVIOUS
<1>3. Times(x, a) = Times(x, <<Head(a)>>) + Times(x, Tail(a)) BY <1>1, <1>2, TimesJoin
<1>4. Times(x, <<Head(a)>>) = IF Head(a) = x THEN 1 ELSE 0 BY TimesOne
<1>5. Times(x, Tail(a)) \in Nat BY <1>2, TimesNone
<1> QED BY <1>3, <1>4, <1>5

LEMMA RestOf ==
    ASSUME NEW S, NEW q \in Seq(S), NEW a \in 0 .. Len(q)
    PROVE  LET r == SubSeq(q, a + 1, Len(q)) IN
           r \in Seq(S) /\ Len(r) = Len(q) - a /\ \A i \in 1 .. Len(r) : r[i] = q[a + i]
OBVIOUS

LEMMA TimesTaken ==
    ASSUME NEW S, NEW a \in Seq(S), NEW k \in 0 .. Len(a), NEW x
    PROVE  LET rest == SubSeq(a, k + 1, Len(a)) IN
           /\ Times(x, rest) <= Times(x, a)
           /\ Times(x, a) <= 1 =>
                 Times(x, a) = Times(x, rest) + IF x \in {a[i] : i \in 1 .. k} THEN 1 ELSE 0
<1> DEFINE b == SubSeq(a, 1, k)
           c == SubSeq(a, k + 1, Len(a))
<1>1. /\ b \in Seq(S) /\ Len(b) = k /\ c \in Seq(S) /\ Len(c) = Len(a) - k
      /\ \A i \in 1 .. k : b[i] = a[i]
      /\ \A i \in 1 .. Len(a) - k : c[i] = a[k + i]
  OBVIOUS
<1> HIDE DEF b, c
<1>2. b \o c = a
  <2> DEFINE d == b \o c
             n == Len(a)
  <2>1. k \in Nat /\ n \in Nat /\ k <= n OBVIOUS
  <2>2. /\ d \in Seq(S) /\ Len(d) = k + Len(c)
        /\ \A i \in 1 .. k : d[i] = b[i]
        /\ \A i \in 1 .. Len(c) : d[k + i] = c[i]
    BY <1>1, <2>1
  <2>3. a \in Seq(S) /\ Len(c) = n - k /\ \A i \in 1 .. n - k : c[i] = a[k + i] BY <1>1
  <2>4. Len(a) = n OBVIOUS
  <2> HIDE DEF d, n
  <2>5. Len(d) = n BY <2>1, <2>2, <2>3
  <2>6. ASSUME NEW i \in 1 .. n PROVE d[i] = a[i]
    <3>1. CASE i \in 1 .. k BY <1>1, <2>2, <3>1
    <3>2. CASE i \notin 1 .. k
      <4>1. i - k \in 1 .. n - k /\ k + (i - k) = i BY <2>1, <3>2
      <4> QED BY <2>2, <2>3, <4>1
    <3> QED BY <3>1, <3>2
  <2>7. d = a BY <2>2, <2>3, <2>4, <2>5, <2>6
  <2> QED BY <2>7 DEF d
<1>3. Times(x, a) = Times(x, b) + Times(x, c) BY <1>1, <1>2, TimesJoin
<1>4. Times(x, b) \in Nat /\ Times(x, c) \in Nat BY <1>1, TimesNone
<1>5. Times(x, b) = 0 <=> x \notin {a[i] : i \in 1 .. k}
  <2>1. Times(x, b) = 0 <=> \A i \in 1 .. k : b[i] # x
    <3>1. b \in Seq(S) /\ Len(b) = k BY <1>1
    <3> QED BY <3>1, TimesNone
  <2>2. \A i \in 1 .. k : b[i] = a[i] BY <1>1
  <2> QED BY <2>1, <2>2
<1> QED BY <1>3, <1>4, <1>5 DEF c

(* The callback takes audio and sends the parked buffers again.            *)
LEMMA FillSends ==
    ASSUME RShape, fillAudioBuffer
    PROVE  LET parked == IF Lead > 0 THEN mPendingInputMessages ELSE <<>> IN
           /\ Sent
           /\ \A i \in New : \/ messages'[i].what = "stop"
                             \/ \E p \in 1 .. Len(parked) :
                                   messages'[i] = Msg("queue", "video", parked[p])
           /\ \A s \in Streams, n \in Nat :
                 Waits(s, n)' = Waits(s, n) + IF s = "video" THEN Times(n, parked) ELSE 0
<1> DEFINE parked == IF Lead > 0 THEN mPendingInputMessages ELSE <<>>
           again == [i \in DOMAIN parked |-> Msg("queue", "video", parked[i])]
           stop == Msg("stop", "audio", 0)
           ma == messages \o again
<1>1. messages' \in {ma, ma \o <<stop>>} BY DEF fillAudioBuffer
<1>2. /\ parked \in Seq(Nat) /\ messages \in Seq(Message) /\ Len(messages) \in Nat
  <2>1. mPendingInputMessages \in Seq(Nat) /\ <<>> \in Seq(Nat) BY DEF RShape
  <2> QED BY <2>1 DEF RShape
<1> HIDE DEF parked
<1>3. /\ again \in Seq(Message) /\ Len(again) = Len(parked) /\ Len(again) \in Nat
      /\ \A i \in 1 .. Len(parked) : again[i] = Msg("queue", "video", parked[i])
  <2>1. DOMAIN parked = 1 .. Len(parked) /\ Len(parked) \in Nat
        /\ \A i \in 1 .. Len(parked) : parked[i] \in Nat
    BY <1>2
  <2>2. \A i \in DOMAIN parked : Msg("queue", "video", parked[i]) \in Message
    BY <2>1 DEF Msg, Message, Kinds, Streams
  <2> QED BY <2>1, <2>2
<1>4. stop \in Message /\ stop.what = "stop" /\ <<stop>> \in Seq(Message)
  BY DEF Msg, Message, Kinds, Streams
<1>5. /\ ma \in Seq(Message) /\ Len(ma) = Len(messages) + Len(again) /\ Len(ma) \in Nat
      /\ \A i \in 1 .. Len(messages) : ma[i] = messages[i]
      /\ \A i \in 1 .. Len(again) : ma[Len(messages) + i] = again[i]
  <2>1. again \in Seq(Message) /\ Len(again) \in Nat BY <1>3
  <2>2. messages \in Seq(Message) /\ Len(messages) \in Nat BY <1>2
  <2> HIDE DEF again
  <2>3. ma \in Seq(Message) /\ Len(ma) = Len(messages) + Len(again) BY <2>1, <2>2
  <2>4. \A i \in 1 .. Len(messages) : ma[i] = messages[i] BY <2>1, <2>2
  <2>5. \A i \in 1 .. Len(again) : ma[Len(messages) + i] = again[i] BY <2>1, <2>2
  <2> HIDE DEF ma
  <2> QED BY <2>1, <2>2, <2>3, <2>4, <2>5
<1>6. ASSUME NEW i \in Len(messages) + 1 .. Len(ma)
      PROVE  \E p \in 1 .. Len(parked) : ma[i] = Msg("queue", "video", parked[p])
  <2> HIDE DEF again, ma
  <2>1. i - Len(messages) \in 1 .. Len(parked) /\ i = Len(messages) + (i - Len(messages))
    BY <1>2, <1>3, <1>5
  <2> QED BY <1>3, <1>5, <2>1
<1>7. ASSUME NEW s \in Streams, NEW n \in Nat
      PROVE  Times(Msg("queue", s, n), ma)
                = Times(Msg("queue", s, n), messages) + IF s = "video" THEN Times(n, parked) ELSE 0
  <2> DEFINE x == Msg("queue", s, n)
  <2>1. Times(x, again) = IF s = "video" THEN Times(n, parked) ELSE 0
    <3>1. DOMAIN again = DOMAIN parked OBVIOUS
    <3>2. \A i \in DOMAIN parked : again[i] = x <=> s = "video" /\ parked[i] = n BY DEF Msg
    <3>3. CASE s = "video"
      <4>1. {i \in DOMAIN again : again[i] = x} = {i \in DOMAIN parked : parked[i] = n}
        BY <3>1, <3>2, <3>3
      <4> QED BY <3>3, <4>1 DEF Times
    <3>4. CASE s # "video"
      <4>1. {i \in DOMAIN again : again[i] = x} = {} BY <3>1, <3>2, <3>4
      <4> QED BY <3>4, <4>1, FS_EmptySet DEF Times
    <3> QED BY <3>3, <3>4
  <2> HIDE DEF x, again
  <2>2. Times(x, ma) = Times(x, messages) + Times(x, again) BY <1>2, <1>3, TimesJoin
  <2> QED BY <2>1, <2>2 DEF x
<1>8. \A s, n : Times(Msg("queue", s, n), ma \o <<stop>>) = Times(Msg("queue", s, n), ma)
  <2>1. \A s, n : Times(Msg("queue", s, n), <<stop>>) = 0
    <3>1. \A s, n : Msg("queue", s, n) # stop BY DEF Msg
    <3> HIDE DEF stop
    <3> QED BY <3>1, TimesOne
  <2> HIDE DEF stop, ma
  <2>2. \A x : /\ Times(x, ma) \in Nat
               /\ Times(x, ma \o <<stop>>) = Times(x, ma) + Times(x, <<stop>>)
    BY <1>4, <1>5, TimesJoin
  <2> QED BY <2>1, <2>2
<1>9. \A s, n : Waits(s, n) = Times(Msg("queue", s, n), messages)
                /\ Waits(s, n)' = Times(Msg("queue", s, n), messages')
  BY DEF Waits, Times
<1> HIDE DEF ma, stop, again
<1>10. \A s \in Streams, n \in Nat :
          Waits(s, n)' = Waits(s, n) + IF s = "video" THEN Times(n, parked) ELSE 0
  <2>1. \A s, n : Waits(s, n)' = Times(Msg("queue", s, n), ma) BY <1>1, <1>8, <1>9
  <2> QED BY <1>7, <1>9, <2>1
<1>11. Sent /\ \A i \in New : \/ messages'[i].what = "stop"
                              \/ \E p \in 1 .. Len(parked) :
                                    messages'[i] = Msg("queue", "video", parked[p])
  <2>1. CASE messages' = ma
    <3>1. Sent BY <1>2, <1>3, <1>5, <2>1 DEF Sent, Places
    <3> QED BY <1>6, <2>1, <3>1 DEF New
  <2>2. CASE messages' = ma \o <<stop>>
    <3> DEFINE last == <<stop>>
    <3>1. last \in Seq(Message) /\ Len(last) = 1 /\ last[1] = stop /\ messages' = ma \o last
      BY <1>4, <2>2
    <3> HIDE DEF last
    <3>2. /\ messages' \in Seq(Message) /\ Len(messages') = Len(ma) + 1
          /\ \A i \in 1 .. Len(ma) : messages'[i] = ma[i]
          /\ messages'[Len(ma) + 1] = stop
      <4>1. ma \in Seq(Message) /\ Len(ma) \in Nat BY <1>5
      <4>2. messages' \in Seq(Message) /\ Len(messages') = Len(ma) + 1 BY <3>1, <4>1 DEF last
      <4>3. \A i \in 1 .. Len(ma) : messages'[i] = ma[i] BY <3>1, <4>1
      <4>4. messages'[Len(ma) + 1] = stop BY <1>4, <3>1, <4>1 DEF last
      <4> QED BY <4>2, <4>3, <4>4
    <3>3. Sent
      <4>1. Len(messages') >= Len(messages) BY <1>2, <1>3, <1>5, <3>2
      <4>2. \A i \in 1 .. Len(messages) : i \in 1 .. Len(ma) BY <1>2, <1>3, <1>5
      <4>3. \A i \in Places : messages'[i] = messages[i] BY <1>5, <3>2, <4>2 DEF Places
      <4> QED BY <3>2, <4>1, <4>3 DEF Sent
    <3>4. ASSUME NEW i \in New
          PROVE  \/ messages'[i].what = "stop"
                 \/ \E p \in 1 .. Len(parked) : messages'[i] = Msg("queue", "video", parked[p])
      <4>0. /\ i \in Len(messages) + 1 .. Len(messages') /\ Len(messages) \in Nat
            /\ Len(ma) \in Nat /\ Len(messages') = Len(ma) + 1
        BY <1>2, <1>5, <3>2 DEF New
      <4>1. i \in Len(messages) + 1 .. Len(ma) \/ i = Len(ma) + 1 BY <4>0
      <4>2. CASE i = Len(ma) + 1 BY <1>4, <3>2, <4>2
      <4>3. CASE i \in Len(messages) + 1 .. Len(ma)
        <5>1. i \in 1 .. Len(ma) BY <1>2, <1>5, <4>3
        <5> QED BY <1>6, <3>2, <4>3, <5>1
      <4> QED BY <4>1, <4>2, <4>3
    <3> QED BY <3>3, <3>4
  <2> QED BY <1>1, <2>1, <2>2
<1> QED BY <1>10, <1>11 DEF parked

LEMMA FillKeeps == ASSUME DrainInv, fillAudioBuffer PROVE DrainInv'
<1>1. /\ offloading /\ opened = "yes" /\ mQueue["audio"] # <<>>
      /\ UNCHANGED <<handler, drains, mDrainPending, mGeneration, undrained, mPaused,
                     mAudioSinkStopped, offloading, given, ended, opened>>
      /\ mPendingInputMessages' = IF Lead > 0 THEN <<>> ELSE mPendingInputMessages
      /\ \E k \in 0 .. Lead : \E end \in {0, 1} : TakeAudio(k, end)
  <2>1. Lead \in 0 .. Lead
    <3>1. Lead \in Nat BY LeadIsWithin DEF DrainInv
    <3> QED BY <3>1
  <2> QED BY <2>1 DEF fillAudioBuffer, onDrains, onPlayer
<1>2. RShape /\ OneDrain /\ Opening /\ NothingAfterEnd BY DEF DrainInv
<1>3. PICK k \in 0 .. Lead, end \in {0, 1} : TakeAudio(k, end) BY <1>1
<1>4. /\ mQueue' \in [Streams -> Seq(Nat)] /\ mQueue'["video"] = mQueue["video"]
      /\ Shortened(k + end)
  BY <1>2, <1>3, AudioTaken
<1>5. mPendingInputMessages' \in Seq(Nat)
  <2>1. mPendingInputMessages \in Seq(Nat) /\ <<>> \in Seq(Nat) BY <1>2 DEF RShape
  <2> QED BY <1>1, <2>1
<1>6. /\ Sent
      /\ \A i \in New : \/ messages'[i].what = "stop"
                        \/ \E n : messages'[i] = Msg("queue", "video", n)
  BY <1>2, FillSends
<1>7. \A i \in New : \/ messages'[i].what = "stop"
                     \/ messages'[i].what = "queue" /\ messages'[i].s = "video"
  <2>1. \A n : Msg("queue", "video", n).what = "queue" /\ Msg("queue", "video", n).s = "video"
    BY DEF Msg
  <2> QED BY <1>6, <2>1
<1>8. \A i \in New : messages'[i].what \notin {"open", "disable"} /\ ~Posts(messages'[i], "audio")
  BY <1>7 DEF Posts, Asks
<1>9. RShape' BY <1>1, <1>2, <1>4, <1>5, <1>6 DEF RShape, Sent
<1>10. Opening' BY <1>1, <1>2, <1>6, <1>8, OpeningSent
<1>11. NothingAfterEnd' BY <1>1, <1>2, <1>4, <1>6, <1>8, EndSent
<1>12. OneDrain' BY <1>1, <1>2, DrainsStay
<1>13. \A s \in Streams : Moving(s)'
  BY <1>1, <1>2, <1>4 DEF DrainInv, OneDrain, Match, Moving, Streams
<1> QED BY <1>9, <1>10, <1>11, <1>12, <1>13 DEF DrainInv

LEMMA DrainInvNext == DrainInv /\ [RendererNext]_rendervars => DrainInv'
<1> SUFFICES ASSUME DrainInv, [RendererNext]_rendervars PROVE DrainInv' OBVIOUS
<1>1. CASE UNCHANGED rendervars
  <2>1. UNCHANGED <<messages, mQueue, mPendingInputMessages, mDrainPending, mGeneration, given,
                    ended, handler, drains, undrained, mPaused, mAudioSinkStopped, offloading,
                    opened>>
    BY <1>1 DEF rendervars, onBuffers, onDrains, onState, onPlayer
  <2>2. RShape' BY <2>1 DEF DrainInv, RShape
  <2>3. OneDrain' /\ \A s \in Streams : Moving(s)' BY <2>1, DrainsStay, MovesOn DEF DrainInv
  <2>4. Opening' BY <2>1 DEF DrainInv, Opening, Places
  <2>5. NothingAfterEnd' BY <2>1 DEF DrainInv, NothingAfterEnd, EndsAt, FlushIn, Places
  <2> QED BY <2>2, <2>3, <2>4, <2>5 DEF DrainInv
<1>2. CASE \E s \in Streams : queueBuffer(s) \/ queueEOS(s) \/ flush(s)
  BY <1>2, QueueKeeps, FlushKeeps
<1>3. CASE \E what \in {"pause", "resume", "start", "disable"} : Signal(what)
  BY <1>3, SignalKeeps
<1>4. CASE \E d \in drains : DropStale(d) \/ onDrainAudioQueue(d) \/ NoPosition(d)
                             \/ onDrainVideoQueue(d)
  BY <1>4, StaleKeeps, AudioKeeps, NoPositionKeeps, VideoKeeps
<1>5. CASE openAudioSink \/ onQueueBuffer \/ TestStarted \/ Park \/ onQueueEOS \/ onFlush
  BY <1>5, AskingKeeps, QueuedKeeps, TestKeeps, BetweenKeeps, EmptiedKeeps
<1>6. CASE FlushComplete \/ onPause \/ onResume \/ onStartAudioSink \/ onStopAudioSink
  BY <1>6, BetweenKeeps, PauseKeeps, ResumeKeeps, StartKeeps, StopKeeps
<1>7. CASE onDisableOffloadAudio \/ onOpenAudioSink \/ fillAudioBuffer
  BY <1>7, DisableKeeps, OpenKeeps, FillKeeps
<1> QED BY <1>1, <1>2, <1>3, <1>4, <1>5, <1>6, <1>7 DEF RendererNext

(* NuPlayerRenderer.cpp: a stream has one drain under way of the present   *)
(* generation if its mDrain..QueuePending says so and none otherwise, and  *)
(* what is in a queue is being drained: for any number of buffers, pauses, *)
(* flushes and restarts of the sink, only a pause, a stopped or offloaded  *)
(* sink and the three ways that audio can be left behind keep it.          *)
THEOREM DrainsAreKept == RendererSpec => []OnlyKnownStalls
BY DrainInvStart, DrainInvNext, DrainInvSuits, PTL DEF RendererSpec

----------------------------------------------------------------------------
(* Where the buffers are: every one is in one place, those that a decoder  *)
(* gave, and they stay in order behind the flushes that do not meet them.  *)
Whole(s, n) == Waits(s, n) + Times(n, mQueue[s]) + returned[s][n]
                 + IF s = "video" THEN Parked(n) ELSE 0
Counting == \A s \in Streams, n \in 1 .. MaxBuffers : Whole(s, n) = IF n <= given[s] THEN 1 ELSE 0

Later(s, m, n) == m < n \/ Shuffled(s, n)
Numbered(m, s) == m.s = s /\ m.what \in {"queue", "flush"}
Order(s) ==
    LET q == mQueue[s] IN
    /\ \A i, j \in 1 .. Len(q) : i < j /\ q[j] # EOS => Later(s, q[i], q[j])
    /\ \A i \in 1 .. Len(q), j \in Places :
          Asks(messages[j], "queue", s) => Later(s, q[i], messages[j].n)
    /\ \A i, j \in Places : i < j /\ Numbered(messages[i], s) /\ Asks(messages[j], "queue", s)
                            => Later(s, messages[i].n, messages[j].n)
    /\ \A i \in 1 .. Len(q) : q[i] <= given[s]
    /\ \A i \in Places : /\ Numbered(messages[i], s) => messages[i].n <= given[s]
                         /\ Asks(messages[i], "queue", s) => messages[i].n # EOS

(* What is parked was given, and what a flush was told of came back.       *)
Parking ==
    /\ handler.at = "park" => handler.n \in 1 .. given["video"]
    /\ \A i \in 1 .. Len(mPendingInputMessages) : mPendingInputMessages[i] \in 1 .. given["video"]
    /\ handler.at = "flushed" =>
          /\ handler.n <= given[handler.s]
          /\ \A n \in 1 .. handler.n : returned[handler.s][n] = 1 \/ Shuffled(handler.s, n)

Within == /\ \A s \in Streams : given[s] <= MaxBuffers
          /\ returned \in [Streams -> [1 .. MaxBuffers -> Nat]]

BufferInv == Within /\ Counting /\ Parking /\ \A s \in Streams : Order(s)

LEMMA BufferInvSuits == ASSUME RShape, BufferInv PROVE BuffersComeBack
<1>1. MaxBuffers \in Nat BY RendererAssumption
<1>2. \A s \in Streams, n \in 1 .. MaxBuffers :
         Waits(s, n) + Times(n, mQueue[s]) + returned[s][n]
            + (IF s = "video" THEN Parked(n) ELSE 0) = IF n <= given[s] THEN 1 ELSE 0
  BY DEF BufferInv, Counting, Whole
<1>3. ASSUME NEW s \in Streams, NEW i \in 1 .. MaxBuffers, NEW j \in 1 .. MaxBuffers,
             i < j, j <= Len(mQueue[s]), mQueue[s][j] # EOS
      PROVE  mQueue[s][i] < mQueue[s][j] \/ Shuffled(s, mQueue[s][j])
  <2>1. Len(mQueue[s]) \in Nat BY DEF RShape
  <2>2. i \in 1 .. Len(mQueue[s]) /\ j \in 1 .. Len(mQueue[s]) BY <1>1, <1>3, <2>1
  <2> QED BY <1>3, <2>2 DEF BufferInv, Order, Later
<1> QED BY <1>2, <1>3 DEF BufferInv, Parking, BuffersComeBack

LEMMA BufferInvStart == ASSUME RendererInit PROVE BufferInv
<1>1. MaxBuffers \in Nat BY RendererAssumption
<1>2. /\ messages = <<>> /\ Len(messages) = 0 /\ handler = Idle /\ mPendingInputMessages = <<>>
      /\ \A s \in Streams : mQueue[s] = <<>> /\ Len(mQueue[s]) = 0 /\ given[s] = 0
      /\ \A s \in Streams, n \in 1 .. MaxBuffers : returned[s][n] = 0
  BY DEF RendererInit
<1>3. \A x : Times(x, <<>>) = 0
  <2>1. \A x : {i \in DOMAIN <<>> : <<>>[i] = x} = {} OBVIOUS
  <2> QED BY <2>1, FS_EmptySet DEF Times
<1>4. Within BY <1>1, <1>2 DEF RendererInit, Within
<1>5. Parking BY <1>2 DEF Parking, Idle
<1>6. \A s \in Streams : Order(s) BY <1>2 DEF Order, Places
<1>7. ASSUME NEW s \in Streams, NEW n \in 1 .. MaxBuffers
      PROVE  Whole(s, n) = IF n <= given[s] THEN 1 ELSE 0
  <2>1. Waits(s, n) = Times(Msg("queue", s, n), messages) BY DEF Waits, Times
  <2>2. Parked(n) = 0 BY <1>2, <1>3 DEF Parked, Idle
  <2> QED BY <1>1, <1>2, <1>3, <2>1, <2>2 DEF Whole
<1> QED BY <1>4, <1>5, <1>6, <1>7 DEF BufferInv, Counting

(* How the parts of the count change.                                      *)
LEMMA PartsAreNat ==
    ASSUME RShape, Within, NEW s \in Streams, NEW n \in 1 .. MaxBuffers
    PROVE  /\ Waits(s, n) \in Nat /\ Times(n, mQueue[s]) \in Nat /\ returned[s][n] \in Nat
           /\ Parked(n) \in Nat /\ given[s] \in Nat
           /\ Waits(s, n) = Times(Msg("queue", s, n), messages)
<1>1. Waits(s, n) = Times(Msg("queue", s, n), messages) BY DEF Waits, Times
<1>2. Waits(s, n) \in Nat BY <1>1, TimesNone DEF RShape
<1>3. Times(n, mQueue[s]) \in Nat /\ Times(n, mPendingInputMessages) \in Nat
  BY TimesNone DEF RShape
<1>4. Parked(n) \in Nat BY <1>3 DEF Parked
<1> QED BY <1>1, <1>2, <1>3, <1>4 DEF Within, RShape

LEMMA PartsAreNatThen ==
    ASSUME RShape', Within', NEW s \in Streams, NEW n \in 1 .. MaxBuffers
    PROVE  /\ Waits(s, n)' \in Nat /\ Times(n, mQueue[s])' \in Nat /\ returned'[s][n] \in Nat
           /\ Parked(n)' \in Nat
<1>1. Waits(s, n)' = Times(Msg("queue", s, n), messages') BY DEF Waits, Times
<1>2. Waits(s, n)' \in Nat BY <1>1, TimesNone DEF RShape
<1>3. Times(n, mQueue'[s]) \in Nat /\ Times(n, mPendingInputMessages') \in Nat
  BY TimesNone DEF RShape
<1>4. Parked(n)' = Times(n, mPendingInputMessages')
                     + IF handler'.at = "park" /\ handler'.n = n THEN 1 ELSE 0
  BY DEF Parked, Times
<1>5. returned'[s][n] \in Nat BY DEF Within
<1> QED BY <1>2, <1>3, <1>4, <1>5

LEMMA MsgIs ==
    ASSUME NEW m \in Message, NEW s, NEW n
    PROVE  m = Msg("queue", s, n) <=> Asks(m, "queue", s) /\ m.n = n
BY DEF Message, Msg, Asks

LEMMA WaitsTold ==
    ASSUME RShape, NEW what, Handle(what), NEW s \in Streams, NEW n
    PROVE  Waits(s, n) = Waits(s, n)' + IF Asks(Told, "queue", s) /\ Told.n = n THEN 1 ELSE 0
<1> DEFINE x == Msg("queue", s, n)
<1>1. messages \in Seq(Message) /\ messages # <<>> /\ messages' = Tail(messages)
  BY DEF RShape, Handle
<1>2. Told = Head(messages) /\ Told \in Message BY <1>1 DEF Told
<1>3. Waits(s, n) = Times(x, messages) /\ Waits(s, n)' = Times(x, messages')
  BY DEF Waits, Times
<1>4. Told = x <=> Asks(Told, "queue", s) /\ Told.n = n BY <1>2, MsgIs
<1> HIDE DEF x
<1>5. Times(x, messages) = Times(x, Tail(messages)) + IF Head(messages) = x THEN 1 ELSE 0
  BY <1>1, TimesTail
<1> QED BY <1>1, <1>2, <1>3, <1>4, <1>5

LEMMA WaitsSent ==
    ASSUME RShape, NEW m \in Message, messages' = Append(messages, m), NEW s \in Streams, NEW n
    PROVE  Waits(s, n)' = Waits(s, n) + IF Asks(m, "queue", s) /\ m.n = n THEN 1 ELSE 0
<1> DEFINE x == Msg("queue", s, n)
<1>1. messages \in Seq(Message) BY DEF RShape
<1>2. Waits(s, n) = Times(x, messages) /\ Waits(s, n)' = Times(x, messages')
  BY DEF Waits, Times
<1>3. m = x <=> Asks(m, "queue", s) /\ m.n = n BY MsgIs
<1> HIDE DEF x
<1>4. Times(x, Append(messages, m)) = Times(x, messages) + IF x = m THEN 1 ELSE 0
  BY <1>1, TimesAppend
<1> QED BY <1>2, <1>3, <1>4

(* The front of a queue, or the first message, goes.                       *)
QueueLoses(s, a) == \A i \in 1 .. Len(mQueue'[s]) : /\ i + a \in 1 .. Len(mQueue[s])
                                                     /\ mQueue'[s][i] = mQueue[s][i + a]
MessagesLose(b) == \A i \in Places' : i + b \in Places /\ messages'[i] = messages[i + b]

LEMMA OrderShifts ==
    ASSUME NEW s \in Streams, Order(s), NEW a \in Nat, NEW b \in Nat,
           QueueLoses(s, a), MessagesLose(b),
           given' = given, reposted \subseteq reposted'
    PROVE  Order(s)'
<1> DEFINE q == mQueue[s]
           r == mQueue'[s]
           After(m, n) == m < n \/ (s = "video" /\ n \in reposted')
<1>1. \A i \in 1 .. Len(r) : i + a \in 1 .. Len(q) /\ r[i] = q[i + a] BY DEF QueueLoses
<1>2. \A i \in Places' : i + b \in Places /\ messages'[i] = messages[i + b] BY DEF MessagesLose
<1>3. \A m, n : Later(s, m, n) => After(m, n) BY DEF Later, Shuffled
<1>4. \A i, j \in Nat : i < j => i + a < j + a /\ i + b < j + b OBVIOUS
<1>5. ASSUME NEW i \in 1 .. Len(r), NEW j \in 1 .. Len(r), i < j, r[j] # EOS
      PROVE  After(r[i], r[j])
  <2>1. i + a < j + a BY <1>4, <1>5
  <2>2. q[j + a] # EOS BY <1>1, <1>5
  <2>3. Later(s, q[i + a], q[j + a]) BY <1>1, <2>1, <2>2 DEF Order
  <2> QED BY <1>1, <1>3, <2>3
<1>6. ASSUME NEW i \in 1 .. Len(r), NEW j \in Places', Asks(messages'[j], "queue", s)
      PROVE  After(r[i], messages'[j].n)
  <2>1. Later(s, q[i + a], messages[j + b].n) BY <1>1, <1>2, <1>6 DEF Order
  <2> QED BY <1>1, <1>2, <1>3, <2>1
<1>7. ASSUME NEW i \in Places', NEW j \in Places', i < j, Numbered(messages'[i], s),
             Asks(messages'[j], "queue", s)
      PROVE  After(messages'[i].n, messages'[j].n)
  <2>1. Later(s, messages[i + b].n, messages[j + b].n)
    <3>1. i \in Nat /\ j \in Nat BY DEF Places
    <3> QED BY <1>2, <1>4, <1>7, <3>1 DEF Order
  <2> QED BY <1>2, <1>3, <2>1
<1>8. \A i \in 1 .. Len(r) : r[i] <= given'[s] BY <1>1 DEF Order
<1>9. ASSUME NEW i \in Places'
      PROVE  /\ Numbered(messages'[i], s) => messages'[i].n <= given'[s]
             /\ Asks(messages'[i], "queue", s) => messages'[i].n # EOS
  BY <1>2 DEF Order
<1> QED BY <1>5, <1>6, <1>7, <1>8, <1>9 DEF Order, Numbered, Asks, Later, Shuffled

(* What is sent asks for no buffer of the stream, or for a later one.      *)
LEMMA OrderSent ==
    ASSUME RShape, NEW s \in Streams, Order(s), NEW a \in Nat, QueueLoses(s, a), Sent,
           given'[s] \in Nat, given[s] <= given'[s], reposted \subseteq reposted',
           \A i \in New : Numbered(messages'[i], s) => messages'[i].n <= given'[s],
           \A i \in New : Asks(messages'[i], "queue", s) =>
              /\ messages'[i].n # EOS
              /\ \/ s = "video" /\ messages'[i].n \in reposted'
                 \/ New = {i} /\ given[s] < messages'[i].n
    PROVE  Order(s)'
<1> DEFINE q == mQueue[s]
           r == mQueue'[s]
           After(m, n) == m < n \/ (s = "video" /\ n \in reposted')
<1>1. \A i \in 1 .. Len(r) : i + a \in 1 .. Len(q) /\ r[i] = q[i + a] BY DEF QueueLoses
<1>2. /\ Places \subseteq Nat /\ Len(messages) \in Nat /\ Len(messages') \in Nat
      /\ Places' = Places \cup New
      /\ \A i \in Places : messages'[i] = messages[i] /\ messages[i] \in Message
      /\ \A i \in Places, j \in New : ~(j < i)
      /\ given[s] \in Nat /\ q \in Seq(Nat)
  BY DEF RShape, Sent, Places, New
<1>3. \A i, j \in Nat : i < j => i + a < j + a OBVIOUS
<1>4. \A m, n : Later(s, m, n) => After(m, n) BY DEF Later, Shuffled
<1>5. ASSUME NEW i \in 1 .. Len(r), NEW j \in 1 .. Len(r), i < j, r[j] # EOS
      PROVE  After(r[i], r[j])
  <2>1. Later(s, q[i + a], q[j + a]) BY <1>1, <1>3, <1>5 DEF Order
  <2> QED BY <1>1, <1>4, <2>1
<1>6. ASSUME NEW n \in Nat, n <= given[s], NEW j \in New, Asks(messages'[j], "queue", s),
             messages'[j].n \in Nat
      PROVE  After(n, messages'[j].n)
  BY <1>2, <1>6
<1>7. \A i \in 1 .. Len(r) : r[i] \in Nat /\ r[i] <= given[s]
  <2>1. \A i \in 1 .. Len(q) : q[i] <= given[s] BY DEF Order
  <2>2. \A i \in 1 .. Len(q) : q[i] \in Nat BY <1>2
  <2> QED BY <1>1, <2>1, <2>2
<1>8. \A i \in New : messages'[i].n \in Nat
  <2>1. \A i \in New : i \in 1 .. Len(messages') BY <1>2 DEF New
  <2>2. \A i \in New : messages'[i] \in Message BY <2>1 DEF Sent
  <2> QED BY <2>2 DEF Message
<1>9. ASSUME NEW i \in 1 .. Len(r), NEW j \in Places', Asks(messages'[j], "queue", s)
      PROVE  After(r[i], messages'[j].n)
  <2>1. CASE j \in New BY <1>6, <1>7, <1>8, <1>9, <2>1
  <2>2. CASE j \in Places
    <3>1. Later(s, q[i + a], messages[j].n) BY <1>1, <1>2, <1>9, <2>2 DEF Order
    <3> QED BY <1>1, <1>2, <1>4, <2>2, <3>1
  <2> QED BY <1>2, <2>1, <2>2
<1>10. ASSUME NEW i \in Places', NEW j \in Places', i < j, Numbered(messages'[i], s),
              Asks(messages'[j], "queue", s)
       PROVE  After(messages'[i].n, messages'[j].n)
  <2>1. CASE i \in Places /\ j \in New
    <3>1. messages[i].n <= given[s] /\ messages[i].n \in Nat
      BY <1>2, <1>10, <2>1 DEF Order, Message
    <3> QED BY <1>2, <1>6, <1>8, <1>10, <2>1, <3>1
  <2>2. CASE j \in Places
    <3>1. i \in Places BY <1>2, <1>10, <2>2
    <3>2. Later(s, messages[i].n, messages[j].n) BY <1>2, <1>10, <2>2, <3>1 DEF Order
    <3> QED BY <1>2, <1>4, <2>2, <3>1, <3>2
  <2>3. CASE i \in New /\ j \in New
    <3>1. i # j
      <4>1. i \in Nat /\ j \in Nat BY DEF Places
      <4> QED BY <1>10, <4>1
    <3> QED BY <1>10, <2>3, <3>1
  <2> QED BY <1>2, <2>1, <2>2, <2>3
<1>11. \A i \in 1 .. Len(r) : r[i] <= given'[s] BY <1>2, <1>7
<1>12. ASSUME NEW i \in Places'
       PROVE  /\ Numbered(messages'[i], s) => messages'[i].n <= given'[s]
              /\ Asks(messages'[i], "queue", s) => messages'[i].n # EOS
  <2>1. CASE i \in New BY <2>1
  <2>2. CASE i \in Places
    <3>1. /\ Numbered(messages[i], s) => messages[i].n <= given[s]
          /\ Asks(messages[i], "queue", s) => messages[i].n # EOS
          /\ messages[i].n \in Nat
      BY <1>2, <2>2 DEF Order, Message
    <3> QED BY <1>2, <2>2, <3>1
  <2> QED BY <1>2, <2>1, <2>2
<1> QED BY <1>5, <1>9, <1>10, <1>11, <1>12 DEF Order, Numbered, Asks, Later, Shuffled

(* What was told is at the end of the queue, or the end of the stream is.  *)
LEMMA OrderQueued ==
    ASSUME RShape, NEW s \in Streams, Order(s), HandledOne, NEW x \in Nat,
           x = EOS \/ (Asks(Told, "queue", s) /\ x = Told.n),
           mQueue'[s] = Append(mQueue[s], x), given' = given, reposted' = reposted
    PROVE  Order(s)'
<1> DEFINE q == mQueue[s]
           r == mQueue'[s]
           After(m, n) == m < n \/ (s = "video" /\ n \in reposted')
<1>1. q \in Seq(Nat) /\ Len(q) \in Nat BY DEF RShape
<1>2. /\ Len(r) = Len(q) + 1 /\ r[Len(q) + 1] = x
      /\ \A i \in 1 .. Len(q) : r[i] = q[i]
  <2> HIDE DEF q
  <2> QED BY <1>1 DEF q
<1>3. /\ \A i \in Places' : i + 1 \in Places /\ messages'[i] = messages[i + 1]
      /\ 1 \in Places /\ Told = messages[1] /\ Places' \subseteq Nat
      /\ \A i \in Places' : 1 < i + 1 /\ messages[i + 1] \in Message
  BY DEF HandledOne, Places
<1>4. \A m, n : Later(s, m, n) => After(m, n) BY DEF Later, Shuffled
<1> HIDE DEF q, r
<1>5. \A i \in 1 .. Len(q) : x # EOS => Later(s, q[i], x)
  BY <1>3 DEF Order, q
<1>6. ASSUME NEW j \in Places', Asks(messages'[j], "queue", s)
      PROVE  Later(s, x, messages'[j].n)
  <2>1. messages'[j].n \in Nat /\ messages'[j].n # EOS BY <1>3, <1>6 DEF Order, Message
  <2>2. CASE x = EOS BY <2>1, <2>2 DEF Later, EOS
  <2>3. CASE Asks(Told, "queue", s) /\ x = Told.n
    <3>1. Numbered(messages[1], s) BY <1>3, <2>3 DEF Asks, Numbered
    <3>2. Later(s, messages[1].n, messages[j + 1].n) BY <1>3, <1>6, <3>1 DEF Order
    <3> QED BY <1>3, <2>3, <3>2
  <2> QED BY <2>2, <2>3
<1>7. \A i \in 1 .. Len(r) : i \in 1 .. Len(q) \/ i = Len(q) + 1 BY <1>1, <1>2
<1>8. ASSUME NEW i \in 1 .. Len(r), NEW j \in 1 .. Len(r), i < j, r[j] # EOS
      PROVE  After(r[i], r[j])
  <2>1. i \in 1 .. Len(q) BY <1>1, <1>2, <1>8
  <2>2. CASE j = Len(q) + 1
    <3>1. Later(s, q[i], x) BY <1>2, <1>5, <1>8, <2>1, <2>2
    <3> QED BY <1>2, <1>4, <2>1, <2>2, <3>1
  <2>3. CASE j \in 1 .. Len(q)
    <3>1. Later(s, q[i], q[j]) BY <1>2, <1>8, <2>1, <2>3 DEF Order, q
    <3> QED BY <1>2, <1>4, <2>1, <2>3, <3>1
  <2> QED BY <1>7, <2>2, <2>3
<1>9. ASSUME NEW i \in 1 .. Len(r), NEW j \in Places', Asks(messages'[j], "queue", s)
      PROVE  After(r[i], messages'[j].n)
  <2>1. CASE i = Len(q) + 1
    <3>1. Later(s, x, messages'[j].n) BY <1>6, <1>9
    <3> QED BY <1>2, <1>4, <2>1, <3>1
  <2>2. CASE i \in 1 .. Len(q)
    <3>1. Later(s, q[i], messages[j + 1].n) BY <1>3, <1>9, <2>2 DEF Order, q
    <3> QED BY <1>2, <1>3, <1>4, <2>2, <3>1
  <2> QED BY <1>7, <2>1, <2>2
<1>10. ASSUME NEW i \in Places', NEW j \in Places', i < j, Numbered(messages'[i], s),
              Asks(messages'[j], "queue", s)
       PROVE  After(messages'[i].n, messages'[j].n)
  <2>1. i \in Nat /\ j \in Nat BY <1>3
  <2> i + 1 < j + 1 BY <1>10, <2>1
  <2>2. Later(s, messages[i + 1].n, messages[j + 1].n) BY <1>3, <1>10 DEF Order
  <2> QED BY <1>3, <1>4, <2>2
<1>11. x <= given[s]
  <2>1. given[s] \in Nat BY DEF RShape
  <2>2. CASE x = EOS BY <2>1, <2>2 DEF EOS
  <2>3. CASE Asks(Told, "queue", s) /\ x = Told.n
    <3>1. Numbered(messages[1], s) BY <1>3, <2>3 DEF Asks, Numbered
    <3> QED BY <1>3, <2>3, <3>1 DEF Order
  <2> QED BY <2>2, <2>3
<1>12. \A i \in 1 .. Len(r) : r[i] <= given'[s]
  <2>1. \A i \in 1 .. Len(q) : q[i] <= given[s] BY DEF Order, q
  <2> QED BY <1>2, <1>7, <1>11, <2>1
<1>13. ASSUME NEW i \in Places'
       PROVE  /\ Numbered(messages'[i], s) => messages'[i].n <= given'[s]
              /\ Asks(messages'[i], "queue", s) => messages'[i].n # EOS
  BY <1>3 DEF Order
<1> QED BY <1>8, <1>9, <1>10, <1>12, <1>13 DEF Order, Numbered, Asks, Later, Shuffled, r

----------------------------------------------------------------------------
(* What is parked and what came back stay so.                              *)
LEMMA ParkingStays ==
    ASSUME RShape, RShape', Within, Within', Counting', Parking,
           handler' = handler \/ handler' = Idle,
           mPendingInputMessages' \in {mPendingInputMessages, <<>>},
           \A s \in Streams : given[s] <= given'[s], reposted \subseteq reposted',
           \A s \in Streams, n \in 1 .. MaxBuffers : returned[s][n] <= returned'[s][n]
    PROVE  Parking'
<1>1. /\ MaxBuffers \in Nat /\ handler.n \in Nat /\ handler.s \in Streams
      /\ \A s \in Streams : given[s] \in Nat /\ given'[s] \in Nat /\ given[s] <= MaxBuffers
      /\ "video" \in Streams
  BY RendererAssumption DEF RShape, Within, Streams
<1>2. \A i \in 1 .. Len(mPendingInputMessages') :
         mPendingInputMessages'[i] \in 1 .. given'["video"]
  <2>1. CASE mPendingInputMessages' = mPendingInputMessages BY <1>1, <2>1 DEF Parking
  <2>2. CASE mPendingInputMessages' = <<>> BY <2>2
  <2> QED BY <2>1, <2>2
<1>3. CASE handler' = Idle BY <1>2, <1>3 DEF Parking, Idle
<1>4. CASE handler' = handler
  <2>1. handler.at = "park" => handler'.n \in 1 .. given'["video"] BY <1>1, <1>4 DEF Parking
  <2>2. ASSUME handler.at = "flushed"
        PROVE  /\ handler.n <= given'[handler.s]
               /\ \A n \in 1 .. handler.n : \/ returned'[handler.s][n] = 1
                                            \/ handler.s = "video" /\ n \in reposted'
    <3>1. handler.n <= given[handler.s] /\ handler.n <= given'[handler.s]
      BY <1>1, <2>2 DEF Parking
    <3>2. ASSUME NEW n \in 1 .. handler.n, returned[handler.s][n] = 1
          PROVE  returned'[handler.s][n] = 1
      <4>1. n \in 1 .. MaxBuffers /\ n <= given'[handler.s] BY <1>1, <3>1
      <4>2. Whole(handler.s, n)' = 1 BY <1>1, <1>4, <4>1 DEF Counting
      <4>3. PICK s \in Streams : s = handler.s BY <1>1
      <4>4. /\ Waits(s, n)' \in Nat /\ Times(n, mQueue[s])' \in Nat /\ returned'[s][n] \in Nat
            /\ Parked(n)' \in Nat
        BY <4>1, PartsAreNatThen
      <4>5. returned'[s][n] >= 1 BY <3>2, <4>1, <4>3
      <4>6. Whole(s, n)' = 1 BY <1>4, <4>2, <4>3
      <4>7. returned'[s][n] <= 1 BY <4>4, <4>6 DEF Whole
      <4> QED BY <4>3, <4>4, <4>5, <4>7
    <3> QED BY <2>2, <3>1, <3>2 DEF Parking, Shuffled
  <2> QED BY <1>2, <1>4, <2>1, <2>2 DEF Parking, Shuffled
<1> QED BY <1>3, <1>4

LEMMA BuffersStay ==
    ASSUME BufferInv, UNCHANGED <<messages, mQueue, mPendingInputMessages, returned, reposted,
                                  handler, given>>
    PROVE  BufferInv'
<1>1. Within' BY DEF BufferInv, Within
<1>2. Counting' BY DEF BufferInv, Counting, Whole, Waits, Parked, Times
<1>3. Parking' BY DEF BufferInv, Parking, Shuffled
<1>4. \A s \in Streams : Order(s)' BY DEF BufferInv, Order, Places, Later, Shuffled
<1> QED BY <1>1, <1>2, <1>3, <1>4 DEF BufferInv

(* The first k buffers of a queue are returned, and the end of the stream  *)
(* goes too if e is 1.                                                     *)
Taken(s, k, e) ==
    /\ k + e <= Len(mQueue[s]) /\ (e = 1 => mQueue[s][k + 1] = EOS)
    /\ mQueue' = [mQueue EXCEPT ![s] = SubSeq(@, k + e + 1, Len(@))]
    /\ \E B : /\ Consume(s, B)
              /\ \A n \in 1 .. MaxBuffers : n \in B <=> n \in {mQueue[s][i] : i \in 1 .. k}

LEMMA Consumed ==
    ASSUME Within, NEW s \in Streams, NEW B, Consume(s, B)
    PROVE  /\ returned' \in [Streams -> [1 .. MaxBuffers -> Nat]]
           /\ \A n \in 1 .. MaxBuffers :
                 returned'[s][n] = returned[s][n] + IF n \in B THEN 1 ELSE 0
           /\ \A t \in Streams \ {s} : returned'[t] = returned[t]
<1> DEFINE f == returned[s]
           g == [n \in 1 .. MaxBuffers |-> f[n] + (IF n \in B THEN 1 ELSE 0)]
<1>1. f \in [1 .. MaxBuffers -> Nat] BY DEF Within
<1>2. returned' = [returned EXCEPT ![s] = g] BY <1>1 DEF Consume, Within
<1>3. g \in [1 .. MaxBuffers -> Nat]
  <2>1. \A n \in 1 .. MaxBuffers : f[n] \in Nat BY <1>1
  <2> HIDE DEF f
  <2>2. \A n \in 1 .. MaxBuffers : f[n] + (IF n \in B THEN 1 ELSE 0) \in Nat BY <2>1
  <2> QED BY <2>2
<1> HIDE DEF f, g
<1>4. /\ returned' \in [Streams -> [1 .. MaxBuffers -> Nat]] /\ returned'[s] = g
      /\ \A t \in Streams \ {s} : returned'[t] = returned[t]
  BY <1>2, <1>3 DEF Within
<1> QED BY <1>4 DEF f, g

LEMMA TakenCounts ==
    ASSUME RShape, Within, Counting, given' = given,
           NEW s \in Streams, NEW k \in Nat, NEW e \in {0, 1}, Taken(s, k, e)
    PROVE  /\ Within' /\ QueueLoses(s, k + e) /\ \A t \in Streams \ {s} : QueueLoses(t, 0)
           /\ \A t \in Streams, n \in 1 .. MaxBuffers :
                 /\ Times(n, mQueue'[t]) + returned'[t][n] = Times(n, mQueue[t]) + returned[t][n]
                 /\ returned[t][n] <= returned'[t][n]
<1> DEFINE q == mQueue[s]
           a == k + e
           r == SubSeq(q, a + 1, Len(q))
<1>1. /\ q \in Seq(Nat) /\ Len(q) \in Nat /\ a \in Nat /\ a <= Len(q) /\ a \in 0 .. Len(q)
      /\ mQueue'[s] = r /\ \A t \in Streams \ {s} : mQueue'[t] = mQueue[t]
      /\ \A t \in Streams : mQueue[t] \in Seq(Nat)
  BY DEF RShape, Taken
<1>2. PICK B : /\ Consume(s, B)
               /\ \A n \in 1 .. MaxBuffers : n \in B <=> n \in {q[i] : i \in 1 .. k}
  BY DEF Taken
<1>3. /\ returned' \in [Streams -> [1 .. MaxBuffers -> Nat]]
      /\ \A n \in 1 .. MaxBuffers : returned'[s][n] = returned[s][n] + IF n \in B THEN 1 ELSE 0
      /\ \A t \in Streams \ {s} : returned'[t] = returned[t]
  BY <1>2, Consumed
<1>4. Within' BY <1>3 DEF Within
<1>5. QueueLoses(s, a)
  <2>1. ASSUME NEW i \in 1 .. Len(mQueue'[s])
        PROVE  i + a \in 1 .. Len(q) /\ mQueue'[s][i] = q[i + a]
    <3>1. Len(r) = Len(q) - a /\ \A j \in 1 .. Len(r) : r[j] = q[a + j] BY <1>1, RestOf
    <3> HIDE DEF q, a, r
    <3>2. i \in 1 .. Len(q) - a /\ r[i] = q[a + i] BY <1>1, <3>1
    <3>3. a + i = i + a /\ i + a \in 1 .. Len(q) BY <1>1, <3>2
    <3> QED BY <1>1, <3>2, <3>3
  <2> QED BY <2>1 DEF QueueLoses
<1>6. \A t \in Streams \ {s} : QueueLoses(t, 0)
  <2>1. \A t \in Streams \ {s} : mQueue'[t] = mQueue[t] /\ Len(mQueue[t]) \in Nat BY <1>1
  <2> QED BY <2>1 DEF QueueLoses
<1>7. ASSUME NEW n \in 1 .. MaxBuffers
      PROVE  /\ Times(n, mQueue'[s]) + returned'[s][n] = Times(n, q) + returned[s][n]
             /\ returned[s][n] <= returned'[s][n]
  <2>1. Times(n, q) <= 1
    <3>1. /\ Waits(s, n) \in Nat /\ Times(n, mQueue[s]) \in Nat /\ returned[s][n] \in Nat
          /\ Parked(n) \in Nat
      BY PartsAreNat
    <3>2. Whole(s, n) <= 1 BY DEF Counting
    <3> QED BY <3>1, <3>2 DEF Whole
  <2>2. n \in {q[i] : i \in 1 .. a} <=> n \in {q[i] : i \in 1 .. k}
    <3>1. n # EOS /\ MaxBuffers \in Nat BY RendererAssumption DEF EOS
    <3>2. CASE e = 0 BY <3>2
    <3>3. CASE e = 1
      <4>1. q[k + 1] = EOS BY <3>3 DEF Taken
      <4>2. \A i \in 1 .. a : i \in 1 .. k \/ i = k + 1 BY <3>3
      <4>3. \A i \in 1 .. k : i \in 1 .. a BY <3>3
      <4> HIDE DEF a, q
      <4> QED BY <3>1, <4>1, <4>2, <4>3
    <3> QED BY <3>2, <3>3
  <2> HIDE DEF q, a
  <2>3. Times(n, q) = Times(n, r) + IF n \in {q[i] : i \in 1 .. a} THEN 1 ELSE 0
    BY <1>1, <2>1, TimesTaken
  <2>4. r \in Seq(Nat) BY <1>1
  <2>5. Times(n, r) \in Nat BY <2>4, TimesNone
  <2>6. returned[s][n] \in Nat BY DEF Within
  <2>7. n \in B <=> n \in {q[i] : i \in 1 .. a} BY <1>2, <2>2
  <2>8. returned'[s][n] = returned[s][n] + IF n \in B THEN 1 ELSE 0 BY <1>3
  <2>9. Times(n, mQueue'[s]) = Times(n, r) BY <1>1
  <2> HIDE DEF r
  <2>10. CASE n \in B BY <2>3, <2>5, <2>6, <2>7, <2>8, <2>9, <2>10
  <2>11. CASE n \notin B BY <2>3, <2>5, <2>6, <2>7, <2>8, <2>9, <2>11
  <2> QED BY <2>10, <2>11
<1>8. ASSUME NEW t \in Streams \ {s}, NEW n \in 1 .. MaxBuffers
      PROVE  /\ Times(n, mQueue'[t]) + returned'[t][n] = Times(n, mQueue[t]) + returned[t][n]
             /\ returned[t][n] <= returned'[t][n]
  <2>1. returned[t][n] \in Nat BY DEF Within
  <2> QED BY <1>1, <1>3, <2>1
<1> QED BY <1>4, <1>5, <1>6, <1>7, <1>8

LEMMA AudioIsTaken ==
    ASSUME RShape, NothingAfterEnd, NEW k \in 0 .. Lead, NEW end \in {0, 1}, TakeAudio(k, end)
    PROVE  Taken("audio", k, end) /\ k \in Nat
<1> DEFINE Q == mQueue["audio"]
           L == {i \in DOMAIN Q : \A j \in 1 .. i : Q[j] # EOS}
<1>1. Lead \in Nat /\ Lead <= Len(Q) BY LeadIsWithin
<1>2. Q \in Seq(Nat) /\ Len(Q) \in Nat /\ DOMAIN Q = 1 .. Len(Q) BY DEF RShape, Streams
<1>3. /\ mQueue' = [mQueue EXCEPT !["audio"] = SubSeq(@, k + end + 1, Len(@))]
      /\ Consume("audio", {Q[i] : i \in 1 .. k})
      /\ end = 1 => k = Lead /\ k < Len(Q)
  BY DEF TakeAudio
<1>4. k \in Nat /\ k + end <= Len(Q)
  <2> HIDE DEF Q
  <2> QED BY <1>1, <1>2, <1>3
<1>5. ASSUME end = 1 PROVE Q[k + 1] = EOS
  <2>1. k + 1 = Len(Q) BY <1>3, <1>5, AudioTaken
  <2>2. SUFFICES ASSUME Q[Len(Q)] # EOS PROVE FALSE BY <2>1
  <2>3. \A i \in 1 .. Len(Q) : Q[i] # EOS BY <2>2 DEF NothingAfterEnd
  <2>4. L = 1 .. Len(Q) BY <1>2, <2>3
  <2>5. Cardinality(1 .. Len(Q)) = Len(Q) BY <1>2, FS_Interval
  <2>6. Lead = Len(Q) BY <2>4, <2>5 DEF Lead
  <2> QED BY <1>2, <1>3, <1>5, <2>6
<1> QED BY <1>3, <1>4, <1>5 DEF Taken

LEMMA TakenKeeps ==
    ASSUME RShape, RShape', BufferInv,
           UNCHANGED <<messages, mPendingInputMessages, reposted, handler, given>>,
           NEW s \in Streams, NEW k \in Nat, NEW e \in {0, 1}, Taken(s, k, e)
    PROVE  BufferInv'
<1> USE DEF BufferInv
<1>1. /\ Within' /\ QueueLoses(s, k + e) /\ \A t \in Streams \ {s} : QueueLoses(t, 0)
      /\ \A t \in Streams, n \in 1 .. MaxBuffers :
            /\ Times(n, mQueue'[t]) + returned'[t][n] = Times(n, mQueue[t]) + returned[t][n]
            /\ returned[t][n] <= returned'[t][n]
  BY TakenCounts
<1>2. ASSUME NEW t \in Streams, NEW n \in 1 .. MaxBuffers
      PROVE  Whole(t, n)' = IF n <= given'[t] THEN 1 ELSE 0
  <2>1. Waits(t, n)' = Waits(t, n) /\ Parked(n)' = Parked(n) BY DEF Waits, Parked, Times
  <2>2. /\ Waits(t, n) \in Nat /\ Times(n, mQueue[t]) \in Nat /\ returned[t][n] \in Nat
        /\ Parked(n) \in Nat
    BY PartsAreNat
  <2>3. Times(n, mQueue[t])' \in Nat /\ returned'[t][n] \in Nat BY <1>1, PartsAreNatThen
  <2>4. Whole(t, n)' = Whole(t, n) BY <1>1, <2>1, <2>2, <2>3 DEF Whole
  <2> QED BY <2>4 DEF Counting
<1>3. Counting' BY <1>2 DEF Counting
<1>4. Parking'
  <2>1. \A t \in Streams : given[t] <= given'[t] BY DEF RShape
  <2>2. mPendingInputMessages' \in {mPendingInputMessages, <<>>} OBVIOUS
  <2> QED BY <1>1, <1>3, <2>1, <2>2, ParkingStays
<1>5. MessagesLose(0) BY DEF MessagesLose, Places
<1>6. ASSUME NEW t \in Streams PROVE Order(t)'
  <2>1. CASE t = s BY <1>1, <1>5, <2>1, OrderShifts
  <2>2. CASE t # s BY <1>1, <1>5, <2>2, OrderShifts
  <2> QED BY <2>1, <2>2
<1> QED BY <1>1, <1>3, <1>4, <1>6

LEMMA DrainsKeepBuffers ==
    ASSUME DrainInv, RShape', BufferInv, NEW d \in drains,
           DropStale(d) \/ onDrainAudioQueue(d) \/ NoPosition(d) \/ onDrainVideoQueue(d)
    PROVE  BufferInv'
<1>1. UNCHANGED <<messages, mPendingInputMessages, reposted, handler, given>>
  BY DEF DropStale, onDrainAudioQueue, NoPosition, onDrainVideoQueue, Draining, onPlayer
<1>2. RShape /\ NothingAfterEnd /\ "audio" \in Streams /\ "video" \in Streams
  BY DEF DrainInv, Streams
<1>3. CASE DropStale(d)
  <2>1. UNCHANGED <<mQueue, returned>> BY <1>3 DEF DropStale
  <2> QED BY <1>1, <2>1, BuffersStay
<1>4. CASE onDrainAudioQueue(d) \/ NoPosition(d)
  <2>1. PICK k \in 0 .. Lead, end \in {0, 1} : TakeAudio(k, end)
    BY <1>4 DEF onDrainAudioQueue, NoPosition
  <2>2. Taken("audio", k, end) /\ k \in Nat BY <1>2, <2>1, AudioIsTaken
  <2> QED BY <1>1, <1>2, <2>2, TakenKeeps
<1>5. CASE onDrainVideoQueue(d)
  <2> DEFINE q == mQueue["video"]
  <2>1. CASE UNCHANGED <<mQueue, returned>> BY <1>1, <2>1, BuffersStay
  <2>2. CASE /\ Consume("video", {Head(q)} \ {EOS})
             /\ mQueue' = [mQueue EXCEPT !["video"] = Tail(q)]
    <3>1. q \in Seq(Nat) /\ q # <<>>
      <4>1. Current(d) /\ d.s = "video" BY <1>5 DEF onDrainVideoQueue
      <4>2. mDrainPending["video"] BY <1>2, <4>1 DEF DrainInv, OneDrain, Match
      <4> QED BY <1>2, <4>2 DEF DrainInv, Moving, RShape
    <3> HIDE DEF q
    <3>2. /\ Len(q) >= 1 /\ Head(q) = q[1] /\ Tail(q) = SubSeq(q, 2, Len(q)) /\ Len(q) \in Nat
      BY <3>1
    <3>3. \A n \in 1 .. MaxBuffers : n \in {Head(q)} \ {EOS} <=> n \in {q[i] : i \in 1 .. 1}
      BY <3>2, RendererAssumption DEF EOS
    <3>4. mQueue' = [mQueue EXCEPT !["video"] = SubSeq(q, 2, Len(q))] BY <2>2, <3>2
    <3>5. \E B : /\ Consume("video", B)
                 /\ \A n \in 1 .. MaxBuffers : n \in B <=> n \in {q[i] : i \in 1 .. 1}
      BY <2>2, <3>3
    <3>6. 1 + 0 <= Len(q) /\ 1 + 0 + 1 = 2 BY <3>2
    <3>7. Taken("video", 1, 0) BY <3>4, <3>5, <3>6 DEF Taken, q
    <3> QED BY <1>1, <1>2, <3>7, TakenKeeps
  <2> QED BY <1>5, <2>1, <2>2 DEF onDrainVideoQueue
<1> QED BY <1>3, <1>4, <1>5

LEMMA UnmovedQueue ==
    ASSUME RShape, NEW s \in Streams, mQueue'[s] = mQueue[s]
    PROVE  QueueLoses(s, 0)
<1>1. Len(mQueue[s]) \in Nat BY DEF RShape
<1> QED BY <1>1 DEF QueueLoses

(* A message is sent: a buffer, or something else.                         *)
LEMMA CallKeepsBuffers ==
    ASSUME RShape, RShape', BufferInv, NEW m \in Message, messages' = Append(messages, m),
           UNCHANGED <<handler, mQueue, mPendingInputMessages, returned, reposted>>,
           \/ /\ m.what # "queue" /\ given' = given
              /\ m.what = "flush" => m.n <= given[m.s]
           \/ /\ m.what = "queue" /\ given[m.s] < MaxBuffers /\ m.n = given[m.s] + 1
              /\ given' = [given EXCEPT ![m.s] = @ + 1]
    PROVE  BufferInv'
<1> USE DEF BufferInv
<1>1. /\ m.s \in Streams /\ MaxBuffers \in Nat /\ m.n \in Nat
      /\ \A s \in Streams : given[s] \in Nat /\ given'[s] \in Nat /\ given[s] <= MaxBuffers
  BY RendererAssumption DEF RShape, Within, Message
<1>2. \A s \in Streams :
         given'[s] = given[s] + IF m.what = "queue" /\ m.s = s THEN 1 ELSE 0
  <2>1. CASE m.what # "queue" BY <1>1, <2>1
  <2>2. CASE m.what = "queue"
    <3>1. given' = [given EXCEPT ![m.s] = @ + 1] /\ given \in [Streams -> Nat]
      BY <2>2 DEF RShape
    <3> QED BY <1>1, <2>2, <3>1
  <2> QED BY <2>1, <2>2
<1>3. \A s \in Streams : given[s] <= given'[s] /\ given'[s] <= MaxBuffers
  BY <1>1, <1>2
<1>4. Within' BY <1>3 DEF Within
<1>5. ASSUME NEW s \in Streams, NEW n \in 1 .. MaxBuffers
      PROVE  Whole(s, n)' = IF n <= given'[s] THEN 1 ELSE 0
  <2>1. Waits(s, n)' = Waits(s, n) + IF Asks(m, "queue", s) /\ m.n = n THEN 1 ELSE 0
    BY WaitsSent
  <2>2. Parked(n)' = Parked(n) /\ Times(n, mQueue[s])' = Times(n, mQueue[s])
    BY DEF Parked, Times
  <2>3. /\ Waits(s, n) \in Nat /\ Times(n, mQueue[s]) \in Nat /\ returned[s][n] \in Nat
        /\ Parked(n) \in Nat
    BY PartsAreNat
  <2>4. Whole(s, n)' = Whole(s, n) + IF Asks(m, "queue", s) /\ m.n = n THEN 1 ELSE 0
    <3> DEFINE one == IF Asks(m, "queue", s) /\ m.n = n THEN 1 ELSE 0
    <3>1. one \in Nat OBVIOUS
    <3>2. Waits(s, n)' = Waits(s, n) + one BY <2>1
    <3> HIDE DEF one
    <3>3. Whole(s, n)' = Whole(s, n) + one BY <2>2, <2>3, <3>1, <3>2 DEF Whole
    <3> QED BY <3>3 DEF one
  <2>5. Whole(s, n) = IF n <= given[s] THEN 1 ELSE 0 BY DEF Counting
  <2>6. Asks(m, "queue", s) /\ m.n = n <=> m.what = "queue" /\ m.s = s /\ n = given[s] + 1
    BY DEF Asks
  <2> HIDE DEF BufferInv
  <2>7. CASE m.what = "queue" /\ m.s = s BY <1>1, <1>2, <2>4, <2>5, <2>6, <2>7
  <2>8. CASE ~(m.what = "queue" /\ m.s = s) BY <1>1, <1>2, <2>4, <2>5, <2>6, <2>8
  <2> QED BY <2>7, <2>8
<1>6. Counting' BY <1>5 DEF Counting
<1>7. Parking'
  <2>1. Parking' <=> /\ handler.at = "park" => handler.n \in 1 .. given'["video"]
                     /\ \A i \in 1 .. Len(mPendingInputMessages) :
                           mPendingInputMessages[i] \in 1 .. given'["video"]
                     /\ handler.at = "flushed" =>
                           /\ handler.n <= given'[handler.s]
                           /\ \A n \in 1 .. handler.n : \/ returned[handler.s][n] = 1
                                                        \/ Shuffled(handler.s, n)
    BY DEF Parking, Shuffled
  <2>2. handler.s \in Streams /\ handler.n \in Nat /\ "video" \in Streams BY DEF RShape, Streams
  <2>3. \A s \in Streams, n \in Nat : n <= given[s] => n <= given'[s] BY <1>1, <1>3
  <2>4. \A n \in 1 .. given["video"] : n \in 1 .. given'["video"]
    <3>1. given["video"] \in Nat /\ given'["video"] \in Nat /\ given["video"] <= given'["video"]
      BY <1>1, <1>3, <2>2
    <3> QED BY <3>1
  <2>5. Parking BY DEF BufferInv
  <2>6. handler.at = "park" => handler.n \in 1 .. given'["video"]
    BY <2>4, <2>5 DEF Parking
  <2>7. \A i \in 1 .. Len(mPendingInputMessages) :
            mPendingInputMessages[i] \in 1 .. given'["video"]
    BY <2>4, <2>5 DEF Parking
  <2>8. handler.at = "flushed" =>
            /\ handler.n <= given'[handler.s]
            /\ \A n \in 1 .. handler.n : \/ returned[handler.s][n] = 1
                                         \/ Shuffled(handler.s, n)
    BY <2>2, <2>3, <2>5 DEF Parking
  <2> QED BY <2>1, <2>6, <2>7, <2>8
<1>8. /\ Sent /\ New = {Len(messages) + 1} /\ messages'[Len(messages) + 1] = m BY OneSent
<1>9. ASSUME NEW s \in Streams PROVE Order(s)'
  <2>1. QueueLoses(s, 0) BY UnmovedQueue
  <2>2. \A i \in New : Numbered(messages'[i], s) => messages'[i].n <= given'[s]
    BY <1>1, <1>2, <1>8 DEF Numbered
  <2>3. \A i \in New : Asks(messages'[i], "queue", s) =>
           messages'[i].n # EOS /\ New = {i} /\ given[s] < messages'[i].n
    BY <1>1, <1>8 DEF Asks, EOS
  <2> QED BY <1>1, <1>3, <1>8, <2>1, <2>2, <2>3, OrderSent
<1> QED BY <1>4, <1>6, <1>7, <1>9

LEMMA CallsKeepBuffers ==
    ASSUME RShape, RShape', BufferInv,
           \/ \E s \in Streams : queueBuffer(s) \/ queueEOS(s) \/ flush(s)
           \/ \E what \in {"pause", "resume", "start", "disable"} : Signal(what)
           \/ openAudioSink
    PROVE  BufferInv'
<1>1. UNCHANGED <<handler, mQueue, mPendingInputMessages, returned, reposted>>
  BY DEF queueBuffer, queueEOS, flush, Signal, openAudioSink, onBuffers
<1>2. ASSUME NEW s \in Streams, queueBuffer(s) PROVE BufferInv'
  <2> DEFINE m == Msg("queue", s, given[s] + 1)
  <2>1. given[s] \in Nat /\ given[s] < MaxBuffers /\ given' = [given EXCEPT ![s] = @ + 1]
    BY <1>2 DEF queueBuffer, RShape
  <2>2. messages' = Append(messages, m) BY <1>2, <2>1 DEF queueBuffer, RShape
  <2>3. m \in Message /\ m.what = "queue" /\ m.s = s /\ m.n = given[s] + 1
    BY <2>1 DEF Msg, Message, Kinds
  <2> HIDE DEF m
  <2> QED BY <1>1, <2>1, <2>2, <2>3, CallKeepsBuffers
<1>3. ASSUME NEW s \in Streams, queueEOS(s) PROVE BufferInv'
  <2>1. /\ Msg("eos", s, 0) \in Message /\ Msg("eos", s, 0).what = "eos" /\ given' = given
        /\ messages' = Append(messages, Msg("eos", s, 0))
    BY <1>3 DEF queueEOS, Msg, Message, Kinds
  <2> QED BY <1>1, <2>1, CallKeepsBuffers
<1>4. ASSUME NEW s \in Streams, flush(s) PROVE BufferInv'
  <2> DEFINE m == Msg("flush", s, given[s])
  <2>1. given[s] \in Nat /\ given' = given BY <1>4 DEF flush, onPlayer, RShape
  <2>2. messages' = Append(messages, m) BY <1>4 DEF flush
  <2>3. m \in Message /\ m.what = "flush" /\ m.n <= given[m.s]
    BY <2>1 DEF Msg, Message, Kinds
  <2> HIDE DEF m
  <2> QED BY <1>1, <2>1, <2>2, <2>3, CallKeepsBuffers
<1>5. ASSUME NEW what \in {"pause", "resume", "start", "disable"}, Signal(what) PROVE BufferInv'
  <2>1. /\ Msg(what, "audio", 0) \in Message /\ Msg(what, "audio", 0).what = what
        /\ given' = given /\ messages' = Append(messages, Msg(what, "audio", 0))
    BY <1>5 DEF Signal, Msg, Message, Kinds, Streams
  <2> QED BY <1>1, <2>1, CallKeepsBuffers
<1>6. ASSUME openAudioSink PROVE BufferInv'
  <2>1. /\ Msg("open", "audio", 0) \in Message /\ Msg("open", "audio", 0).what = "open"
        /\ given' = given /\ messages' = Append(messages, Msg("open", "audio", 0))
    BY <1>6 DEF openAudioSink, Msg, Message, Kinds, Streams
  <2> QED BY <1>1, <2>1, CallKeepsBuffers
<1> QED BY <1>2, <1>3, <1>4, <1>5, <1>6

(* The looper has handled a message that is no buffer.                     *)
LEMMA ToldLoses ==
    ASSUME HandledOne
    PROVE  MessagesLose(1)
BY DEF HandledOne, MessagesLose, Places

LEMMA AsideKeepsBuffers ==
    ASSUME RShape, RShape', BufferInv, NEW what, Handle(what), what # "queue",
           UNCHANGED <<mPendingInputMessages, returned, reposted, handler>>,
           \/ UNCHANGED mQueue
           \/ mQueue' = [mQueue EXCEPT ![Told.s] = Append(@, EOS)]
    PROVE  BufferInv'
<1> USE DEF BufferInv
<1>1. HandledOne /\ Told.what = what /\ given' = given BY HandlesOne
<1>2. Told.s \in Streams BY <1>1 DEF HandledOne, Message
<1>3. ASSUME NEW s \in Streams PROVE mQueue'[s] \in {mQueue[s], Append(mQueue[s], EOS)}
  BY <1>2 DEF RShape
<1>4. Within' BY <1>1 DEF Within
<1>5. ASSUME NEW s \in Streams, NEW n \in 1 .. MaxBuffers
      PROVE  Whole(s, n)' = IF n <= given'[s] THEN 1 ELSE 0
  <2>1. Waits(s, n)' = Waits(s, n)
    <3>1. ~Asks(Told, "queue", s) BY <1>1 DEF Asks
    <3>2. Waits(s, n)' \in Nat BY <1>4, PartsAreNatThen
    <3> QED BY <3>1, <3>2, WaitsTold
  <2>2. Parked(n)' = Parked(n) BY DEF Parked, Times
  <2>3. Times(n, mQueue'[s]) = Times(n, mQueue[s])
    <3>1. mQueue[s] \in Seq(Nat) /\ EOS \in Nat BY DEF RShape, EOS
    <3>2. n # EOS BY RendererAssumption DEF EOS
    <3>3. Times(n, Append(mQueue[s], EOS)) = Times(n, mQueue[s]) + 0 BY <3>1, <3>2, TimesAppend
    <3>4. Times(n, mQueue[s]) \in Nat BY <3>1, TimesNone
    <3>5. CASE mQueue'[s] = mQueue[s] BY <3>5
    <3>6. CASE mQueue'[s] = Append(mQueue[s], EOS) BY <3>3, <3>4, <3>6
    <3> QED BY <1>3, <3>5, <3>6
  <2>4. Times(n, mQueue[s])' = Times(n, mQueue[s]) BY <2>3 DEF Times
  <2>5. Whole(s, n)' = Whole(s, n) BY <2>1, <2>2, <2>4 DEF Whole
  <2> QED BY <1>1, <2>5 DEF Counting
<1>6. Counting' BY <1>5 DEF Counting
<1>7. Parking' BY <1>1 DEF Parking, Shuffled
<1>8. ASSUME NEW s \in Streams PROVE Order(s)'
  <2>1. CASE mQueue'[s] = mQueue[s]
    <3>1. QueueLoses(s, 0) BY <2>1, UnmovedQueue
    <3> QED BY <1>1, <3>1, ToldLoses, OrderShifts
  <2>2. CASE mQueue'[s] = Append(mQueue[s], EOS)
    <3>1. EOS \in Nat BY DEF EOS
    <3> QED BY <1>1, <2>2, <3>1, OrderQueued
  <2> QED BY <1>3, <2>1, <2>2
<1> QED BY <1>4, <1>6, <1>7, <1>8

LEMMA ToldIsGiven ==
    ASSUME RShape, BufferInv, HandledOne, Told.what = "queue"
    PROVE  Told.s \in Streams /\ Told.n \in 1 .. given[Told.s] /\ Told.n \in 1 .. MaxBuffers
<1>1. Told.s \in Streams /\ Told.n \in Nat /\ Told = messages[1] /\ 1 \in Places
  BY DEF HandledOne, Message, Places
<1>2. Order(Told.s) /\ given[Told.s] \in Nat /\ given[Told.s] <= MaxBuffers
  BY <1>1 DEF BufferInv, RShape, Within
<1>3. Told.n <= given[Told.s] /\ Told.n # EOS BY <1>1, <1>2 DEF Order, Numbered, Asks
<1> QED BY <1>1, <1>2, <1>3, RendererAssumption DEF EOS

(* A buffer goes back, or is at the end of its queue.                      *)
LEMMA QueuedKeepsBuffers == ASSUME RShape, RShape', BufferInv, onQueueBuffer PROVE BufferInv'
<1> USE DEF BufferInv
<1>1. /\ Handle("queue")
      /\ UNCHANGED <<mPendingInputMessages, reposted, handler>>
      /\ \/ Consume(Told.s, {Told.n}) /\ UNCHANGED mQueue
         \/ mQueue' = [mQueue EXCEPT ![Told.s] = Append(@, Told.n)] /\ UNCHANGED returned
  BY DEF onQueueBuffer
<1>2. HandledOne /\ Told.what = "queue" /\ given' = given /\ MessagesLose(1) /\ handler = Idle
  BY <1>1, HandlesOne, ToldLoses
<1>3. Told.s \in Streams /\ Told.n \in 1 .. MaxBuffers /\ Told.n \in Nat
  BY <1>2, ToldIsGiven, RendererAssumption
<1>4. /\ Within'
      /\ \A s \in Streams, n \in 1 .. MaxBuffers :
            Times(n, mQueue'[s]) + returned'[s][n]
               = Times(n, mQueue[s]) + returned[s][n] + IF Told.s = s /\ Told.n = n THEN 1 ELSE 0
      /\ \A s \in Streams, n \in 1 .. MaxBuffers : returned[s][n] <= returned'[s][n]
      /\ \A s \in Streams : Order(s)'
  <2>0. \A s \in Streams, n \in 1 .. MaxBuffers :
           returned[s][n] \in Nat /\ Times(n, mQueue[s]) \in Nat
    BY PartsAreNat
  <2>1. CASE Consume(Told.s, {Told.n}) /\ UNCHANGED mQueue
    <3>1. /\ returned' \in [Streams -> [1 .. MaxBuffers -> Nat]]
          /\ \A n \in 1 .. MaxBuffers :
                returned'[Told.s][n] = returned[Told.s][n] + IF n \in {Told.n} THEN 1 ELSE 0
          /\ \A t \in Streams \ {Told.s} : returned'[t] = returned[t]
      BY <1>3, <2>1, Consumed
    <3>2. Within' BY <1>2, <3>1 DEF Within
    <3>3. \A s \in Streams, n \in 1 .. MaxBuffers :
             returned'[s][n] = returned[s][n] + IF Told.s = s /\ Told.n = n THEN 1 ELSE 0
      BY <2>0, <3>1
    <3>4. \A s \in Streams : Order(s)'
      <4>1. \A s \in Streams : QueueLoses(s, 0) BY <2>1, UnmovedQueue
      <4> QED BY <1>1, <1>2, <4>1, OrderShifts
    <3> QED BY <2>0, <2>1, <3>2, <3>3, <3>4
  <2>2. CASE mQueue' = [mQueue EXCEPT ![Told.s] = Append(@, Told.n)] /\ UNCHANGED returned
    <3>1. /\ mQueue'[Told.s] = Append(mQueue[Told.s], Told.n)
          /\ \A t \in Streams \ {Told.s} : mQueue'[t] = mQueue[t]
          /\ \A t \in Streams : mQueue[t] \in Seq(Nat)
      BY <1>3, <2>2 DEF RShape
    <3>2. Within' BY <1>2, <2>2 DEF Within
    <3>3. \A s \in Streams, n \in 1 .. MaxBuffers :
             Times(n, mQueue'[s]) = Times(n, mQueue[s])
                                      + IF Told.s = s /\ Told.n = n THEN 1 ELSE 0
      <4>1. \A n \in 1 .. MaxBuffers :
               Times(n, mQueue'[Told.s]) = Times(n, mQueue[Told.s]) + IF n = Told.n THEN 1 ELSE 0
        BY <1>3, <3>1, TimesAppend
      <4>2. ASSUME NEW s \in Streams \ {Told.s}, NEW n \in 1 .. MaxBuffers
            PROVE  Times(n, mQueue'[s]) = Times(n, mQueue[s]) + 0
        <5>1. mQueue'[s] = mQueue[s] /\ Times(n, mQueue[s]) \in Nat BY <2>0, <3>1
        <5> QED BY <5>1
      <4>3. ASSUME NEW s \in Streams, NEW n \in 1 .. MaxBuffers
            PROVE  Times(n, mQueue'[s]) = Times(n, mQueue[s])
                                            + IF Told.s = s /\ Told.n = n THEN 1 ELSE 0
        <5>1. CASE s = Told.s BY <4>1, <5>1
        <5>2. CASE s # Told.s BY <4>2, <5>2
        <5> QED BY <5>1, <5>2
      <4> QED BY <4>3
    <3>4. ASSUME NEW s \in Streams PROVE Order(s)'
      <4>1. CASE s = Told.s
        <5>1. Asks(Told, "queue", s) BY <1>2, <4>1 DEF Asks
        <5> QED BY <1>1, <1>2, <1>3, <3>1, <4>1, <5>1, OrderQueued
      <4>2. CASE s # Told.s
        <5>1. QueueLoses(s, 0) BY <3>1, <4>2, UnmovedQueue
        <5> QED BY <1>1, <1>2, <5>1, OrderShifts
      <4> QED BY <4>1, <4>2
    <3>5. \A s \in Streams, n \in 1 .. MaxBuffers : returned[s][n] <= returned'[s][n]
      BY <2>0, <2>2
    <3> QED BY <2>0, <2>2, <3>2, <3>3, <3>4, <3>5
  <2> QED BY <1>1, <2>1, <2>2
<1>5. ASSUME NEW s \in Streams, NEW n \in 1 .. MaxBuffers
      PROVE  Whole(s, n)' = IF n <= given'[s] THEN 1 ELSE 0
  <2> DEFINE one == IF Told.s = s /\ Told.n = n THEN 1 ELSE 0
  <2>1. Waits(s, n) = Waits(s, n)' + one BY <1>1, <1>2, WaitsTold DEF Asks
  <2>2. Times(n, mQueue'[s]) + returned'[s][n] = Times(n, mQueue[s]) + returned[s][n] + one
    BY <1>4
  <2>3. /\ Waits(s, n)' \in Nat /\ Times(n, mQueue[s])' \in Nat /\ returned'[s][n] \in Nat
    BY <1>4, PartsAreNatThen
  <2>4. /\ Waits(s, n) \in Nat /\ Times(n, mQueue[s]) \in Nat /\ returned[s][n] \in Nat
        /\ Parked(n) \in Nat
    BY PartsAreNat
  <2>5. Parked(n)' = Parked(n) BY <1>1 DEF Parked, Times
  <2>6. one \in Nat OBVIOUS
  <2> HIDE DEF one
  <2>7. Whole(s, n)' = Whole(s, n) BY <2>1, <2>2, <2>3, <2>4, <2>5, <2>6 DEF Whole
  <2> QED BY <1>2, <2>7 DEF Counting
<1>6. Counting' BY <1>5 DEF Counting
<1>7. Parking'
  <2>1. \A t \in Streams : given[t] <= given'[t] BY <1>2 DEF RShape
  <2>2. mPendingInputMessages' \in {mPendingInputMessages, <<>>} BY <1>1
  <2> QED BY <1>1, <1>2, <1>4, <1>6, <2>1, <2>2, ParkingStays
<1> QED BY <1>4, <1>6, <1>7

LEMMA TestKeepsBuffers == ASSUME RShape, RShape', BufferInv, TestStarted PROVE BufferInv'
<1> USE DEF BufferInv
<1>1. /\ Handle("queue") /\ Told.s = "video" /\ handler'.at = "park" /\ handler'.n = Told.n
      /\ UNCHANGED <<mQueue, mPendingInputMessages, returned, reposted>>
  BY DEF TestStarted, onBuffers
<1>2. HandledOne /\ Told.what = "queue" /\ given' = given /\ MessagesLose(1) /\ handler = Idle
  BY <1>1, HandlesOne, ToldLoses
<1>3. Told.n \in 1 .. given["video"] BY <1>1, <1>2, ToldIsGiven
<1>4. Within' BY <1>1, <1>2 DEF Within
<1>5. ASSUME NEW s \in Streams, NEW n \in 1 .. MaxBuffers
      PROVE  Whole(s, n)' = IF n <= given'[s] THEN 1 ELSE 0
  <2> DEFINE one == IF "video" = s /\ Told.n = n THEN 1 ELSE 0
             held == IF Told.n = n THEN 1 ELSE 0
  <2>1. Waits(s, n) = Waits(s, n)' + one BY <1>1, <1>2, WaitsTold DEF Asks
  <2>2. Parked(n) = Times(n, mPendingInputMessages) + 0 BY <1>2 DEF Parked, Idle
  <2>3. Parked(n)' = Times(n, mPendingInputMessages) + held BY <1>1 DEF Parked, Times
  <2>4. s = "video" => one = held OBVIOUS
  <2>5. s # "video" => one = 0 OBVIOUS
  <2>6. one \in Nat /\ held \in Nat OBVIOUS
  <2>7. Waits(s, n)' \in Nat BY <1>4, PartsAreNatThen
  <2>8. /\ Times(n, mQueue[s]) \in Nat /\ returned[s][n] \in Nat /\ Waits(s, n) \in Nat
    BY PartsAreNat
  <2>9. Times(n, mPendingInputMessages) \in Nat BY TimesNone DEF RShape
  <2>10. Times(n, mQueue[s])' = Times(n, mQueue[s]) /\ returned'[s][n] = returned[s][n]
    BY <1>1 DEF Times
  <2> HIDE DEF one, held
  <2>11. CASE s = "video"
    BY <2>1, <2>2, <2>3, <2>4, <2>6, <2>7, <2>8, <2>9, <2>10, <2>11, <1>2 DEF Whole, Counting
  <2>12. CASE s # "video"
    <3>1. Waits(s, n)' = Waits(s, n) BY <2>1, <2>5, <2>7, <2>8, <2>12
    <3>2. Whole(s, n)' = Whole(s, n) BY <2>10, <2>12, <3>1 DEF Whole
    <3> QED BY <1>2, <3>2 DEF Counting
  <2> QED BY <2>11, <2>12
<1>6. Counting' BY <1>5 DEF Counting
<1>7. Parking' BY <1>1, <1>2, <1>3 DEF Parking
<1>8. ASSUME NEW s \in Streams PROVE Order(s)'
  <2>1. QueueLoses(s, 0) BY <1>1, UnmovedQueue
  <2> QED BY <1>1, <1>2, <2>1, OrderShifts
<1> QED BY <1>4, <1>6, <1>7, <1>8

(* Between two messages: a buffer is parked, or the last flags are cleared.*)
LEMMA BetweenKeepsBuffers ==
    ASSUME RShape, RShape', BufferInv, Park \/ FlushComplete
    PROVE  BufferInv'
<1> USE DEF BufferInv
<1>1. /\ UNCHANGED <<messages, mQueue, returned, reposted, given>> /\ handler' = Idle
      /\ \/ handler.at = "park" /\ mPendingInputMessages' = Append(mPendingInputMessages, handler.n)
         \/ handler.at = "flushed" /\ mPendingInputMessages' = mPendingInputMessages
  BY DEF Park, FlushComplete, onBuffers, onPlayer
<1>2. mPendingInputMessages \in Seq(Nat) /\ handler.n \in Nat BY DEF RShape
<1>3. Within' BY <1>1 DEF Within
<1>4. ASSUME NEW s \in Streams, NEW n \in 1 .. MaxBuffers
      PROVE  Whole(s, n)' = IF n <= given'[s] THEN 1 ELSE 0
  <2>1. Parked(n)' = Times(n, mPendingInputMessages') + 0 BY <1>1 DEF Parked, Times, Idle
  <2>2. Times(n, mPendingInputMessages) \in Nat BY <1>2, TimesNone
  <2>3. Parked(n)' = Parked(n)
    <3>1. CASE handler.at = "flushed" BY <1>1, <2>1, <2>2, <3>1 DEF Parked
    <3>2. CASE handler.at = "park"
      <4>1. Times(n, mPendingInputMessages')
               = Times(n, mPendingInputMessages) + IF n = handler.n THEN 1 ELSE 0
        <5>1. mPendingInputMessages' = Append(mPendingInputMessages, handler.n) BY <1>1, <3>2
        <5> QED BY <1>2, <5>1, TimesAppend
      <4>2. Parked(n) = Times(n, mPendingInputMessages) + IF n = handler.n THEN 1 ELSE 0
        BY <3>2 DEF Parked
      <4> QED BY <2>1, <2>2, <4>1, <4>2
    <3> QED BY <1>1, <3>1, <3>2
  <2>4. Waits(s, n)' = Waits(s, n) /\ Times(n, mQueue[s])' = Times(n, mQueue[s])
    BY <1>1 DEF Waits, Times
  <2>5. Whole(s, n)' = Whole(s, n) BY <1>1, <2>3, <2>4 DEF Whole
  <2> QED BY <1>1, <2>5 DEF Counting
<1>5. Counting' BY <1>4 DEF Counting
<1>6. Parking'
  <2>1. \A i \in 1 .. Len(mPendingInputMessages') :
           mPendingInputMessages'[i] \in 1 .. given["video"]
    <3>1. CASE handler.at = "flushed" BY <1>1, <3>1 DEF Parking
    <3>2. CASE handler.at = "park"
      <4>1. handler.n \in 1 .. given["video"] BY <3>2 DEF Parking
      <4>2. \A i \in 1 .. Len(mPendingInputMessages) :
               mPendingInputMessages[i] \in 1 .. given["video"]
        BY DEF Parking
      <4>3. mPendingInputMessages' = Append(mPendingInputMessages, handler.n) BY <1>1, <3>2
      <4>4. Len(mPendingInputMessages') = Len(mPendingInputMessages) + 1 BY <1>2, <4>3
      <4>5. ASSUME NEW i \in 1 .. Len(mPendingInputMessages')
            PROVE  mPendingInputMessages'[i] \in 1 .. given["video"]
        <5>1. CASE i = Len(mPendingInputMessages) + 1 BY <1>2, <4>1, <4>3, <5>1
        <5>2. CASE i # Len(mPendingInputMessages) + 1
          <6>1. i \in 1 .. Len(mPendingInputMessages) BY <1>2, <4>4, <5>2
          <6>2. mPendingInputMessages'[i] = mPendingInputMessages[i] BY <1>2, <4>3, <6>1
          <6> QED BY <4>2, <6>1, <6>2
        <5> QED BY <5>1, <5>2
      <4> QED BY <4>5
    <3> QED BY <1>1, <3>1, <3>2
  <2> QED BY <1>1, <2>1 DEF Parking, Idle
<1>7. ASSUME NEW s \in Streams PROVE Order(s)'
  <2>1. QueueLoses(s, 0) BY <1>1, UnmovedQueue
  <2>2. MessagesLose(0) BY <1>1 DEF MessagesLose, Places
  <2> QED BY <1>1, <2>1, <2>2, OrderShifts
<1> QED BY <1>3, <1>5, <1>6, <1>7

(* A flush returns what was queued before it was called.                   *)
LEMMA FlushedKeepsBuffers ==
    ASSUME RShape, RShape', BufferInv, onFlush, NEW s \in Streams, s = Told.s
    PROVE  BufferInv'
<1> USE DEF BufferInv
<1> DEFINE parked == IF s = "video" THEN mPendingInputMessages ELSE <<>>
           all == mQueue[s] \o parked
<1>1. /\ Handle("flush") /\ Consume(s, BuffersOf(all)) /\ mQueue' = [mQueue EXCEPT ![s] = <<>>]
      /\ mPendingInputMessages' = IF s = "video" THEN <<>> ELSE mPendingInputMessages
      /\ handler'.at = "flushed" /\ handler'.s = s /\ handler'.n = Told.n
      /\ reposted' = reposted
  BY DEF onFlush
<1>2. HandledOne /\ Told.what = "flush" /\ given' = given /\ MessagesLose(1) /\ handler = Idle
  BY <1>1, HandlesOne, ToldLoses
<1>3. /\ s \in Streams /\ Told.n \in Nat /\ Told = messages[1]
      /\ Order(s) /\ given[s] \in Nat /\ given[s] <= MaxBuffers /\ MaxBuffers \in Nat
      /\ mQueue[s] \in Seq(Nat) /\ parked \in Seq(Nat)
  <2>1. Told.n \in Nat /\ Told = messages[1] BY <1>2 DEF HandledOne, Message
  <2>2. mPendingInputMessages \in Seq(Nat) /\ <<>> \in Seq(Nat) BY DEF RShape
  <2>3. parked \in Seq(Nat) BY <2>2
  <2>4. given[s] \in Nat /\ given[s] <= MaxBuffers /\ mQueue[s] \in Seq(Nat) BY DEF RShape, Within
  <2> QED BY <2>1, <2>3, <2>4, RendererAssumption
<1> HIDE DEF parked
<1>4. /\ returned' \in [Streams -> [1 .. MaxBuffers -> Nat]]
      /\ \A n \in 1 .. MaxBuffers :
            returned'[s][n] = returned[s][n] + IF n \in BuffersOf(all) THEN 1 ELSE 0
      /\ \A t \in Streams \ {s} : returned'[t] = returned[t]
  BY <1>1, <1>3, Consumed
<1>5. Within' BY <1>2, <1>4 DEF Within
<1>6. /\ mQueue'[s] = <<>> /\ \A t \in Streams \ {s} : mQueue'[t] = mQueue[t]
  BY <1>1, <1>3 DEF RShape
<1>7. \A x : Times(x, <<>>) = 0
  <2>1. \A x : {i \in DOMAIN <<>> : <<>>[i] = x} = {} OBVIOUS
  <2> QED BY <2>1, FS_EmptySet DEF Times
<1>8. ASSUME NEW n \in 1 .. MaxBuffers PROVE Parked(n) = Times(n, mPendingInputMessages)
  <2>1. Times(n, mPendingInputMessages) \in Nat BY TimesNone DEF RShape
  <2> QED BY <1>2, <2>1 DEF Parked, Idle
<1>9. ASSUME NEW n \in 1 .. MaxBuffers
      PROVE  Parked(n)' = IF s = "video" THEN 0 ELSE Parked(n)
  <2>1. Parked(n)' = Times(n, mPendingInputMessages') + 0 BY <1>1 DEF Parked, Times
  <2>2. Times(n, mPendingInputMessages) \in Nat BY TimesNone DEF RShape
  <2> QED BY <1>1, <1>7, <1>8, <2>1, <2>2
<1>10. ASSUME NEW n \in 1 .. MaxBuffers
       PROVE  /\ returned'[s][n] = returned[s][n] + Times(n, mQueue[s])
                                     + IF s = "video" THEN Parked(n) ELSE 0
              /\ Waits(s, n)' = Waits(s, n)
  <2>1. /\ Waits(s, n) \in Nat /\ Times(n, mQueue[s]) \in Nat /\ returned[s][n] \in Nat
        /\ Parked(n) \in Nat
    BY <1>3, PartsAreNat
  <2>2. Times(n, all) = Times(n, mQueue[s]) + Times(n, parked) BY <1>3, TimesJoin
  <2>3. Times(n, parked) = IF s = "video" THEN Parked(n) ELSE 0 BY <1>7, <1>8 DEF parked
  <2>4. Times(n, all) <= 1
    <3>1. Whole(s, n) <= 1 BY <1>3 DEF Counting
    <3> QED BY <2>1, <2>2, <2>3, <3>1 DEF Whole
  <2>5. n \in BuffersOf(all) <=> Times(n, all) # 0
    <3>1. all \in Seq(Nat) BY <1>3
    <3> HIDE DEF all
    <3>2. n # EOS BY <1>3 DEF EOS
    <3>3. n \in BuffersOf(all) <=> \E i \in 1 .. Len(all) : all[i] = n
      BY <3>1, <3>2 DEF BuffersOf
    <3> QED BY <3>1, <3>3, TimesNone
  <2>6. Times(n, all) \in Nat BY <2>1, <2>2, <2>3
  <2>7. returned'[s][n] = returned[s][n] + Times(n, all)
    <3> HIDE DEF all
    <3>1. returned'[s][n] = returned[s][n] + IF n \in BuffersOf(all) THEN 1 ELSE 0
      BY <1>4
    <3> QED BY <2>1, <2>4, <2>5, <2>6, <3>1
  <2>8. Waits(s, n)' = Waits(s, n)
    <3>1. ~Asks(Told, "queue", s) BY <1>2 DEF Asks
    <3>2. Waits(s, n)' \in Nat BY <1>3, <1>5, PartsAreNatThen
    <3> QED BY <1>1, <1>3, <3>1, <3>2, WaitsTold
  <2> QED BY <2>1, <2>2, <2>3, <2>7, <2>8
<1>11. ASSUME NEW t \in Streams, NEW n \in 1 .. MaxBuffers
       PROVE  Whole(t, n)' = IF n <= given'[t] THEN 1 ELSE 0
  <2>1. /\ Waits(t, n) \in Nat /\ Times(n, mQueue[t]) \in Nat /\ returned[t][n] \in Nat
        /\ Parked(n) \in Nat
    BY PartsAreNat
  <2>2. Whole(t, n)' = Waits(t, n)' + Times(n, mQueue'[t]) + returned'[t][n]
                         + IF t = "video" THEN Parked(n)' ELSE 0
    BY DEF Whole, Times
  <2>3. CASE t = s
    <3> DEFINE kept == IF s = "video" THEN Parked(n) ELSE 0
    <3>1. Whole(t, n)' = Whole(t, n)
      <4>1. /\ Waits(t, n)' = Waits(t, n)
            /\ returned'[t][n] = returned[t][n] + Times(n, mQueue[t]) + kept
        BY <1>10, <2>3
      <4>2. Times(n, mQueue'[t]) = 0 /\ (t = "video" => Parked(n)' = 0) BY <1>6, <1>7, <1>9, <2>3
      <4>3. kept \in Nat /\ kept = IF t = "video" THEN Parked(n) ELSE 0 BY <2>1, <2>3
      <4> HIDE DEF kept
      <4>4. Whole(t, n)' = Waits(t, n) + 0 + (returned[t][n] + Times(n, mQueue[t]) + kept) + 0
        BY <2>2, <4>1, <4>2
      <4>5. Whole(t, n) = Waits(t, n) + Times(n, mQueue[t]) + returned[t][n] + kept
        BY <4>3 DEF Whole
      <4> QED BY <2>1, <4>3, <4>4, <4>5
    <3> QED BY <1>2, <3>1 DEF Counting
  <2>4. CASE t # s
    <3>1. Waits(t, n)' = Waits(t, n)
      <4>1. ~Asks(Told, "queue", t) BY <1>2 DEF Asks
      <4>2. Waits(t, n)' \in Nat BY <1>5, PartsAreNatThen
      <4> QED BY <1>1, <4>1, <4>2, WaitsTold
    <3>2. t = "video" => Parked(n)' = Parked(n) BY <1>9, <2>4
    <3>3. Whole(t, n)' = Whole(t, n) BY <1>4, <1>6, <2>2, <2>4, <3>1, <3>2 DEF Whole
    <3> QED BY <1>2, <3>3 DEF Counting
  <2> QED BY <2>3, <2>4
<1>12. Counting' BY <1>11 DEF Counting
<1>13. ASSUME NEW t \in Streams PROVE Order(t)'
  <2>1. CASE t # s
    <3>1. QueueLoses(t, 0) BY <1>6, <2>1, UnmovedQueue
    <3> QED BY <1>1, <1>2, <3>1, OrderShifts
  <2>2. CASE t = s
    <3>1. QueueLoses(t, 0) BY <1>6, <2>2 DEF QueueLoses
    <3> QED BY <1>1, <1>2, <3>1, OrderShifts
  <2> QED BY <2>1, <2>2
<1>14. Told.n <= given[s]
  <2>1. Numbered(messages[1], s) /\ 1 \in Places
    BY <1>2, <1>3 DEF Numbered, HandledOne, Places
  <2> QED BY <1>3, <2>1 DEF Order
<1>15. ASSUME NEW n \in 1 .. Told.n
       PROVE  returned'[s][n] = 1 \/ (s = "video" /\ n \in reposted)
  <2>1. n \in 1 .. MaxBuffers /\ n <= given'[s] BY <1>2, <1>3, <1>14
  <2>2. CASE \A i \in 1 .. Len(messages') : messages'[i] # Msg("queue", s, n)
    <3>1. Waits(s, n)' = 0
      <4>1. Waits(s, n)' = Times(Msg("queue", s, n), messages') BY DEF Waits, Times
      <4>2. messages' \in Seq(Message) BY DEF RShape
      <4> QED BY <2>2, <4>1, <4>2, TimesNone
    <3>2. Times(n, mQueue'[s]) = 0 /\ (s = "video" => Parked(n)' = 0)
      BY <1>6, <1>7, <1>9, <2>1
    <3>3. Whole(s, n)' = returned'[s][n]
      <4>1. returned'[s][n] \in Nat BY <1>3, <2>1, <1>5, PartsAreNatThen
      <4>2. Whole(s, n)' = Waits(s, n)' + Times(n, mQueue'[s]) + returned'[s][n]
                             + IF s = "video" THEN Parked(n)' ELSE 0
        BY <1>3 DEF Whole, Times
      <4> QED BY <3>1, <3>2, <4>1, <4>2
    <3> QED BY <1>3, <1>11, <2>1, <3>3
  <2>3. CASE \E i \in 1 .. Len(messages') : messages'[i] = Msg("queue", s, n)
    <3>1. PICK i \in Places' : messages'[i] = Msg("queue", s, n) BY <2>3 DEF Places
    <3>2. messages[i + 1] = Msg("queue", s, n) /\ i + 1 \in Places /\ 1 \in Places /\ 1 < i + 1
      BY <1>2, <3>1 DEF HandledOne, Places
    <3>3. /\ Asks(messages[i + 1], "queue", s) /\ messages[i + 1].n = n
          /\ Numbered(messages[1], s)
      BY <1>2, <1>3, <3>2 DEF Asks, Numbered, Msg
    <3>4. Later(s, Told.n, n) BY <1>3, <3>2, <3>3 DEF Order
    <3> QED BY <1>3, <3>4 DEF Later, Shuffled
  <2> QED BY <2>2, <2>3
<1>16. Parking'
  <2>1. \A i \in 1 .. Len(mPendingInputMessages') :
           mPendingInputMessages'[i] \in 1 .. given'["video"]
    <3>1. CASE mPendingInputMessages' = mPendingInputMessages BY <1>2, <3>1 DEF Parking
    <3>2. CASE mPendingInputMessages' = <<>> BY <3>2
    <3> QED BY <1>1, <3>1, <3>2
  <2> QED BY <1>1, <1>2, <1>14, <1>15, <2>1 DEF Parking, Shuffled
<1> QED BY <1>5, <1>12, <1>13, <1>16

LEMMA FillKeepsBuffers ==
    ASSUME DrainInv, RShape', BufferInv, fillAudioBuffer
    PROVE  BufferInv'
<1> USE DEF BufferInv
<1> DEFINE parked == IF Lead > 0 THEN mPendingInputMessages ELSE <<>>
<1>1. /\ UNCHANGED <<handler, given>> /\ reposted' = reposted \cup BuffersOf(parked)
      /\ mPendingInputMessages' = IF Lead > 0 THEN <<>> ELSE mPendingInputMessages
      /\ \E k \in 0 .. Lead : \E end \in {0, 1} : TakeAudio(k, end)
  <2>1. Lead \in 0 .. Lead
    <3>1. Lead \in Nat BY LeadIsWithin DEF DrainInv
    <3> QED BY <3>1
  <2> QED BY <2>1 DEF fillAudioBuffer, onPlayer
<1>2. RShape /\ NothingAfterEnd /\ "audio" \in Streams /\ "video" \in Streams
  BY DEF DrainInv, Streams
<1>3. PICK k \in 0 .. Lead, end \in {0, 1} : TakeAudio(k, end) BY <1>1
<1>4. Taken("audio", k, end) /\ k \in Nat BY <1>2, <1>3, AudioIsTaken
<1>5. /\ Within' /\ QueueLoses("audio", k + end) /\ QueueLoses("video", 0)
      /\ \A t \in Streams, n \in 1 .. MaxBuffers :
            /\ Times(n, mQueue'[t]) + returned'[t][n] = Times(n, mQueue[t]) + returned[t][n]
            /\ returned[t][n] <= returned'[t][n]
  BY <1>1, <1>2, <1>4, TakenCounts DEF Streams
<1>6. /\ Sent
      /\ \A i \in New : \/ messages'[i].what = "stop"
                        \/ \E p \in 1 .. Len(parked) :
                              messages'[i] = Msg("queue", "video", parked[p])
      /\ \A s \in Streams, n \in Nat :
            Waits(s, n)' = Waits(s, n) + IF s = "video" THEN Times(n, parked) ELSE 0
  BY <1>2, FillSends
<1>7. /\ parked \in Seq(Nat) /\ mPendingInputMessages \in Seq(Nat)
      /\ \A p \in 1 .. Len(parked) : parked[p] \in 1 .. given["video"]
      /\ mPendingInputMessages' \in {mPendingInputMessages, <<>>}
  <2>1. mPendingInputMessages \in Seq(Nat) /\ <<>> \in Seq(Nat) BY <1>2 DEF RShape
  <2> QED BY <1>1, <2>1 DEF Parking
<1>8. \A x : Times(x, <<>>) = 0
  <2>1. \A x : {i \in DOMAIN <<>> : <<>>[i] = x} = {} OBVIOUS
  <2> QED BY <2>1, FS_EmptySet DEF Times
<1>9. ASSUME NEW n \in 1 .. MaxBuffers PROVE Parked(n) = Parked(n)' + Times(n, parked)
  <2> DEFINE held == IF handler.at = "park" /\ handler.n = n THEN 1 ELSE 0
  <2>1. Parked(n) = Times(n, mPendingInputMessages) + held BY DEF Parked
  <2>2. Parked(n)' = Times(n, mPendingInputMessages') + held BY <1>1 DEF Parked, Times
  <2>3. Times(n, mPendingInputMessages) \in Nat /\ held \in Nat BY <1>7, TimesNone
  <2> HIDE DEF held
  <2>4. CASE Lead > 0 BY <1>1, <1>8, <2>1, <2>2, <2>3, <2>4
  <2>5. CASE ~(Lead > 0) BY <1>1, <1>8, <2>1, <2>2, <2>3, <2>5
  <2> QED BY <2>4, <2>5
<1> HIDE DEF parked
<1>10. ASSUME NEW t \in Streams, NEW n \in 1 .. MaxBuffers
       PROVE  Whole(t, n)' = IF n <= given'[t] THEN 1 ELSE 0
  <2>1. /\ Waits(t, n) \in Nat /\ Times(n, mQueue[t]) \in Nat /\ returned[t][n] \in Nat
        /\ Parked(n) \in Nat
    BY <1>2, PartsAreNat
  <2>2. /\ Waits(t, n)' \in Nat /\ Times(n, mQueue[t])' \in Nat /\ returned'[t][n] \in Nat
        /\ Parked(n)' \in Nat
    BY <1>5, PartsAreNatThen
  <2>3. Waits(t, n)' = Waits(t, n) + IF t = "video" THEN Times(n, parked) ELSE 0
    BY <1>6, RendererAssumption
  <2>4. Times(n, mQueue[t])' + returned'[t][n] = Times(n, mQueue[t]) + returned[t][n]
    BY <1>5 DEF Times
  <2>5. Parked(n) = Parked(n)' + Times(n, parked) /\ Times(n, parked) \in Nat
    BY <1>7, <1>9, TimesNone
  <2>6. CASE t = "video"
    <3>1. Whole(t, n)' = Whole(t, n) BY <2>1, <2>2, <2>3, <2>4, <2>5, <2>6 DEF Whole
    <3> QED BY <1>1, <3>1 DEF Counting
  <2>7. CASE t # "video"
    <3>1. Whole(t, n)' = Whole(t, n) BY <2>1, <2>2, <2>3, <2>4, <2>7 DEF Whole
    <3> QED BY <1>1, <3>1 DEF Counting
  <2> QED BY <2>6, <2>7
<1>11. Counting' BY <1>10 DEF Counting
<1>12. Parking'
  <2>1. \A t \in Streams : given[t] <= given'[t] BY <1>1, <1>2 DEF RShape
  <2> QED BY <1>1, <1>2, <1>5, <1>7, <1>11, <2>1, ParkingStays
<1>13. ASSUME NEW s \in Streams PROVE Order(s)'
  <2>1. given[s] \in Nat /\ given'[s] = given[s] /\ given["video"] \in Nat BY <1>1, <1>2 DEF RShape
  <2>2. ASSUME NEW i \in New, messages'[i].what \in {"queue", "flush"}
        PROVE  /\ messages'[i].s = "video" /\ messages'[i].n \in 1 .. given["video"]
               /\ messages'[i].n \in reposted'
    <3>1. PICK p \in 1 .. Len(parked) : messages'[i] = Msg("queue", "video", parked[p])
      BY <1>6, <2>2
    <3>2. messages'[i].s = "video" /\ messages'[i].n = parked[p] BY <3>1 DEF Msg
    <3>3. parked[p] \in BuffersOf(parked)
      <4>1. parked[p] # EOS /\ p \in DOMAIN parked BY <1>7, <2>1 DEF EOS
      <4> QED BY <4>1 DEF BuffersOf
    <3> QED BY <1>1, <1>7, <3>2, <3>3
  <2>3. \A i \in New : Numbered(messages'[i], s) => messages'[i].n <= given'[s]
    BY <2>1, <2>2 DEF Numbered
  <2>4. \A i \in New : Asks(messages'[i], "queue", s) =>
           /\ messages'[i].n # EOS
           /\ \/ s = "video" /\ messages'[i].n \in reposted'
              \/ New = {i} /\ given[s] < messages'[i].n
    BY <2>1, <2>2 DEF Asks, EOS
  <2>5. given'[s] \in Nat /\ given[s] <= given'[s] /\ reposted \subseteq reposted' BY <1>1, <2>1
  <2>6. \E a \in Nat : QueueLoses(s, a)
    <3>1. k + end \in Nat BY <1>4
    <3> QED BY <1>5, <3>1 DEF Streams
  <2> QED BY <1>2, <1>6, <2>3, <2>4, <2>5, <2>6, OrderSent
<1> QED BY <1>5, <1>11, <1>12, <1>13

----------------------------------------------------------------------------
LEMMA BufferInvNext ==
    DrainInv /\ DrainInv' /\ BufferInv /\ [RendererNext]_rendervars => BufferInv'
<1> SUFFICES ASSUME DrainInv, DrainInv', BufferInv, [RendererNext]_rendervars
             PROVE  BufferInv'
  OBVIOUS
<1>0. RShape /\ RShape' BY DEF DrainInv
<1>1. CASE UNCHANGED rendervars
  BY <1>1, BuffersStay DEF rendervars, onBuffers, onPlayer
<1>2. CASE \/ \E s \in Streams : queueBuffer(s) \/ queueEOS(s) \/ flush(s)
           \/ \E what \in {"pause", "resume", "start", "disable"} : Signal(what)
           \/ openAudioSink
  BY <1>0, <1>2, CallsKeepBuffers
<1>3. CASE \E d \in drains : DropStale(d) \/ onDrainAudioQueue(d) \/ NoPosition(d)
                             \/ onDrainVideoQueue(d)
  BY <1>0, <1>3, DrainsKeepBuffers
<1>4. CASE onQueueBuffer \/ TestStarted \/ Park \/ FlushComplete
  BY <1>0, <1>4, QueuedKeepsBuffers, TestKeepsBuffers, BetweenKeepsBuffers
<1>5. CASE onFlush
  <2>1. Told.s \in Streams
    <3>1. HandledOne BY <1>0, <1>5, HandlesOne DEF onFlush
    <3> QED BY <3>1 DEF HandledOne, Message
  <2>2. PICK s \in Streams : s = Told.s BY <2>1
  <2> QED BY <1>0, <1>5, <2>2, FlushedKeepsBuffers
<1>6. CASE onQueueEOS
  BY <1>0, <1>6, AsideKeepsBuffers DEF onQueueEOS
<1>7. CASE onPause \/ onResume \/ onStartAudioSink \/ onStopAudioSink
           \/ onDisableOffloadAudio \/ onOpenAudioSink
  <2>1. PICK what \in {"pause", "resume", "start", "stop", "disable", "open"} : Handle(what)
    BY <1>7 DEF onPause, onResume, onStartAudioSink, onStopAudioSink, onDisableOffloadAudio,
                onOpenAudioSink
  <2>2. UNCHANGED <<mQueue, mPendingInputMessages, returned, reposted, handler>>
    BY <1>7 DEF onPause, onResume, onStartAudioSink, onStopAudioSink, onDisableOffloadAudio,
                onOpenAudioSink, onBuffers
  <2> QED BY <1>0, <2>1, <2>2, AsideKeepsBuffers
<1>8. CASE fillAudioBuffer BY <1>0, <1>8, FillKeepsBuffers
<1> QED BY <1>1, <1>2, <1>3, <1>4, <1>5, <1>6, <1>7, <1>8 DEF RendererNext

(* NuPlayerRenderer.cpp: for any number of buffers and requests, each that *)
(* a decoder gave is on its way, parked, queued or back with the decoder,  *)
(* in one of these and once; queues stay in order, and a flush returns all *)
(* that were queued before it was called, but for those parked and sent a  *)
(* second time.                                                            *)
THEOREM BuffersAllComeBack == RendererSpec => []BuffersComeBack
<1>1. RendererSpec => []DrainInv BY DrainInvStart, DrainInvNext, PTL DEF RendererSpec
<1>2. DrainInv /\ BufferInv => BuffersComeBack BY BufferInvSuits DEF DrainInv
<1>3. RendererInit => BufferInv BY BufferInvStart
<1> QED BY <1>1, <1>2, <1>3, BufferInvNext, PTL DEF RendererSpec

-----------------------------------------------------------------------------
(* Thread-specific data.                                                   *)
Making == {t \in Threads : pc[t] \in {"cloned", "listed"}}

(* pthread_create works on a child of its own, which waits for it.         *)
Handshake == /\ \A t \in Making : child[t] \in Threads /\ pc[child[t]] = "handshake"
             /\ \A t \in Making : \A u \in Making : child[t] = child[u] => t = u
             /\ \A t \in Threads : pc[t] = "listed" => child[t] \in list

(* Whoever may hold values is where pthread_key_delete finds it.           *)
Listed == \A t \in Threads : pc[t] \notin {"none", "handshake", "zombie"} => t \in list

(* The values of a thread are those of keys that are in use.               *)
Areas == \A t \in Threads : \A k \in Keys :
            /\ pc[t] = "handshake" => tls[t][k] = 0
            /\ pc[t] \notin {"none", "zombie"} =>
                  tls[t][k] = 0 \/ (k \in used /\ tls[t][k] = gen[k])

(* A round that has called no destructor is still at its first key.        *)
Rounds == \A t \in Threads : /\ pc[t] \notin {"cleaned", "zombie"} => rounds[t] > 0
                             /\ ~called[t] => next[t] = 0

Inv == TypeOK /\ Handshake /\ Listed /\ Areas /\ Rounds /\ CleanUnlessExhausted

(* The only facts about numbers that most steps need.                      *)
LEMMA Numbers == /\ UserKeys \subseteq Keys /\ 0 \in Values
                 /\ \A k \in Keys : k + 1 \in 0 .. BIONIC_TLS_SLOTS
BY SlotsAssumption DEF Keys, UserKeys, Values

USE DEF Making

LEMMA Initially == Init => Inv
<1> SUFFICES ASSUME Init PROVE Inv  OBVIOUS
<1> USE SlotsAssumption, Numbers DEF Init
<1>1. TypeOK
  <2>1. used \subseteq Keys /\ destructor \subseteq used /\ list \subseteq Threads
        BY DEF Keys
  <2>2. gen \in [Keys -> Values] /\ created \in Values  OBVIOUS
  <2>3. tls \in [Threads -> [Keys -> Values]]
    <3>1. [k \in Keys |-> 0] \in [Keys -> Values]  OBVIOUS
    <3>2. QED  BY <3>1
  <2>4. arg \in [Threads -> [key : Keys, value : Values]]
    <3>1. [key |-> 0, value |-> 0] \in [key : Keys, value : Values]
          BY SlotsAssumption DEF Keys
    <3>2. QED  BY <3>1
  <2>5. QED  BY <2>1, <2>2, <2>3, <2>4 DEF TypeOK
<1>2. Handshake /\ Listed /\ Areas /\ Rounds /\ CleanUnlessExhausted
      BY DEF Handshake, Listed, Areas, Rounds, CleanUnlessExhausted
<1>3. QED  BY <1>1, <1>2 DEF Inv

USE Numbers DEF Inv, map, clean, Goto, CallsWithLock

(* A write to one slot of one thread's area.                               *)
LEMMA SlotWritten ==
    ASSUME TypeOK, NEW t \in Threads, NEW key \in Keys, NEW value \in Values,
           tls' = [tls EXCEPT ![t][key] = value]
    PROVE  /\ tls' \in [Threads -> [Keys -> Values]]
           /\ \A u \in Threads : \A k \in Keys :
                 tls'[u][k] = IF u = t /\ k = key THEN value ELSE tls[u][k]
<1>1. tls' = [tls EXCEPT ![t] = [tls[t] EXCEPT ![key] = value]]  OBVIOUS
<1>2. [tls[t] EXCEPT ![key] = value] \in [Keys -> Values]  BY DEF TypeOK
<1>3. QED  BY <1>1, <1>2 DEF TypeOK

(* What pthread_key_delete does to the areas.                              *)
LEMMA SlotCleared ==
    ASSUME TypeOK, NEW key \in Keys,
           tls' = [u \in Threads |-> IF u \in list /\ pc[u] # "zombie"
                                     THEN [tls[u] EXCEPT ![key] = 0] ELSE tls[u]]
    PROVE  /\ tls' \in [Threads -> [Keys -> Values]]
           /\ \A u \in Threads : \A k \in Keys :
                 tls'[u][k] = IF k = key /\ u \in list /\ pc[u] # "zombie" THEN 0 ELSE tls[u][k]
<1>1. \A u \in Threads : [tls[u] EXCEPT ![key] = 0] \in [Keys -> Values]  BY DEF TypeOK
<1>2. QED  BY <1>1 DEF TypeOK

(* The two threads whose place pthread_create changes.                     *)
LEMMA ClonedPair ==
    ASSUME TypeOK, NEW t \in Threads, Clone(t)
    PROVE  \E c \in Threads :
              /\ pc[c] = "none" /\ c # t /\ pc[t] = "running"
              /\ \A u \in Threads :
                    /\ pc'[u] = IF u = c THEN "handshake" ELSE IF u = t THEN "cloned" ELSE pc[u]
                    /\ child'[u] = IF u = t THEN c ELSE child[u]
                    /\ \A k \in Keys : tls'[u][k] = IF u = c THEN 0 ELSE tls[u][k]
<1> PICK c \in Threads : /\ pc[c] = "none"
                         /\ pc' = [pc EXCEPT ![t] = "cloned", ![c] = "handshake"]
                         /\ child' = [child EXCEPT ![t] = c]
                         /\ tls' = [tls EXCEPT ![c] = [k \in Keys |-> 0]]
    BY DEF Clone
<1>1. c # t /\ pc[t] = "running"  BY DEF Clone
<1>2. \A u \in Threads :
         pc'[u] = IF u = c THEN "handshake" ELSE IF u = t THEN "cloned" ELSE pc[u]
      BY <1>1 DEF TypeOK
<1>3. \A u \in Threads : child'[u] = IF u = t THEN c ELSE child[u]  BY DEF TypeOK
<1>4. \A u \in Threads : \A k \in Keys : tls'[u][k] = IF u = c THEN 0 ELSE tls[u][k]
      BY DEF TypeOK
<1>5. QED  BY <1>1, <1>2, <1>3, <1>4

LEMMA ReleasedPair ==
    ASSUME TypeOK, Handshake, NEW t \in Threads, ReleaseChild(t)
    PROVE  \E place \in {"running", "clean"} :
              \A u \in Threads :
                 /\ pc'[u] = IF u = child[t] THEN place ELSE IF u = t THEN "running" ELSE pc[u]
                 /\ child'[u] = IF u = t THEN Nobody ELSE child[u]
<1> PICK place \in {"running", "clean"} : pc' = [pc EXCEPT ![t] = "running", ![child[t]] = place]
    BY DEF ReleaseChild
<1>1. child[t] \in Threads /\ pc[child[t]] = "handshake" /\ child[t] # t
      BY DEF ReleaseChild, Handshake
<1>2. \A u \in Threads :
         pc'[u] = IF u = child[t] THEN place ELSE IF u = t THEN "running" ELSE pc[u]
      BY <1>1 DEF TypeOK
<1>3. \A u \in Threads : child'[u] = IF u = t THEN Nobody ELSE child[u]
      BY DEF TypeOK, ReleaseChild
<1>4. QED  BY <1>2, <1>3

LEMMA TypeStep == Inv /\ [Next]_vars => TypeOK'
<1> SUFFICES ASSUME Inv, [Next]_vars PROVE TypeOK'  OBVIOUS
<1> USE DEF TypeOK
<1>1. ASSUME NEW t \in Threads, CreateKey(t) PROVE TypeOK'
  <2> PICK key \in Keys \ used :
        /\ used' = used \cup {key}
        /\ destructor' \in {destructor, destructor \cup {key}}
        /\ gen' = [gen EXCEPT ![key] = created + 1]
      BY <1>1 DEF CreateKey
  <2>1. used' \subseteq Keys /\ destructor' \subseteq used'  OBVIOUS
  <2>2. created' = created + 1 /\ created' \in Values
        BY <1>1, SlotsAssumption DEF CreateKey, Values
  <2>3. gen' \in [Keys -> Values]  BY <2>2
  <2>4. UNCHANGED <<tls, lock, list, pc, child, clean>>  BY <1>1 DEF CreateKey
  <2>5. QED  BY <2>1, <2>2, <2>3, <2>4
<1>2. ASSUME NEW t \in Threads, pthread_key_delete(t) PROVE TypeOK'
  <2>1. tls' \in [Threads -> [Keys -> Values]]  BY <1>2, SlotCleared DEF pthread_key_delete
  <2>2. used' \subseteq Keys /\ destructor' \subseteq used'  BY <1>2 DEF pthread_key_delete
  <2>3. UNCHANGED <<lock, list, pc, child, clean, created, gen>>  BY <1>2 DEF pthread_key_delete
  <2>4. QED  BY <2>1, <2>2, <2>3
<1>3. ASSUME NEW t \in Threads, pthread_setspecific(t) PROVE TypeOK'
  <2>1. tls' \in [Threads -> [Keys -> Values]]
        BY <1>3, SlotWritten DEF pthread_setspecific
  <2>2. UNCHANGED <<map, lock, list, pc, child, clean>>  BY <1>3 DEF pthread_setspecific
  <2>3. QED  BY <2>1, <2>2
<1>4. ASSUME NEW t \in Threads, Clone(t) PROVE TypeOK'
  <2> PICK c \in Threads : /\ pc' = [pc EXCEPT ![t] = "cloned", ![c] = "handshake"]
                           /\ child' = [child EXCEPT ![t] = c]
                           /\ tls' = [tls EXCEPT ![c] = [k \in Keys |-> 0]]
      BY <1>4 DEF Clone
  <2>1. tls' \in [Threads -> [Keys -> Values]]
    <3>1. [k \in Keys |-> 0] \in [Keys -> Values]  OBVIOUS
    <3>2. QED  BY <3>1
  <2>2. child' \in [Threads -> Threads \cup {Nobody}]  OBVIOUS
  <2>3. UNCHANGED <<map, lock, list, clean>>  BY <1>4 DEF Clone
  <2>4. QED  BY <2>1, <2>2, <2>3
<1>5. ASSUME NEW t \in Threads, AddToList(t) PROVE TypeOK'  BY <1>5 DEF AddToList, Handshake
<1>6. ASSUME NEW t \in Threads, ReleaseChild(t) PROVE TypeOK'  BY <1>6 DEF ReleaseChild
<1>7. ASSUME NEW t \in Threads, pthread_exit(t) PROVE TypeOK'  BY <1>7 DEF pthread_exit
<1>8. ASSUME NEW t \in Threads, Lock(t) PROVE TypeOK'
  <2>1. lock' \in Threads \cup {Nobody}  BY <1>8 DEF Lock
  <2>2. UNCHANGED <<map, tls, list, child, clean>>  BY <1>8 DEF Lock
  <2>3. pc' = [pc EXCEPT ![t] = "scan"]  BY <1>8 DEF Lock
  <2>4. QED  BY <2>1, <2>2, <2>3
<1>9. ASSUME NEW t \in Threads, CallDestructor(t) PROVE TypeOK'
  <2> PICK key \in Keys : /\ arg' = [arg EXCEPT ![t] = [key |-> key, value |-> tls[t][key]]]
                          /\ tls' = [tls EXCEPT ![t][key] = 0]
                          /\ next' = [next EXCEPT ![t] = key + 1]
      BY <1>9 DEF CallDestructor, Due
  <2>1. tls' \in [Threads -> [Keys -> Values]]  BY SlotWritten
  <2>2. next' \in [Threads -> 0 .. BIONIC_TLS_SLOTS]  OBVIOUS
  <2>3. arg' \in [Threads -> [key : Keys, value : Values]]
    <3>1. [key |-> key, value |-> tls[t][key]] \in [key : Keys, value : Values]  OBVIOUS
    <3>2. QED  BY <3>1
  <2>4. called' \in [Threads -> BOOLEAN]  BY <1>9 DEF CallDestructor
  <2>5. lock' = Nobody /\ pc' = [pc EXCEPT ![t] = "call"]  BY <1>9 DEF CallDestructor
  <2>6. UNCHANGED <<map, list, child, rounds>>  BY <1>9 DEF CallDestructor
  <2>7. QED  BY <2>1, <2>2, <2>3, <2>4, <2>5, <2>6
<1>10. ASSUME NEW t \in Threads, DestructorReturns(t) PROVE TypeOK'
  <2>1. lock' \in Threads \cup {Nobody}  BY <1>10 DEF DestructorReturns
  <2>2. UNCHANGED <<map, tls, list, child, clean>>  BY <1>10 DEF DestructorReturns
  <2>3. pc' = [pc EXCEPT ![t] = "scan"]  BY <1>10 DEF DestructorReturns
  <2>4. QED  BY <2>1, <2>2, <2>3
<1>11. ASSUME NEW t \in Threads, EndRound(t) PROVE TypeOK'
  <2>1. rounds' \in [Threads -> 0 .. PTHREAD_DESTRUCTOR_ITERATIONS]
    <3>1. CASE called[t]
      <4>1. rounds[t] \in 0 .. PTHREAD_DESTRUCTOR_ITERATIONS /\ rounds[t] > 0
        <5>1. pc[t] = "scan"  BY <1>11 DEF EndRound
        <5>2. QED  BY <5>1 DEF Rounds
      <4>2. rounds[t] - 1 \in 0 .. PTHREAD_DESTRUCTOR_ITERATIONS
            BY <4>1, SlotsAssumption
      <4>3. QED  BY <1>11, <3>1, <4>2 DEF EndRound
    <3>2. CASE ~called[t]
          BY <1>11, <3>2 DEF EndRound
    <3>3. QED  BY <3>1, <3>2
  <2>2. next' \in [Threads -> 0 .. BIONIC_TLS_SLOTS]
        BY <1>11, SlotsAssumption DEF EndRound
  <2>3. called' \in [Threads -> BOOLEAN]  BY <1>11 DEF EndRound
  <2>4. lock' \in {lock, Nobody} /\ pc' \in {pc, [pc EXCEPT ![t] = "cleaned"]}
        BY <1>11 DEF EndRound
  <2>5. UNCHANGED <<map, tls, list, child, arg>>  BY <1>11 DEF EndRound
  <2>6. QED  BY <2>1, <2>2, <2>3, <2>4, <2>5
<1>12. ASSUME NEW t \in Threads, Die(t) PROVE TypeOK'  BY <1>12 DEF Die
<1>13. CASE UNCHANGED vars  BY <1>13 DEF vars
<1> QED  BY <1>1, <1>2, <1>3, <1>4, <1>5, <1>6, <1>7, <1>8, <1>9, <1>10, <1>11, <1>12, <1>13
         DEF Next, Scan

LEMMA HandshakeStep == Inv /\ [Next]_vars => Handshake'
<1> SUFFICES ASSUME Inv, [Next]_vars PROVE Handshake'  OBVIOUS
<1> USE DEF TypeOK, Handshake
<1>1. ASSUME NEW t \in Threads, CreateKey(t) PROVE Handshake'  BY <1>1 DEF CreateKey
<1>2. ASSUME NEW t \in Threads, pthread_key_delete(t) PROVE Handshake'
      BY <1>2 DEF pthread_key_delete
<1>3. ASSUME NEW t \in Threads, pthread_setspecific(t) PROVE Handshake'
      BY <1>3 DEF pthread_setspecific
<1>4. ASSUME NEW t \in Threads, Clone(t) PROVE Handshake'
      BY <1>4, ClonedPair DEF Clone
<1>5. ASSUME NEW t \in Threads, AddToList(t) PROVE Handshake'  BY <1>5 DEF AddToList
<1>6. ASSUME NEW t \in Threads, ReleaseChild(t) PROVE Handshake'
      BY <1>6, ReleasedPair DEF ReleaseChild
<1>7. ASSUME NEW t \in Threads, pthread_exit(t) PROVE Handshake'  BY <1>7 DEF pthread_exit
<1>8. ASSUME NEW t \in Threads, Scan(t) PROVE Handshake'
  <2>1. \E place \in {"scan", "call", "cleaned"} : pc' = [pc EXCEPT ![t] = place]
        BY <1>8 DEF Scan, Lock, CallDestructor, DestructorReturns, EndRound
  <2>2. pc[t] \in {"clean", "scan", "call"} /\ UNCHANGED <<list, child>>
        BY <1>8 DEF Scan, Lock, CallDestructor, DestructorReturns, EndRound
  <2>3. QED  BY <2>1, <2>2
<1>9. ASSUME NEW t \in Threads, Die(t) PROVE Handshake'  BY <1>9 DEF Die, Listed
<1>10. CASE UNCHANGED vars  BY <1>10 DEF vars
<1> QED  BY <1>1, <1>2, <1>3, <1>4, <1>5, <1>6, <1>7, <1>8, <1>9, <1>10 DEF Next

LEMMA ListedStep == Inv /\ [Next]_vars => Listed'
<1> SUFFICES ASSUME Inv, [Next]_vars PROVE Listed'  OBVIOUS
<1> USE DEF TypeOK, Listed, Handshake
<1>1. ASSUME NEW t \in Threads, CreateKey(t) PROVE Listed'  BY <1>1 DEF CreateKey
<1>2. ASSUME NEW t \in Threads, pthread_key_delete(t) PROVE Listed'
      BY <1>2 DEF pthread_key_delete
<1>3. ASSUME NEW t \in Threads, pthread_setspecific(t) PROVE Listed'
      BY <1>3 DEF pthread_setspecific
<1>4. ASSUME NEW t \in Threads, Clone(t) PROVE Listed'
  <2> PICK c \in Threads :
        /\ pc[c] = "none" /\ pc[t] = "running"
        /\ \A u \in Threads :
              /\ pc'[u] = IF u = c THEN "handshake" ELSE IF u = t THEN "cloned" ELSE pc[u]
              /\ child'[u] = IF u = t THEN c ELSE child[u]
      BY <1>4, ClonedPair
  <2>1. UNCHANGED list  BY <1>4 DEF Clone
  <2>2. QED  BY <2>1
<1>5. ASSUME NEW t \in Threads, AddToList(t) PROVE Listed'  BY <1>5 DEF AddToList
<1>6. ASSUME NEW t \in Threads, ReleaseChild(t) PROVE Listed'
  <2> PICK place \in {"running", "clean"} :
        \A u \in Threads :
           /\ pc'[u] = IF u = child[t] THEN place ELSE IF u = t THEN "running" ELSE pc[u]
           /\ child'[u] = IF u = t THEN Nobody ELSE child[u]
      BY <1>6, ReleasedPair
  <2>1. UNCHANGED list /\ pc[t] = "listed"  BY <1>6 DEF ReleaseChild
  <2>2. child[t] \in Threads /\ pc[child[t]] = "handshake"  BY <2>1
  <2>3. QED  BY <2>1, <2>2
<1>7. ASSUME NEW t \in Threads, pthread_exit(t) PROVE Listed'  BY <1>7 DEF pthread_exit
<1>8. ASSUME NEW t \in Threads, Scan(t) PROVE Listed'
  <2>1. \E place \in {"scan", "call", "cleaned"} : pc' = [pc EXCEPT ![t] = place]
        BY <1>8 DEF Scan, Lock, CallDestructor, DestructorReturns, EndRound
  <2>2. pc[t] \in {"clean", "scan", "call"} /\ UNCHANGED <<list, child>>
        BY <1>8 DEF Scan, Lock, CallDestructor, DestructorReturns, EndRound
  <2>3. QED  BY <2>1, <2>2
<1>9. ASSUME NEW t \in Threads, Die(t) PROVE Listed'  BY <1>9 DEF Die
<1>10. CASE UNCHANGED vars  BY <1>10 DEF vars
<1> QED  BY <1>1, <1>2, <1>3, <1>4, <1>5, <1>6, <1>7, <1>8, <1>9, <1>10 DEF Next

LEMMA AreasStep == Inv /\ [Next]_vars => Areas'
<1> SUFFICES ASSUME Inv, [Next]_vars PROVE Areas'  OBVIOUS
<1> USE DEF TypeOK, Areas
<1>1. ASSUME NEW t \in Threads, CreateKey(t) PROVE Areas'  BY <1>1 DEF CreateKey
<1>2. ASSUME NEW t \in Threads, pthread_key_delete(t) PROVE Areas'
      BY <1>2, SlotCleared DEF pthread_key_delete, Listed
<1>3. ASSUME NEW t \in Threads, pthread_setspecific(t) PROVE Areas'
      BY <1>3, SlotWritten DEF pthread_setspecific
<1>4. ASSUME NEW t \in Threads, Clone(t) PROVE Areas'
      BY <1>4, ClonedPair DEF Clone
<1>5. ASSUME NEW t \in Threads, AddToList(t) PROVE Areas'  BY <1>5 DEF AddToList
<1>6. ASSUME NEW t \in Threads, ReleaseChild(t) PROVE Areas'
  <2>1. UNCHANGED <<map, tls>> /\ pc[t] = "listed"  BY <1>6 DEF ReleaseChild
  <2>2. child[t] \in Threads /\ pc[child[t]] = "handshake"
        BY <2>1 DEF Handshake
  <2>3. \A u \in Threads : pc'[u] # pc[u] => u = child[t] \/ u = t
        BY <1>6, ReleasedPair DEF Handshake
  <2>4. \A k \in Keys : tls[child[t]][k] = 0  BY <2>2
  <2>5. \A k \in Keys : tls[t][k] = 0 \/ (k \in used /\ tls[t][k] = gen[k])
        BY <2>1
  <2>6. pc'[t] = "running" /\ pc'[child[t]] \in {"running", "clean"}
        BY <1>6, <2>1, <2>2, ReleasedPair
  <2>7. QED  BY <2>1, <2>3, <2>4, <2>5, <2>6
<1>7. ASSUME NEW t \in Threads, pthread_exit(t) PROVE Areas'  BY <1>7 DEF pthread_exit
<1>8. ASSUME NEW t \in Threads, Scan(t) PROVE Areas'
  <2>1. pc[t] \in {"clean", "scan", "call"} /\ UNCHANGED map
        BY <1>8 DEF Scan, Lock, CallDestructor, DestructorReturns, EndRound
  <2>2. \E place \in {"scan", "call", "cleaned"} : pc' = [pc EXCEPT ![t] = place]
        BY <1>8 DEF Scan, Lock, CallDestructor, DestructorReturns, EndRound
  <2>3. UNCHANGED tls \/ \E key \in Keys : tls' = [tls EXCEPT ![t][key] = 0]
        BY <1>8 DEF Scan, Lock, CallDestructor, DestructorReturns, EndRound, Due
  <2>4. \A u \in Threads : \A k \in Keys : tls'[u][k] \in {0, tls[u][k]}
    <3>1. CASE UNCHANGED tls  BY <3>1
    <3>2. CASE \E key \in Keys : tls' = [tls EXCEPT ![t][key] = 0]
      <4> PICK key \in Keys : tls' = [tls EXCEPT ![t][key] = 0]  BY <3>2
      <4>1. QED  BY SlotWritten
    <3>3. QED  BY <2>3, <3>1, <3>2
  <2>5. QED  BY <2>1, <2>2, <2>4
<1>9. ASSUME NEW t \in Threads, Die(t) PROVE Areas'  BY <1>9 DEF Die
<1>10. CASE UNCHANGED vars  BY <1>10 DEF vars
<1> QED  BY <1>1, <1>2, <1>3, <1>4, <1>5, <1>6, <1>7, <1>8, <1>9, <1>10 DEF Next

LEMMA RoundsStep == Inv /\ [Next]_vars => Rounds'
<1> SUFFICES ASSUME Inv, [Next]_vars PROVE Rounds'  OBVIOUS
<1> USE DEF TypeOK, Rounds
<1>1. ASSUME NEW t \in Threads,
             CreateKey(t) \/ pthread_key_delete(t) \/ pthread_setspecific(t)
      PROVE  Rounds'
      BY <1>1 DEF CreateKey, pthread_key_delete, pthread_setspecific
<1>2. ASSUME NEW t \in Threads, Clone(t) PROVE Rounds'  BY <1>2, ClonedPair DEF Clone
<1>3. ASSUME NEW t \in Threads, AddToList(t) \/ pthread_exit(t) PROVE Rounds'
      BY <1>3 DEF AddToList, pthread_exit
<1>4. ASSUME NEW t \in Threads, ReleaseChild(t) PROVE Rounds'
  <2>1. UNCHANGED <<rounds, next, called>> /\ pc[t] = "listed"  BY <1>4 DEF ReleaseChild
  <2>2. \A u \in Threads : pc'[u] # pc[u] => u = child[t] \/ u = t
        BY <1>4, ReleasedPair DEF Handshake
  <2>3. pc[child[t]] = "handshake" /\ child[t] \in Threads  BY <2>1 DEF Handshake
  <2>4. QED  BY <2>1, <2>2, <2>3
<1>5. ASSUME NEW t \in Threads, Lock(t) \/ DestructorReturns(t) \/ Die(t) PROVE Rounds'
      BY <1>5 DEF Lock, DestructorReturns, Die
<1>6. ASSUME NEW t \in Threads, CallDestructor(t) PROVE Rounds'
      BY <1>6 DEF CallDestructor
<1>7. ASSUME NEW t \in Threads, EndRound(t) PROVE Rounds'
  <2>1. \A u \in Threads \ {t} :
           pc'[u] = pc[u] /\ rounds'[u] = rounds[u] /\ next'[u] = next[u] /\ called'[u] = called[u]
        BY <1>7 DEF EndRound
  <2>2. next'[t] = 0  BY <1>7 DEF EndRound
  <2>3. pc'[t] = "cleaned" \/ rounds'[t] > 0
    <3>1. CASE called[t] /\ rounds[t] > 1
      <4>1. rounds'[t] = rounds[t] - 1 /\ rounds[t] \in Int  BY <1>7, <3>1 DEF EndRound
      <4>2. QED  BY <3>1, <4>1
    <3>2. CASE ~(called[t] /\ rounds[t] > 1)  BY <1>7, <3>2 DEF EndRound
    <3>3. QED  BY <3>1, <3>2
  <2>4. QED  BY <2>1, <2>2, <2>3
<1>8. CASE UNCHANGED vars  BY <1>8 DEF vars
<1> QED  BY <1>1, <1>2, <1>3, <1>4, <1>5, <1>6, <1>7, <1>8 DEF Next, Scan

(* A key created anew is null everywhere, and a round that ends without a  *)
(* destructor called has seen every key.                                   *)
LEMMA ExhaustedStep == Inv /\ [Next]_vars => CleanUnlessExhausted'
<1> SUFFICES ASSUME Inv, [Next]_vars PROVE CleanUnlessExhausted'  OBVIOUS
<1> USE DEF TypeOK, CleanUnlessExhausted
<1>1. ASSUME NEW t \in Threads, CreateKey(t) PROVE CleanUnlessExhausted'
  <2> PICK key \in Keys \ used : destructor' \in {destructor, destructor \cup {key}}
      BY <1>1 DEF CreateKey
  <2>1. UNCHANGED <<pc, rounds, tls>>  BY <1>1 DEF CreateKey
  <2>2. \A u \in Threads : pc[u] = "cleaned" => tls[u][key] = 0
        BY DEF Areas
  <2>3. QED  BY <2>1, <2>2
<1>2. ASSUME NEW t \in Threads, pthread_key_delete(t) PROVE CleanUnlessExhausted'
      BY <1>2, SlotCleared DEF pthread_key_delete
<1>3. ASSUME NEW t \in Threads, pthread_setspecific(t) PROVE CleanUnlessExhausted'
      BY <1>3, SlotWritten DEF pthread_setspecific, CallsWithLock
<1>4. ASSUME NEW t \in Threads, Clone(t) PROVE CleanUnlessExhausted'
      BY <1>4, ClonedPair DEF Clone
<1>5. ASSUME NEW t \in Threads, AddToList(t) \/ pthread_exit(t) PROVE CleanUnlessExhausted'
      BY <1>5 DEF AddToList, pthread_exit
<1>6. ASSUME NEW t \in Threads, ReleaseChild(t) PROVE CleanUnlessExhausted'
  <2>1. UNCHANGED <<rounds, map, tls>>  BY <1>6 DEF ReleaseChild
  <2>2. \A u \in Threads : pc'[u] = "cleaned" => pc[u] = "cleaned"
        BY <1>6, ReleasedPair
  <2>3. QED  BY <2>1, <2>2
<1>7. ASSUME NEW t \in Threads, Lock(t) \/ DestructorReturns(t) \/ Die(t)
      PROVE  CleanUnlessExhausted'
      BY <1>7 DEF Lock, DestructorReturns, Die
<1>8. ASSUME NEW t \in Threads, CallDestructor(t) PROVE CleanUnlessExhausted'
  <2>1. \E key \in Keys : tls' = [tls EXCEPT ![t][key] = 0]
        BY <1>8 DEF CallDestructor, Due
  <2>2. \A u \in Threads \ {t} : \A k \in Keys : tls'[u][k] = tls[u][k]
        BY <2>1, SlotWritten
  <2>3. UNCHANGED <<map, rounds>> /\ pc' = [pc EXCEPT ![t] = "call"]
        BY <1>8 DEF CallDestructor
  <2>4. QED  BY <2>2, <2>3
<1>9. ASSUME NEW t \in Threads, EndRound(t) PROVE CleanUnlessExhausted'
  <2>1. UNCHANGED <<map, tls>> /\ Due(t) = {}  BY <1>9 DEF EndRound
  <2>2. \A u \in Threads \ {t} : pc'[u] = pc[u] /\ rounds'[u] = rounds[u]
        BY <1>9 DEF EndRound
  <2>3. ASSUME called[t], pc'[t] = "cleaned"
        PROVE  ~(rounds'[t] > 0)
    <3>1. rounds[t] <= 1
          BY <1>9, <2>3 DEF EndRound
    <3>2. rounds'[t] = rounds[t] - 1 /\ rounds[t] \in Int
          BY <1>9, <2>3 DEF EndRound
    <3>3. QED  BY <3>1, <3>2
  <2>4. ASSUME ~called[t]
        PROVE  \A k \in destructor : tls[t][k] = 0
    <3>1. next[t] = 0  BY <2>4 DEF Rounds
    <3>2. \A k \in Keys : k >= next[t]  BY <3>1 DEF Keys
    <3>3. QED  BY <2>1, <3>2 DEF Due
  <2>5. SUFFICES ASSUME NEW u \in Threads, pc'[u] = "cleaned", rounds'[u] > 0
                 PROVE  \A k \in destructor : tls[u][k] = 0
        BY <2>1
  <2>6. CASE u = t
        BY <2>3, <2>4, <2>5, <2>6
  <2>7. CASE u # t
    <3>1. pc[u] = "cleaned" /\ rounds[u] > 0  BY <2>2, <2>5, <2>7
    <3>2. QED  BY <3>1
  <2>8. QED  BY <2>6, <2>7
<1>10. CASE UNCHANGED vars  BY <1>10 DEF vars
<1> QED  BY <1>1, <1>2, <1>3, <1>4, <1>5, <1>6, <1>7, <1>8, <1>9, <1>10 DEF Next, Scan

----------------------------------------------------------------------------
THEOREM Invariance == Spec => []Inv
<1>1. Inv /\ [Next]_vars => Inv'
      BY TypeStep, HandshakeStep, ListedStep, AreasStep, RoundsStep, ExhaustedStep
<1>2. QED  BY <1>1, Initially, PTL DEF Spec

(* Every state of bionic's key map and of its threads' areas is of the     *)
(* declared type.                                                          *)
THEOREM TypeCorrect == Spec => []TypeOK
<1>1. Inv => TypeOK  OBVIOUS
<1>2. QED  BY <1>1, Invariance, PTL

(* pthread_getspecific's comment holds: a slot whose key is not allocated  *)
(* reads null in every thread that runs user code.                         *)
THEOREM UnlockedReadIsSafe == Spec => []UnallocatedReadsNull
<1>1. Inv => UnallocatedReadsNull
      BY DEF Areas, UnallocatedReadsNull, Runs, pthread_getspecific
<1>2. QED  BY <1>1, Invariance, PTL

(* pthread_key_delete leaves no value behind for the slot's next key.      *)
THEOREM NoInheritedValues == Spec => []ValuesAreOfTheirKey
<1>1. Inv => ValuesAreOfTheirKey
      BY DEF Areas, ValuesAreOfTheirKey, Runs, pthread_getspecific
<1>2. QED  BY <1>1, Invariance, PTL

(* pthread_key_clean_all gives up on a value only after all its rounds.    *)
THEOREM ExitCleansUp == Spec => []CleanUnlessExhausted
<1>1. Inv => CleanUnlessExhausted  OBVIOUS
<1>2. QED  BY <1>1, Invariance, PTL

(* CleanAll calls a destructor with a value of the key it came with.       *)
THEOREM DestructorsMatch == Spec => DestructorGetsItsValue
<1>1. Inv /\ [Next]_vars => [RightDestructor]_vars
  <2> SUFFICES ASSUME Inv, Next, NEW t \in Threads, pc[t] = "scan", pc'[t] = "call"
               PROVE  LET key == arg'[t].key
                      IN  key \in destructor /\ arg'[t].value = gen[key] /\ tls'[t][key] = 0
      BY DEF RightDestructor
  <2> USE DEF TypeOK
  <2>1. CallDestructor(t)
    <3>1. ASSUME NEW u \in Threads, Clone(u) PROVE FALSE
          BY <3>1, ClonedPair
    <3>2. ASSUME NEW u \in Threads, ReleaseChild(u) PROVE FALSE
          BY <3>2, ReleasedPair
    <3>3. ASSUME NEW u \in Threads, CreateKey(u) \/ pthread_key_delete(u) \/ pthread_setspecific(u)
          PROVE  FALSE
          BY <3>3 DEF CreateKey, pthread_key_delete, pthread_setspecific
    <3>4. ASSUME NEW u \in Threads, AddToList(u) \/ pthread_exit(u) \/ Die(u) PROVE FALSE
          BY <3>4 DEF AddToList, pthread_exit, Die
    <3>5. ASSUME NEW u \in Threads, Lock(u) \/ DestructorReturns(u) \/ EndRound(u) PROVE FALSE
          BY <3>5 DEF Lock, DestructorReturns, EndRound
    <3>6. ASSUME NEW u \in Threads, CallDestructor(u) PROVE u = t
          BY <3>6 DEF CallDestructor
    <3>7. QED  BY <3>1, <3>2, <3>3, <3>4, <3>5, <3>6 DEF Next, Scan
  <2>2. PICK key \in Due(t) : /\ arg' = [arg EXCEPT ![t] = [key |-> key, value |-> tls[t][key]]]
                              /\ tls' = [tls EXCEPT ![t][key] = 0]
        BY <2>1 DEF CallDestructor
  <2>3. key \in Keys /\ key \in destructor /\ tls[t][key] # 0  BY DEF Due
  <2>4. arg'[t].key = key /\ arg'[t].value = tls[t][key]  BY <2>2
  <2>5. tls'[t][key] = 0  BY <2>2, <2>3, SlotWritten
  <2>6. tls[t][key] = gen[key]  BY <2>3 DEF Areas
  <2>7. QED  BY <2>3, <2>4, <2>5, <2>6
<1>2. QED  BY <1>1, Invariance, PTL DEF Spec, DestructorGetsItsValue
=============================================================================
