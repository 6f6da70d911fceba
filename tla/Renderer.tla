------------------------------ MODULE Renderer ------------------------------
(***************************************************************************)
(* NuPlayer::Renderer: decoders queue buffers, the player flushes, pauses  *)
(* and resumes, all by messages to a looper; the looper drains the queues  *)
(* on delayed messages that carry the generation of their queue.  With     *)
(* offloaded audio there are no audio drains: the sink takes data in a     *)
(* callback on its own thread, and video buffers are parked until it has.  *)
(* An action is the handling of a message, or a part of one that the       *)
(* callback can interrupt.  Left out: times, notices to the player other   *)
(* than the return of buffers, the tear-down of an offloaded sink, and     *)
(* mSyncQueues, which is never set.                                        *)
(***************************************************************************)
EXTENDS Naturals, Sequences, FiniteSets

CONSTANTS Offload,    \* subset of BOOLEAN: FLAG_OFFLOAD_AUDIO at the start
          MaxBuffers, \* bound: buffers of a stream
          MaxRequests \* bound: calls of the player that are not buffers

ASSUME RendererAssumption == Offload \subseteq BOOLEAN /\ MaxBuffers \in Nat

VARIABLES messages,              \* to the looper, without a delay
          drains,                \* to the looper, delayed
          mQueue,                \* of each stream; 0 is the end of the stream
          mPendingInputMessages, \* video buffers that are parked
          mDrainPending, mGeneration, mFlushing, \* of each stream
          mPaused, mAudioSinkStopped, mVideoSampleReceived, mAudioRenderingStarted,
          mHasAudio, offloading,
          handler,               \* what the looper is in the middle of
          given, ended, opened, requests, \* of the decoders and the player
          returned,              \* history: how often each buffer came back
          reposted,              \* history: video buffers that were parked
          undrained              \* history: audio was left without a drain

onBuffers == <<mQueue, mPendingInputMessages, returned, reposted>>
onDrains == <<drains, mDrainPending, mGeneration, undrained>>
onState == <<mPaused, mAudioSinkStopped, mVideoSampleReceived, mAudioRenderingStarted,
             mHasAudio, offloading>>
onPlayer == <<given, ended, opened, requests>>
rendervars == <<messages, mFlushing, handler, onBuffers, onDrains, onState, onPlayer>>

Streams == {"audio", "video"}
EOS == 0
Idle == [at |-> "idle", s |-> "video", n |-> 0]
Msg(what, s, n) == [what |-> what, s |-> s, n |-> n]

RendererInit ==
    /\ messages = <<>> /\ drains = {} /\ handler = Idle
    /\ mQueue = [s \in Streams |-> <<>>] /\ mPendingInputMessages = <<>>
    /\ mDrainPending = [s \in Streams |-> FALSE]
    /\ mGeneration = [s \in Streams |-> 0]
    /\ mFlushing = [s \in Streams |-> FALSE]
    /\ mPaused = FALSE /\ mAudioSinkStopped = FALSE
    /\ mVideoSampleReceived = FALSE /\ mAudioRenderingStarted = FALSE
    /\ mHasAudio = FALSE /\ offloading \in Offload
    /\ given = [s \in Streams |-> 0] /\ ended = [s \in Streams |-> FALSE]
    /\ opened = "no" /\ requests = 0
    /\ returned = [s \in Streams |-> [n \in 1 .. MaxBuffers |-> 0]]
    /\ reposted = {} /\ undrained = FALSE

----------------------------------------------------------------------------
(* The calls, from any thread.  A decoder queues audio once the sink has   *)
(* been opened, and nothing between the end of a stream and its flush.     *)
MayQueue(s) == ~ended[s] /\ (s = "audio" => opened = "yes")

queueBuffer(s) ==
    /\ MayQueue(s) /\ given[s] < MaxBuffers
    /\ given' = [given EXCEPT ![s] = @ + 1]
    /\ messages' = Append(messages, Msg("queue", s, given'[s]))
    /\ UNCHANGED <<mFlushing, handler, onBuffers, onDrains, onState, ended, opened, requests>>

queueEOS(s) ==
    /\ MayQueue(s)
    /\ ended' = [ended EXCEPT ![s] = TRUE]
    /\ messages' = Append(messages, Msg("eos", s, 0))
    /\ UNCHANGED <<mFlushing, handler, onBuffers, onDrains, onState, given, opened, requests>>

Ask == requests < MaxRequests /\ requests' = requests + 1

(* A flush while one is on its way does nothing; players wait for its end. *)
flush(s) ==
    /\ Ask /\ ~mFlushing[s]
    /\ mFlushing' = [mFlushing EXCEPT ![s] = TRUE]
    /\ messages' = Append(messages, Msg("flush", s, given[s]))
    /\ ended' = [ended EXCEPT ![s] = FALSE]
    /\ UNCHANGED <<handler, onBuffers, onDrains, onState, given, opened>>

(* pause, resume, startAudioSink, signalDisableOffloadAudio: the player    *)
(* gives up offloading once, when it is told that the sink was torn down.  *)
Signal(what) ==
    /\ Ask
    /\ what = "disable" => /\ offloading /\ opened = "yes"
                          /\ \A i \in DOMAIN messages : messages[i].what # "disable"
    /\ messages' = Append(messages, Msg(what, "audio", 0))
    /\ UNCHANGED <<mFlushing, handler, onBuffers, onDrains, onState, given, ended, opened>>

(* openAudioSink, whose caller waits for the response.                     *)
openAudioSink ==
    /\ opened = "no" /\ opened' = "asked"
    /\ messages' = Append(messages, Msg("open", "audio", 0))
    /\ UNCHANGED <<mFlushing, handler, onBuffers, onDrains, onState, given, ended, requests>>

----------------------------------------------------------------------------
(* notifyConsumed of the buffers S.                                        *)
Consume(s, S) ==
    returned' = [returned EXCEPT ![s] = [n \in DOMAIN @ |-> @[n] + (IF n \in S THEN 1 ELSE 0)]]
BuffersOf(q) == {q[i] : i \in DOMAIN q} \ {EOS}
Current(d) == d.gen = mGeneration[d.s]

(* postDrainAudioQueue_l and postDrainVideoQueue, in the state after the   *)
(* step, for streams S whose flags are `pend` and with `left` under way.   *)
(* A video buffer far ahead of its time is looked at again instead.  Two   *)
(* drains of one generation would be told apart by `twin`.                 *)
MayDrain(s) ==
    /\ mQueue'[s] # <<>>
    /\ s = "audio" => ~mPaused' /\ ~mAudioSinkStopped' /\ ~offloading'
    /\ s = "video" => ~(mPaused' /\ mVideoSampleReceived')
PostDrains(S, pend, left) ==
    LET now == {s \in S : ~pend[s] /\ MayDrain(s)} IN
    /\ mDrainPending' = [s \in Streams |-> pend[s] \/ s \in now]
    /\ \E again \in BOOLEAN :
          /\ again => "video" \in now /\ Head(mQueue'["video"]) # EOS
          /\ drains' = left \cup {[s |-> s, gen |-> mGeneration[s], repost |-> again /\ s = "video",
                                   twin |-> \E d \in left : d.s = s /\ Current(d)] : s \in now}
    /\ undrained' = (undrained /\ "audio" \notin now)
    /\ UNCHANGED mGeneration

Handle(what) == /\ handler = Idle /\ messages # <<>> /\ Head(messages).what = what
                /\ messages' = Tail(messages)
                /\ UNCHANGED <<given, ended, requests>>
Told == Head(messages)

(* onQueueBuffer: a buffer of a stream that is to be flushed goes back.    *)
onQueueBuffer ==
    /\ Handle("queue")
    /\ ~(Told.s = "video" /\ offloading /\ ~mAudioRenderingStarted)
    /\ mHasAudio' = (mHasAudio \/ Told.s = "audio")
    /\ UNCHANGED <<mPaused, mAudioSinkStopped, mVideoSampleReceived, mAudioRenderingStarted,
                   offloading, mPendingInputMessages, reposted, mFlushing, handler, opened>>
    /\ \/ /\ mFlushing[Told.s]
          /\ Consume(Told.s, {Told.n})
          /\ UNCHANGED <<mQueue, onDrains>>
       \/ /\ ~mFlushing[Told.s]
          /\ mQueue' = [mQueue EXCEPT ![Told.s] = Append(@, Told.n)]
          /\ PostDrains({Told.s}, mDrainPending, drains)
          /\ UNCHANGED returned

(* The test of mAudioRenderingStarted and the parking are not under mLock. *)
TestStarted ==
    /\ Handle("queue") /\ Told.s = "video" /\ offloading /\ ~mAudioRenderingStarted
    /\ handler' = [at |-> "park", s |-> "video", n |-> Told.n]
    /\ UNCHANGED <<mFlushing, onBuffers, onDrains, onState, opened>>
Park ==
    /\ handler.at = "park"
    /\ mPendingInputMessages' = Append(mPendingInputMessages, handler.n)
    /\ handler' = Idle
    /\ UNCHANGED <<messages, mFlushing, mQueue, returned, reposted, onDrains, onState, onPlayer>>

onQueueEOS ==
    /\ Handle("eos")
    /\ UNCHANGED <<onState, mPendingInputMessages, returned, reposted, mFlushing, handler, opened>>
    /\ \/ mFlushing[Told.s] /\ UNCHANGED <<mQueue, onDrains>>
       \/ /\ ~mFlushing[Told.s]
          /\ mQueue' = [mQueue EXCEPT ![Told.s] = Append(@, EOS)]
          /\ PostDrains({Told.s}, mDrainPending, drains)

(* A flush that leaves what is parked.                                     *)
FlushQueueOnly ==
    /\ Handle("flush")
    /\ mFlushing' = [mFlushing EXCEPT ![Told.s] = FALSE]
    /\ Consume(Told.s, BuffersOf(mQueue[Told.s]))
    /\ UNCHANGED mPendingInputMessages
    /\ mQueue' = [mQueue EXCEPT ![Told.s] = <<>>]
    /\ mGeneration' = [mGeneration EXCEPT ![Told.s] = @ + 1]
    /\ mDrainPending' = [mDrainPending EXCEPT ![Told.s] = FALSE]
    /\ handler' = [at |-> "flushed", s |-> Told.s, n |-> Told.n]
    /\ UNCHANGED <<drains, undrained, onState, reposted, opened>>

(* onFlush up to its last flags: everything goes back to the decoder.      *)
onFlush ==
    /\ Handle("flush")
    /\ mFlushing' = [mFlushing EXCEPT ![Told.s] = FALSE]
    /\ LET parked == IF Told.s = "video" THEN mPendingInputMessages ELSE <<>> IN
       /\ Consume(Told.s, BuffersOf(mQueue[Told.s] \o parked))
       /\ mPendingInputMessages' = IF Told.s = "video" THEN <<>> ELSE mPendingInputMessages
    /\ mQueue' = [mQueue EXCEPT ![Told.s] = <<>>]
    /\ mGeneration' = [mGeneration EXCEPT ![Told.s] = @ + 1]
    /\ mDrainPending' = [mDrainPending EXCEPT ![Told.s] = FALSE]
    /\ handler' = [at |-> "flushed", s |-> Told.s, n |-> Told.n]
    /\ UNCHANGED <<drains, undrained, onState, reposted, opened>>

FlushComplete ==
    /\ handler.at = "flushed"
    /\ handler' = Idle
    /\ mAudioRenderingStarted' = FALSE /\ mVideoSampleReceived' = FALSE
    /\ UNCHANGED <<messages, mFlushing, onBuffers, onDrains, mPaused, mAudioSinkStopped,
                   mHasAudio, offloading, onPlayer>>

(* A pause that relies on the generations alone.                           *)
PauseAsPending ==
    /\ Handle("pause")
    /\ mGeneration' = IF mPaused THEN mGeneration ELSE [s \in Streams |-> mGeneration[s] + 1]
    /\ mPaused' = TRUE
    /\ UNCHANGED <<mDrainPending, drains, undrained, mAudioSinkStopped, mVideoSampleReceived,
                   mAudioRenderingStarted, mHasAudio, offloading, onBuffers, mFlushing, handler,
                   opened>>

onPause ==
    /\ Handle("pause")
    /\ mGeneration' = IF mPaused THEN mGeneration ELSE [s \in Streams |-> mGeneration[s] + 1]
    /\ mDrainPending' = IF mPaused THEN mDrainPending ELSE [s \in Streams |-> FALSE]
    /\ mPaused' = TRUE
    /\ UNCHANGED <<drains, undrained, mAudioSinkStopped, mVideoSampleReceived,
                   mAudioRenderingStarted, mHasAudio, offloading, onBuffers, mFlushing, handler,
                   opened>>

onResume ==
    /\ Handle("resume")
    /\ UNCHANGED <<onBuffers, mFlushing, handler, opened>>
    /\ mPaused' = FALSE
    /\ mAudioSinkStopped' = (mAudioSinkStopped /\ ~(mPaused /\ mHasAudio))
    /\ UNCHANGED <<mVideoSampleReceived, mAudioRenderingStarted, mHasAudio, offloading>>
    /\ PostDrains(IF mPaused THEN Streams ELSE {}, mDrainPending, drains)

(* The sink starts, but nobody posts a drain for what is in the queue.     *)
Strand == undrained' = (undrained \/ (mQueue["audio"] # <<>> /\ ~mDrainPending["audio"]))

onStartAudioSink ==
    /\ Handle("start")
    /\ mAudioSinkStopped' = FALSE /\ Strand
    /\ UNCHANGED <<drains, mDrainPending, mGeneration, mPaused, mVideoSampleReceived,
                   mAudioRenderingStarted, mHasAudio, offloading, onBuffers, mFlushing, handler,
                   opened>>

onStopAudioSink ==
    /\ Handle("stop")
    /\ mAudioSinkStopped' = TRUE
    /\ UNCHANGED <<onDrains, mPaused, mVideoSampleReceived, mAudioRenderingStarted, mHasAudio,
                   offloading, onBuffers, mFlushing, handler, opened>>

onDisableOffloadAudio ==
    /\ Handle("disable")
    /\ offloading' = FALSE /\ Strand
    /\ mGeneration' = [mGeneration EXCEPT !["audio"] = @ + 1]
    /\ UNCHANGED <<drains, mDrainPending, mPaused, mAudioSinkStopped, mVideoSampleReceived,
                   mAudioRenderingStarted, mHasAudio, onBuffers, mFlushing, handler, opened>>

(* An offload sink that cannot be opened is given up for a plain one, or   *)
(* for none if the player asked for no other.                              *)
onOpenAudioSink ==
    /\ Handle("open")
    /\ \/ /\ opened' = "yes" /\ mAudioSinkStopped' = FALSE
          /\ UNCHANGED <<offloading, mGeneration>>
       \/ /\ offloading /\ offloading' = FALSE
          /\ mGeneration' = [mGeneration EXCEPT !["audio"] = @ + 1]
          /\ \/ opened' = "yes" /\ mAudioSinkStopped' = FALSE
             \/ opened' = "no" /\ UNCHANGED mAudioSinkStopped
    /\ UNCHANGED <<drains, mDrainPending, undrained, mPaused, mVideoSampleReceived,
                   mAudioRenderingStarted, mHasAudio, onBuffers, mFlushing, handler>>

----------------------------------------------------------------------------
Without(s) == [mDrainPending EXCEPT ![s] = FALSE]
Draining == handler = Idle /\ UNCHANGED <<messages, mFlushing, handler, onPlayer,
                                          mPendingInputMessages, reposted>>

DropStale(d) ==
    /\ Draining /\ ~Current(d)
    /\ drains' = drains \ {d}
    /\ UNCHANGED <<mDrainPending, mGeneration, undrained, mQueue, returned, onState>>

(* How far the audio queue can be taken before its end of stream.          *)
Lead == Cardinality({i \in DOMAIN mQueue["audio"] : \A j \in 1 .. i : mQueue["audio"][j] # EOS})
(* The first k buffers are taken, and the end of the stream if `end` is 1; *)
(* part of the next buffer may have been.                                  *)
TakeAudio(k, end) ==
    /\ Consume("audio", {mQueue["audio"][i] : i \in 1 .. k})
    /\ mQueue' = [mQueue EXCEPT !["audio"] = SubSeq(@, k + end + 1, Len(@))]
    /\ end = 1 => k = Lead /\ k < Len(mQueue["audio"])
Rendering(some) == mAudioRenderingStarted' = (mAudioRenderingStarted \/ some)

(* onDrainAudioQueue writes what the sink has room for, or up to the end   *)
(* of the stream, where it may stop the sink; otherwise it drains again.   *)
onDrainAudioQueue(d) ==
    /\ Draining /\ Current(d) /\ d.s = "audio"
    /\ UNCHANGED <<mPaused, mVideoSampleReceived, mHasAudio, offloading>>
    /\ \E k \in 0 .. Lead : \E some \in {k > 0, Lead > 0} : Rendering(some) /\
          \/ /\ TakeAudio(k, 0) /\ UNCHANGED mAudioSinkStopped
             /\ PostDrains({"audio"}, Without("audio"), drains \ {d})
          \/ /\ TakeAudio(k, 1)
             /\ mAudioSinkStopped' \in {TRUE, mAudioSinkStopped}
             /\ mDrainPending' = Without("audio") /\ drains' = drains \ {d}
             /\ UNCHANGED <<mGeneration, undrained>>

(* getPosition fails, before anything is written or after: no new drain.   *)
NoPosition(d) ==
    /\ Draining /\ Current(d) /\ d.s = "audio"
    /\ \E k \in 0 .. Lead : \E some \in {k > 0, Lead > 0} : TakeAudio(k, 0) /\ Rendering(some)
    /\ mDrainPending' = Without("audio") /\ drains' = drains \ {d}
    /\ undrained' = TRUE
    /\ UNCHANGED <<mGeneration, mPaused, mAudioSinkStopped, mVideoSampleReceived, mHasAudio,
                   offloading>>

(* kWhatDrainVideoQueue and kWhatPostDrainVideoQueue.                      *)
onDrainVideoQueue(d) ==
    /\ Draining /\ Current(d) /\ d.s = "video"
    /\ LET q == mQueue["video"] IN
       \/ /\ ~d.repost
          /\ Consume("video", {Head(q)} \ {EOS})
          /\ mQueue' = [mQueue EXCEPT !["video"] = Tail(q)]
          /\ mVideoSampleReceived' = (mVideoSampleReceived \/ Head(q) # EOS)
       \/ /\ d.repost
          /\ UNCHANGED <<mQueue, returned, mVideoSampleReceived>>
    /\ UNCHANGED <<mPaused, mAudioSinkStopped, mAudioRenderingStarted, mHasAudio, offloading>>
    /\ PostDrains({"video"}, Without("video"), drains \ {d})

(* The callback of an offloaded sink.  The first data that it takes sends  *)
(* the parked buffers to the looper again, behind what waits there.        *)
fillAudioBuffer ==
    /\ offloading /\ opened = "yes" /\ ~mPaused /\ mQueue["audio"] # <<>>
    /\ Rendering(Lead > 0)
    /\ LET parked == IF Lead > 0 THEN mPendingInputMessages ELSE <<>>
           again == [i \in DOMAIN parked |-> Msg("queue", "video", parked[i])]
       IN  /\ mPendingInputMessages' = IF Lead > 0 THEN <<>> ELSE mPendingInputMessages
           /\ reposted' = reposted \cup BuffersOf(parked)
           /\ \/ messages' = messages \o again /\ \E k \in 0 .. Lead : TakeAudio(k, 0)
              \/ /\ messages' = messages \o again \o <<Msg("stop", "audio", 0)>>
                 /\ TakeAudio(Lead, 1)
    /\ UNCHANGED <<mFlushing, handler, onDrains, mPaused, mAudioSinkStopped,
                   mVideoSampleReceived, mHasAudio, offloading, onPlayer>>

RendererNext ==
    \/ \E s \in Streams : queueBuffer(s) \/ queueEOS(s) \/ flush(s)
    \/ \E what \in {"pause", "resume", "start", "disable"} : Signal(what)
    \/ openAudioSink
    \/ onQueueBuffer \/ TestStarted \/ Park \/ onQueueEOS \/ onFlush \/ FlushComplete
    \/ onPause \/ onResume \/ onStartAudioSink \/ onStopAudioSink
    \/ onDisableOffloadAudio \/ onOpenAudioSink
    \/ \E d \in drains : DropStale(d) \/ onDrainAudioQueue(d) \/ NoPosition(d) \/ onDrainVideoQueue(d)
    \/ fillAudioBuffer

RendererSpec == RendererInit /\ [][RendererNext]_rendervars

----------------------------------------------------------------------------
(* Every variable of the model keeps its type.                             *)
RendererTypeOK ==
    /\ messages \in Seq([what : {"queue", "eos", "flush", "pause", "resume", "start", "stop",
                                 "open", "disable"},
                         s : Streams, n : 0 .. MaxBuffers])
    /\ drains \subseteq [s : Streams, gen : Nat, repost : BOOLEAN, twin : BOOLEAN]
    /\ mQueue \in [Streams -> Seq(0 .. MaxBuffers)]
    /\ mPendingInputMessages \in Seq(1 .. MaxBuffers)
    /\ mDrainPending \in [Streams -> BOOLEAN] /\ mFlushing \in [Streams -> BOOLEAN]
    /\ mGeneration \in [Streams -> Nat]
    /\ handler \in [at : {"idle", "park", "flushed"}, s : Streams, n : 0 .. MaxBuffers]
    /\ opened \in {"no", "asked", "yes"}

Times(n, q) == Cardinality({i \in DOMAIN q : q[i] = n})
Waits(s, n) == Cardinality({i \in DOMAIN messages : messages[i] = Msg("queue", s, n)})
Parked(n) == Times(n, mPendingInputMessages)
               + IF handler.at = "park" /\ handler.n = n THEN 1 ELSE 0
Shuffled(s, n) == s = "video" /\ n \in reposted

(* A buffer that was queued is on its way, parked, in its queue or back    *)
(* with the decoder, in one of these and once.  Buffers stay in order, and *)
(* a flush returns all that were queued before it was called; those sent   *)
(* to the looper a second time lose their place, and are excepted.         *)
BuffersComeBack ==
    /\ \A s \in Streams, n \in 1 .. MaxBuffers :
          Waits(s, n) + Times(n, mQueue[s]) + returned[s][n]
             + (IF s = "video" THEN Parked(n) ELSE 0) = IF n <= given[s] THEN 1 ELSE 0
    /\ \A s \in Streams, i, j \in 1 .. MaxBuffers :
          i < j /\ j <= Len(mQueue[s]) /\ mQueue[s][j] # EOS =>
             mQueue[s][i] < mQueue[s][j] \/ Shuffled(s, mQueue[s][j])
    /\ handler.at = "flushed" =>
          \A n \in 1 .. handler.n : returned[handler.s][n] = 1 \/ Shuffled(handler.s, n)

(* A drain is pending exactly when one of the present generation is under  *)
(* way, and one only: flushes and pauses outdate all others.  A queue with *)
(* something in it is being drained, unless the player has paused, the     *)
(* sink is stopped or takes offloaded audio itself, or audio was left      *)
(* without a drain in one of the three known ways.                         *)
OnlyKnownStalls ==
    \A s \in Streams :
       /\ Cardinality({d \in drains : d.s = s /\ Current(d)}) = IF mDrainPending[s] THEN 1 ELSE 0
       /\ mQueue[s] # <<>> /\ ~mPaused => \/ mDrainPending[s]
                                          \/ s = "audio" /\ (mAudioSinkStopped \/ offloading \/ undrained)
=============================================================================
