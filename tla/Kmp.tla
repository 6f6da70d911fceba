-------------------------------- MODULE Kmp ---------------------------------
(***************************************************************************)
(* src/algo/kmp: the search of a file for a pattern.  The file is a stream *)
(* with a get position; one action is one turn of the loop, which either   *)
(* compares the character it holds or takes the next.  Lines fit the       *)
(* buffer of getline, and out is a set: a line printed twice counts once.  *)
(***************************************************************************)
EXTENDS Integers, Sequences

CONSTANTS Letters, Newline,
          MaxPattern, MaxFile, \* bounds: length of the pattern and of the file
          Flags   \* subset of BOOLEAN: whether -m may be given

ASSUME LettersAssumption == Newline \notin Letters

VARIABLES P, file, multi,
          pos,      \* characters of the file that have been taken
          good,     \* fin.good()
          c, j, line_pos, line_num,
          out,      \* the lines that were printed, by where they start
          kmpc      \* search or done
kmvars == <<P, file, multi, pos, good, c, j, line_pos, line_num, out, kmpc>>

Strings(S, n) == UNION {[1 .. k -> S] : k \in 0 .. n}
m == Len(P)

(* computeFailureArray: F[i] for a prefix of i + 1 characters, from those  *)
(* before; j falls back until its character is P[i] or it is 0.            *)
F[i \in 0 .. m - 1] ==
    IF i = 0 THEN 0
    ELSE LET back[k \in 0 .. i - 1] == IF P[k + 1] = P[i + 1] THEN k + 1
                                       ELSE IF k > 0 THEN back[F[k - 1]] ELSE 0
         IN  back[F[i - 1]]

(* fin.get() at position q: the character, or the end of the file.         *)
Get(q) == /\ pos' = IF q < Len(file) THEN q + 1 ELSE q
          /\ good' = (good /\ q < Len(file))
          /\ c' = IF q < Len(file) THEN file[q + 1] ELSE Newline

(* Where getline from position q stops: after the newline, or at the end.  *)
LineEnd(q) == CHOOSE e \in q .. Len(file) :
                 /\ \A k \in q + 1 .. e - 1 : file[k] # Newline
                 /\ e = Len(file) \/ (e > q /\ file[e] = Newline)
Ended(q) == LineEnd(q) = q \/ file[LineEnd(q)] # Newline

KmpInit ==
    /\ P \in Strings(Letters, MaxPattern) \ {<<>>}
    /\ file \in Strings(Letters \cup {Newline}, MaxFile)
    /\ multi \in Flags
    /\ pos = IF file = <<>> THEN 0 ELSE 1
    /\ good = (file # <<>>) /\ c = IF file = <<>> THEN Newline ELSE file[1]
    /\ j = 0 /\ line_pos = 0 /\ line_num = 0 /\ out = {} /\ kmpc = "search"

(* The top of the loop: a newline starts a line, whenever it is seen.      *)
Line == IF c = Newline THEN pos ELSE line_pos
Number == IF c = Newline THEN line_num + 1 ELSE line_num
Turn == kmpc = "search" /\ good /\ line_pos' = Line /\ line_num' = Number

Agree == /\ Turn /\ c = P[j + 1] /\ j < m - 1
         /\ Get(pos) /\ j' = j + 1
         /\ UNCHANGED <<P, file, multi, out, kmpc>>

(* A mismatch that starts the pattern again.                               *)
StartAgain == /\ Turn /\ c # P[j + 1] /\ j > 0
              /\ j' = 0
              /\ UNCHANGED <<P, file, multi, pos, good, c, out, kmpc>>

FallBack == /\ Turn /\ c # P[j + 1] /\ j > 0
            /\ j' = F[j - 1]
            /\ UNCHANGED <<P, file, multi, pos, good, c, out, kmpc>>

Skip == /\ Turn /\ c # P[j + 1] /\ j = 0
        /\ Get(pos)
        /\ UNCHANGED <<P, file, multi, j, out, kmpc>>

(* A match: the line is read again and printed.  Without -m that is all;   *)
(* with it the loop goes on, after another getline.                        *)
Match == /\ Turn /\ c = P[j + 1] /\ j = m - 1
         /\ out' = out \cup {Line}
         /\ LET first == LineEnd(Line)
                second == IF Ended(Line) THEN first ELSE LineEnd(first)
            IN  \/ ~multi /\ kmpc' = "done" /\ UNCHANGED <<pos, good, c, j>>
                \/ /\ multi /\ j' = 0
                   /\ IF Ended(Line) \/ Ended(first)
                      THEN good' = FALSE /\ pos' = second /\ c' = c
                      ELSE Get(second)
                   /\ UNCHANGED kmpc
         /\ UNCHANGED <<P, file, multi>>

Exit == /\ kmpc = "search" /\ ~good
        /\ kmpc' = "done"
        /\ UNCHANGED <<P, file, multi, pos, good, c, j, line_pos, line_num, out>>

KmpNext == Agree \/ FallBack \/ Skip \/ Match \/ Exit
KmpSpec == KmpInit /\ [][KmpNext]_kmvars

----------------------------------------------------------------------------
(* Every variable of the model keeps its type.                             *)
KmpTypeOK ==
    /\ pos \in 0 .. Len(file) /\ line_pos \in 0 .. pos /\ line_num \in Nat
    /\ good \in BOOLEAN /\ c \in Letters \cup {Newline} /\ j \in 0 .. m - 1
    /\ out \subseteq 0 .. Len(file) /\ kmpc \in {"search", "done"}

(* The lines with the pattern in them, by where they start.                *)
Starts == {0} \cup {k \in 1 .. Len(file) : file[k] = Newline}
OnLine(s) == \E at \in s .. Len(file) - m :
                /\ SubSeq(file, at + 1, at + m) = P
                /\ \A k \in s + 1 .. at : file[k] # Newline
Matching == {s \in Starts : OnLine(s)}

(* "Returns: the first line in the file containing the specified pattern". *)
FirstLineIsFound ==
    kmpc = "done" /\ ~multi => out = {s \in Matching : \A t \in Matching : s <= t}
=============================================================================
