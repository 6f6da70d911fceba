------------------------------ MODULE MCSafety ------------------------------
(***************************************************************************)
(* The parts of which nothing but invariants is checked share one run, as  *)
(* in MCParts: the initial state says which of them moves.                 *)
(***************************************************************************)
EXTENDS BreakpointDev, Linker, Acsm, Kmp, Renderer

(* Two files, two cpus with two slots, and a debugger of one task.         *)
DataOnly == {"data"}
TwoSlots == [y \in DataOnly |-> 2]
TwoFiles == {[cpu |-> k, target |-> "none", type |-> "data", id |-> n] : k \in Cpus, n \in BpIds}
FilesAndDebugger ==
    TwoFiles \cup {[cpu |-> 0, target |-> t, type |-> "data", id |-> 99] : t \in {"t1"}}

(* A library that needs two others, one of them through the other; one of  *)
(* a program of its own; and two that need each other.                     *)
LibraryNeeds == [app |-> <<"mid", "base">>, mid |-> <<"base">>, base |-> <<>>,
                 plug |-> <<"mid">>, loop |-> <<"mid", "back">>, back |-> <<"loop">>]

(* An upper case letter and two others; patterns inside and overlapping    *)
(* each other.                                                             *)
LowerOf1 == [l \in 1 .. 3 |-> IF l = 1 THEN 2 ELSE l]
SevenPatterns == {<<2>>, <<3>>, <<2, 3>>, <<3, 2>>, <<2, 2, 3>>, <<3, 2, 3>>, <<1, 3>>}

(* Two calls of the player come with one buffer of each stream.            *)
FewCalls == requests' <= 1 \/ \A s \in Streams : given'[s] <= 1

----------------------------------------------------------------------------
VARIABLE part

SafetyInit ==
    /\ part \in {"breakpoints", "linker", "acsm", "kmp", "renderer"}
    /\ Init /\ LinkerInit
    /\ AcsmInit /\ (part # "acsm" => no_case)
    /\ IF part = "kmp" THEN KmpInit
       ELSE P = <<"a">> /\ file = <<>> /\ multi = FALSE /\ KmpInit
    /\ RendererInit /\ (part # "renderer" => ~offloading)

(* The other parts may come to an end; the breakpoint device never does.   *)
MayEnd == part # "breakpoints" /\ UNCHANGED <<vars, ldvars, acvars, kmvars, rendervars>>

SafetyNext ==
    \/ MayEnd
    \/ part = "breakpoints" /\ Next
    \/ part = "linker" /\ LinkerNext
    \/ part = "acsm" /\ AcsmNext
    \/ part = "kmp" /\ KmpNext
    \/ part = "renderer" /\ RendererNext /\ FewCalls

OthersStay ==
    /\ part # "breakpoints" => UNCHANGED vars
    /\ part # "linker" => UNCHANGED ldvars
    /\ part # "acsm" => UNCHANGED acvars
    /\ part # "kmp" => UNCHANGED kmvars
    /\ part # "renderer" => UNCHANGED rendervars

(* Both matchers find what a plain definition of occurrence says.          *)
MatchersAreRight == MatchesAreFound /\ FirstLineIsFound

SafetySpec ==
    /\ SafetyInit
    /\ [][SafetyNext /\ OthersStay /\ UNCHANGED part]_<<part, vars, ldvars, acvars, kmvars, rendervars>>
=============================================================================
