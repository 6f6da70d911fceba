------------------------------- MODULE MCFat --------------------------------
(***************************************************************************)
(* Instances of FatBlocks.  The cells that extents are in are alike.       *)
(***************************************************************************)
EXTENDS FatBlocks, TLC

OneVolume == [i \in Inodes |-> CHOOSE v \in Volumes : TRUE]
AlternateVolumes == CHOOSE f \in [Inodes -> Volumes] : \A v \in Volumes : \E i \in Inodes : f[i] = v
FiveClusters == [v \in Volumes |-> 6]
Alike == Permutations(Cells) \cup Permutations(Inodes \ Dirs)
Empty == {{}}
EmptyOrSplit == {{}, {4}}

VARIABLE users \* the inodes in use

FatMCInit == /\ FatInit
             /\ \/ /\ \A v \in Volumes : fat[v] = {}
                   /\ failures = MaxFailures /\ users = Inodes \ Dirs
                \/ /\ \A v \in Volumes : fat[v] # {}
                   /\ failures = 0 /\ users \in {{f, g} : f \in Inodes \ Dirs, g \in Inodes}
FatMCNext == FatNext /\ inuse' \subseteq users /\ UNCHANGED users
FatMCSpec == FatMCInit /\ [][FatMCNext]_<<fatvars, users>>

EverybodySpec == FatInit /\ users = Inodes /\ [][FatNext /\ UNCHANGED users]_<<fatvars, users>>
=============================================================================
