----------------------------- MODULE FatBlocks ------------------------------
(***************************************************************************)
(* fs/fat: the extents of free clusters that fatent.c keeps beside the     *)
(* FAT, so that files written at the same time grow in places of their     *)
(* own.  One tree serves every volume.  A freed extent keeps its contents, *)
(* and pointers to it stay: what a program does once it follows one is     *)
(* open, so that the model stops there, unless GoesOn says that it finds   *)
(* what was left or the extent that has been made there since.             *)
(* An action is a critical section of root_lock with the changes of the    *)
(* FAT next to it, which sbi->fat_lock hides from everybody else.          *)
(***************************************************************************)
EXTENDS Integers, Sequences, FiniteSets

CONSTANTS Volumes,
          Inodes,       \* inode objects, which are used again
          Dirs,         \* those of directories
          VolumeOf,
          LastOf,       \* max_cluster - 1 of each volume
          Cells,        \* memory for extents
          NULL,
          AlreadyThere, \* what may be in use when a volume is first mounted
          UseFree,      \* volumes mounted with -o usefree, and with a count on disk
          MaxOpens,     \* bound: opens of a file at a time
          GrowsClosed,  \* files are also extended by path
          Remounts,     \* volumes that are unmounted
          GoesOn,
          MaxFailures   \* bound: reads, writes and allocations of memory that fail

FAT_START_ENT == 2
Clusters(v) == FAT_START_ENT .. LastOf[v]

(* A volume has two clusters at least.                                     *)
ASSUME FatAssumption ==
    /\ Dirs \subseteq Inodes /\ VolumeOf \in [Inodes -> Volumes]
    /\ LastOf \in [Volumes -> Nat] /\ \A v \in Volumes : LastOf[v] > FAT_START_ENT
    /\ NULL \notin Cells \cup Inodes /\ "count" \notin Inodes \cup {NULL}
    /\ UseFree \subseteq Volumes /\ Remounts \subseteq Volumes /\ MaxFailures \in Nat

VARIABLES mem,            \* struct blocks_mamager in each cell, freed ones too
          tree,           \* the cells in start_root
          last_merged,
          node,           \* blocks_mamager_node of each inode
          fat,            \* the entries of each volume that are not FAT_ENT_FREE
          chain,          \* the clusters of each inode
          freeing,        \* the clusters that its caller has yet to free
          fat_lock,       \* its holder: an inode's caller, "count" or NULL
          free_clusters, free_clus_valid,
          state,          \* of a volume: out, mounting, mounted or closing
          counting,       \* the entry a count has come to; 1: before it has the lock; 0: none
          inuse, doomed,  \* inodes, and those that are being evicted with their clusters
          opens,
          touched,        \* a freed extent or inode has been used
          bug,            \* an extent outside the tree has been erased: BUG_ON
          clash,          \* a cluster in use has come out of the tree: BUG
          failures,
          counted,        \* history: the tree holds the result of a count
          lost,           \* history: free clusters that a failure has kept out of the tree
          strayed,        \* history: an extent and its inode have been parted in a known way
          gaveup,         \* history: the manager has had no extent to offer
          tail            \* history: the last cluster from an inode's present extent, or 0
mapvars == <<mem, tree, last_merged, node, touched, bug, strayed>>
countvars == <<free_clusters, free_clus_valid, state, counting, counted>>
inodevars == <<inuse, doomed, opens>>
filevars == <<fat, chain, freeing, fat_lock, tail, clash>>
fatvars == <<mapvars, countvars, inodevars, filevars, failures, lost, gaveup>>

NoExtent == [start |-> 0, length |-> 0, inode |-> NULL]

FatInit ==
    /\ mem = [n \in Cells |-> NoExtent] /\ tree = {} /\ last_merged = NULL
    /\ node = [i \in Inodes |-> NULL]
    /\ fat \in [Volumes -> AlreadyThere] /\ chain = [i \in Inodes |-> <<>>]
    /\ freeing = [i \in Inodes |-> <<>>] /\ fat_lock = [v \in Volumes |-> NULL]
    /\ free_clusters = [v \in Volumes |-> -1] /\ free_clus_valid = [v \in Volumes |-> FALSE]
    /\ state = [v \in Volumes |-> "out"] /\ counting = [v \in Volumes |-> 0]
    /\ inuse = {} /\ doomed = {} /\ opens = [i \in Inodes |-> 0]
    /\ touched = FALSE /\ bug = FALSE /\ clash = FALSE /\ failures \in {0, MaxFailures}
    /\ counted = [v \in Volumes |-> FALSE] /\ lost = [v \in Volumes |-> {}]
    /\ strayed = FALSE /\ gaveup = [v \in Volumes |-> FALSE]
    /\ tail = [i \in Inodes |-> 0]

FreeOf(v) == Clusters(v) \ fat[v]

----------------------------------------------------------------------------
(* The block manager, as functions of its state s.                         *)
Map == [mem |-> mem, tree |-> tree, last |-> last_merged, node |-> node,
        touched |-> touched, bug |-> bug, strayed |-> strayed]
Becomes(s) == /\ mem' = s.mem /\ tree' = s.tree /\ last_merged' = s.last /\ node' = s.node
              /\ touched' = s.touched /\ bug' = s.bug /\ strayed' = s.strayed

End(e) == e.start + e.length
Touch(s, n) == [s EXCEPT !.touched = @ \/ n \notin s.tree]
LeastBy(s, N) == CHOOSE n \in N : \A o \in N : s.mem[n].start <= s.mem[o].start

(* kfree; without GoesOn nobody reads what is left.                        *)
Erase(s, n) == [s EXCEPT !.tree = @ \ {n}, !.mem[n] = IF GoesOn THEN @ ELSE NoExtent]

(* The neighbours of an extent; one that is not in the tree has none.      *)
rb_next(s, n) ==
    LET after == {o \in s.tree : s.mem[o].start > s.mem[n].start}
    IN IF n \notin s.tree \/ after = {} THEN NULL ELSE LeastBy(s, after)
rb_prev(s, n) ==
    LET before == {o \in s.tree : s.mem[o].start < s.mem[n].start}
    IN IF n \notin s.tree \/ before = {} THEN NULL
       ELSE CHOOSE o \in before : \A p \in before : s.mem[p].start <= s.mem[o].start

(* Not the code: the next extent goes without being joined.                *)
MergeForgets(s, n) ==
    LET x == rb_next(s, n)
    IN IF x = NULL \/ End(s.mem[n]) # s.mem[x].start THEN s ELSE Erase([s EXCEPT !.last = n], x)

(* Joins n with the next extent.  An owner of that one is left with n,     *)
(* which does not come to name it: inode is copied after it was cleared.   *)
try_back_merge(s, n) ==
    LET x == rb_next(s, n)
        owner == s.mem[x].inode
    IN IF \/ x = NULL
          \/ End(s.mem[n]) # s.mem[x].start
          \/ owner # NULL /\ s.mem[n].inode # NULL
       THEN s
       ELSE Erase([s EXCEPT !.mem[n].length = @ + s.mem[x].length, !.mem[x].inode = NULL,
                            !.node = [i \in Inodes |-> IF i = owner THEN n ELSE @[i]],
                            !.last = n, !.strayed = @ \/ owner # NULL,
                            !.touched = @ \/ (owner # NULL /\ owner \notin inuse)], x)

try_front_merge(s, n) == try_back_merge([s EXCEPT !.last = n], rb_prev(s, n))

(* What takes in blocks b .. b + k - 1, and the extent that it becomes.    *)
Takes(e, b, k) == b \in {End(e), e.start - k, e.start}
blocks_mamager_try_merge(e, b, k) ==
    CASE b = End(e)       -> [e EXCEPT !.length = @ + k]
      [] b + k = e.start  -> [e EXCEPT !.start = @ - k, !.length = @ + k]
      [] OTHER            -> e

Made(s, c, b, k) == [s EXCEPT !.mem[c] = [start |-> b, length |-> k, inode |-> NULL],
                              !.tree = @ \cup {c}]

(* The extent merged last is tried first.  Then the search comes across    *)
(* both neighbours, in an order that is up to the shape of the tree.       *)
blocks_mamager_free_blocks(s, b, k) ==
    LET u == IF s.last = NULL THEN s ELSE Touch(s, s.last)
        merged == IF s.last # NULL /\ Takes(s.mem[s.last], b, k) THEN {s.last}
                  ELSE {n \in s.tree : Takes(s.mem[n], b, k)}
        With(n) == [u EXCEPT !.mem[n] = blocks_mamager_try_merge(@, b, k)]
    IN IF merged # {}
       THEN {[map |-> IF With(n).mem[n].start = b THEN try_front_merge(With(n), n)
                                                  ELSE try_back_merge(With(n), n),
              kept |-> TRUE] : n \in merged}
       ELSE {[map |-> Made(u, c, b, k), kept |-> TRUE] : c \in Cells \ s.tree}
            \cup {[map |-> u, kept |-> FALSE]}

(* Takes k blocks from the front; an extent with none left is freed.       *)
alloc_blocks_priv(s, n, i, k) ==
    LET t == [Touch(s, n) EXCEPT !.mem[n].start = @ + k, !.mem[n].length = @ - k]
    IN IF t.mem[n].length > 0 THEN t
       ELSE Erase([t EXCEPT !.node[i] = NULL, !.bug = @ \/ n \notin s.tree], n)

Reserve(s, n, i) == IF i \in Dirs THEN s
                    ELSE [s EXCEPT !.node[i] = n, !.mem[n].inode = i]
Granted(s, n, i, k) == [map |-> alloc_blocks_priv(s, n, i, k), got |-> s.mem[n].start, kept |-> TRUE]
Refused(s, kept) == [map |-> s, got |-> -1, kept |-> kept]

(* Not the code: an extent that a file has is given to another one.        *)
FitsTaken(e, k) == e.length >= k
Fits(e, k) == e.inode = NULL /\ e.length >= k

(* From the file's own extent, or the first one that nobody has, or the    *)
(* second half of the longest.                                             *)
blocks_mamager_alloc_blocks(s, i, k) ==
    LET own == s.node[i]
        fit == {n \in s.tree : Fits(s.mem[n], k)}
        first == LeastBy(s, fit)
        long == LeastBy(s, {n \in s.tree : \A o \in s.tree : s.mem[n].length >= s.mem[o].length})
        half == s.mem[long].length - s.mem[long].length \div 2
        Split(c) == Made([s EXCEPT !.mem[long].length = @ - half], c,
                         s.mem[long].start + s.mem[long].length \div 2, half)
    IN CASE own # NULL /\ i \notin Dirs ->
              {IF s.mem[own].length < k
               THEN Refused([Touch(s, own) EXCEPT !.mem[own].inode = NULL, !.node[i] = NULL], TRUE)
               ELSE Granted(s, own, i, k)}
         [] (own = NULL \/ i \in Dirs) /\ fit # {} -> {Granted(Reserve(s, first, i), first, i, k)}
         [] OTHER ->
              IF s.tree = {} \/ s.mem[long].length < 2 THEN {Refused(s, TRUE)}
              ELSE {IF half >= k * 2 + 1 THEN Granted(Reserve(Split(c), c, i), c, i, k)
                    ELSE Refused(Split(c), TRUE) : c \in Cells \ s.tree}
                   \cup {Refused(s, FALSE)}

blocks_mamager_on_inode_release(s, i) ==
    LET n == s.node[i]
        t == [Touch(s, n) EXCEPT !.mem[n].inode = NULL, !.node[i] = NULL]
    IN IF n = NULL \/ i \in Dirs THEN s ELSE try_front_merge(try_back_merge(t, n), n)

blocks_mamager_free_all(s) ==
    LET owners == {s.mem[n].inode : n \in s.tree} \ {NULL}
    IN [s EXCEPT !.node = [i \in Inodes |-> IF i \in owners THEN NULL ELSE @[i]],
                 !.mem = [n \in Cells |-> IF ~GoesOn THEN NoExtent
                                         ELSE IF n \in s.tree THEN [@[n] EXCEPT !.inode = NULL] ELSE @[n]],
                 !.tree = {}, !.touched = @ \/ ~(owners \subseteq inuse)]

----------------------------------------------------------------------------
Fail == failures < MaxFailures /\ failures' = failures + 1
(* kzalloc fails, or has no cell left.                                     *)
KeptOrFailed(r) == IF r.kept \/ Cells \subseteq tree THEN UNCHANGED failures ELSE Fail
Running == ~bug /\ ~clash /\ (~touched \/ GoesOn)
(* Nobody else is in a call that changes the clusters of i (i_mutex).      *)
Idle(i) == /\ i \in inuse \ doomed /\ freeing[i] = <<>>
           /\ state[VolumeOf[i]] = "mounted"

(* The entries the search visits from b on.                                *)
Visited(v, b, k) ==
    LET first == IF b > LastOf[v] THEN FAT_START_ENT ELSE b
        size == LastOf[v] - FAT_START_ENT + 1
    IN [j \in 1 .. k |-> FAT_START_ENT + ((first - FAT_START_ENT + j - 1) % size)]
Count(v, d) == free_clusters' = [free_clusters EXCEPT ![v] = IF @ = -1 THEN -1 ELSE @ + d]

(* The manager has no extent to offer: the volume is full from now on.     *)
GiveUp(i, v) ==
    /\ free_clusters' = [free_clusters EXCEPT ![v] = 0]
    /\ free_clus_valid' = [free_clus_valid EXCEPT ![v] = TRUE]
    /\ gaveup' = [gaveup EXCEPT ![v] = TRUE]
    /\ tail' = [tail EXCEPT ![i] = 0]
    /\ UNCHANGED <<fat, chain, freeing, lost, clash>>

(* The entries are taken and chained.  A read may fail on the way, and a   *)
(* write or the linking to the file (fat_chain_add) afterwards: what was   *)
(* taken is freed again.                                                   *)
TakeEntries(i, k, v, got) ==
    LET e == Visited(v, got, k)
        Rest(done) == {got + j : j \in done .. k - 1}
    IN \E done \in 0 .. k :
         /\ \A j \in 1 .. done : e[j] \notin fat[v]
         /\ fat' = [fat EXCEPT ![v] = @ \cup {e[j] : j \in 1 .. done}]
         /\ Count(v, -done) /\ UNCHANGED <<free_clus_valid, gaveup>>
         /\ IF done = k
            THEN /\ UNCHANGED <<clash, lost>>
                 /\ \/ /\ chain' = [chain EXCEPT ![i] = @ \o e] /\ UNCHANGED <<freeing, failures>>
                       /\ tail' = [tail EXCEPT ![i] = IF node'[i] = NULL THEN 0 ELSE e[k]]
                    \/ /\ Fail /\ freeing' = [freeing EXCEPT ![i] = e]
                       /\ tail' = [tail EXCEPT ![i] = 0] /\ UNCHANGED chain
            ELSE /\ tail' = [tail EXCEPT ![i] = 0] /\ UNCHANGED chain
                 /\ \/ /\ e[done + 1] \in fat[v]
                       /\ clash' = TRUE /\ UNCHANGED <<lost, freeing, failures>>
                    \/ /\ Fail /\ UNCHANGED clash
                       /\ lost' = [lost EXCEPT ![v] = @ \cup Rest(done)]
                       /\ freeing' = [freeing EXCEPT ![i] = SubSeq(e, 1, done)]

(* count is 1 for files; a directory may grow by more.                     *)
fat_alloc_clusters(i, k) ==
    LET v == VolumeOf[i] IN
    /\ Idle(i) /\ fat_lock[v] = NULL
    /\ i \notin Dirs => k = 1 /\ (opens[i] > 0 \/ GrowsClosed)
    /\ ~(free_clusters[v] # -1 /\ free_clus_valid[v] /\ free_clusters[v] < k)
    /\ \E r \in blocks_mamager_alloc_blocks(Map, i, k) :
         /\ Becomes(r.map)
         /\ IF r.got = -1 THEN KeptOrFailed(r) /\ GiveUp(i, v)
                          ELSE TakeEntries(i, k, v, r.got)
    /\ UNCHANGED <<fat_lock, inodevars, state, counting, counted>>

(* One turn of the loop; it ends at EOF, or early at an entry that cannot  *)
(* be read, and leaves the rest of the chain in use.                       *)
fat_free_clusters(i) ==
    LET v == VolumeOf[i]
        c == Head(freeing[i])
        more == Len(freeing[i]) > 1
    IN /\ freeing[i] # <<>> /\ fat_lock[v] \in {NULL, i}
       /\ \/ /\ fat' = [fat EXCEPT ![v] = @ \ {c}] /\ Count(v, 1)
             /\ IF free_clusters[v] = -1 THEN UNCHANGED <<mapvars, lost, failures>>
                ELSE \E r \in blocks_mamager_free_blocks(Map, c, 1) :
                       /\ Becomes(r.map) /\ KeptOrFailed(r)
                       /\ lost' = IF r.kept THEN lost ELSE [lost EXCEPT ![v] = @ \cup {c}]
             /\ freeing' = [freeing EXCEPT ![i] = Tail(@)]
             /\ fat_lock' = [fat_lock EXCEPT ![v] = IF more THEN i ELSE NULL]
          \/ /\ Fail /\ freeing' = [freeing EXCEPT ![i] = <<>>]
             /\ fat_lock' = [fat_lock EXCEPT ![v] = NULL]
             /\ UNCHANGED <<mapvars, fat, free_clusters, lost>>
       /\ UNCHANGED <<inodevars, chain, tail, clash, free_clus_valid, state, counting, counted, gaveup>>

(* fat_free: the file ends after skip clusters.  Writing the new end may   *)
(* fail, and then the rest is not freed.                                   *)
fat_truncate_blocks(i, skip) ==
    /\ chain' = [chain EXCEPT ![i] = SubSeq(@, 1, skip)]
    /\ tail' = [tail EXCEPT ![i] = 0]
    /\ \/ /\ freeing' = [freeing EXCEPT ![i] = SubSeq(chain[i], skip + 1, Len(chain[i]))]
          /\ UNCHANGED failures
       \/ skip > 0 /\ Fail /\ UNCHANGED freeing
    /\ UNCHANGED <<fat, fat_lock, clash>>

Truncate(i, skip) ==
    /\ Idle(i) /\ i \notin Dirs /\ skip < Len(chain[i])
    /\ fat_truncate_blocks(i, skip)
    /\ UNCHANGED <<mapvars, countvars, inodevars, lost, gaveup>>

(* An unlinked inode is evicted with its last reference.  The object is    *)
(* given to a new file with the pointer it has.                            *)
fat_evict_inode(i) ==
    /\ Idle(i) /\ opens[i] = 0
    /\ doomed' = doomed \cup {i} /\ fat_truncate_blocks(i, 0)
    /\ UNCHANGED <<mapvars, countvars, inuse, opens, lost, gaveup>>
fat_destroy_inode(i) ==
    /\ i \in doomed /\ freeing[i] = <<>>
    /\ inuse' = inuse \ {i} /\ doomed' = doomed \ {i}
    /\ UNCHANGED <<mapvars, countvars, filevars, opens, failures, lost, gaveup>>
fat_alloc_inode(i) ==
    /\ i \notin inuse /\ state[VolumeOf[i]] = "mounted"
    /\ inuse' = inuse \cup {i}
    /\ UNCHANGED <<mapvars, countvars, filevars, doomed, opens, failures, lost, gaveup>>

(* The file loses its extent, and the extent keeps its name.               *)
fat_file_open(i) ==
    /\ i \in inuse \ doomed /\ i \notin Dirs /\ state[VolumeOf[i]] = "mounted"
    /\ opens[i] < MaxOpens /\ opens' = [opens EXCEPT ![i] = @ + 1]
    /\ node' = [node EXCEPT ![i] = NULL] /\ tail' = [tail EXCEPT ![i] = 0]
    /\ strayed' = (strayed \/ node[i] # NULL)
    /\ UNCHANGED <<mem, tree, last_merged, touched, bug, countvars, inuse, doomed, fat, chain,
                   freeing, fat_lock, clash, failures, lost, gaveup>>
fat_file_release(i) ==
    /\ opens[i] > 0 /\ opens' = [opens EXCEPT ![i] = @ - 1]
    /\ Becomes(blocks_mamager_on_inode_release(Map, i))
    /\ tail' = [tail EXCEPT ![i] = 0]
    /\ UNCHANGED <<countvars, inuse, doomed, fat, chain, freeing, fat_lock, clash,
                   failures, lost, gaveup>>

----------------------------------------------------------------------------
(* A count starts over with an empty tree, before it takes the lock.       *)
StartCount(v) ==
    /\ Becomes(blocks_mamager_free_all(Map))
    /\ counting' = [counting EXCEPT ![v] = 1] /\ counted' = [w \in Volumes |-> FALSE]
    /\ lost' = [lost EXCEPT ![v] = {}] /\ tail' = [i \in Inodes |-> 0]
    /\ UNCHANGED <<inodevars, fat, chain, freeing, fat_lock, clash, failures, gaveup>>

fat_fill_super(v) ==
    /\ state[v] = "out" /\ state' = [state EXCEPT ![v] = "mounting"]
    /\ free_clusters' = [free_clusters EXCEPT
                           ![v] = IF v \in UseFree THEN Cardinality(FreeOf(v)) ELSE -1]
    /\ free_clus_valid' = [free_clus_valid EXCEPT ![v] = v \in UseFree]
    /\ StartCount(v)

fat_statfs(v) ==
    /\ state[v] = "mounted" /\ counting[v] = 0
    /\ free_clusters[v] = -1 \/ ~free_clus_valid[v]
    /\ StartCount(v) /\ UNCHANGED <<free_clusters, free_clus_valid, state>>

Mounted(v) == state' = [state EXCEPT ![v] = "mounted"]
LockCount(v) ==
    /\ counting[v] = 1 /\ fat_lock[v] = NULL
    /\ IF free_clusters[v] # -1 /\ free_clus_valid[v]
       THEN counting' = [counting EXCEPT ![v] = 0] /\ Mounted(v) /\ UNCHANGED fat_lock
       ELSE /\ counting' = [counting EXCEPT ![v] = FAT_START_ENT]
            /\ fat_lock' = [fat_lock EXCEPT ![v] = "count"] /\ UNCHANGED state
    /\ UNCHANGED <<mapvars, free_clusters, free_clus_valid, counted, inodevars, fat, chain, freeing,
                   tail, clash, failures, lost, gaveup>>

EndCount(v) == /\ counting' = [counting EXCEPT ![v] = 0] /\ Mounted(v)
               /\ fat_lock' = [fat_lock EXCEPT ![v] = NULL]

(* Each run of free entries becomes an extent.  A read may fail, and then  *)
(* the count stays unknown and the tree as it is.                          *)
fat_count_free_clusters(v) ==
    LET ahead == {c \in FreeOf(v) : c >= counting[v]}
        IsRun(first, last) == /\ first .. last \subseteq ahead /\ last + 1 \notin ahead
                              /\ \A c \in ahead : first <= c
    IN /\ counting[v] >= FAT_START_ENT
       /\ \/ /\ \E first, last \in ahead :
                  /\ first <= last /\ IsRun(first, last)
                  /\ \E r \in blocks_mamager_free_blocks(Map, first, last - first + 1) :
                       /\ Becomes(r.map) /\ KeptOrFailed(r)
                       /\ lost' = IF r.kept THEN lost
                                  ELSE [lost EXCEPT ![v] = @ \cup (first .. last)]
                  /\ counting' = [counting EXCEPT ![v] = last + 1]
             /\ UNCHANGED <<fat_lock, free_clusters, free_clus_valid, state, counted>>
          \/ /\ ahead = {} /\ EndCount(v)
             /\ free_clusters' = [free_clusters EXCEPT ![v] = Cardinality(FreeOf(v))]
             /\ free_clus_valid' = [free_clus_valid EXCEPT ![v] = TRUE]
             /\ counted' = [counted EXCEPT ![v] = TRUE]
             /\ UNCHANGED <<mapvars, lost, failures>>
          \/ /\ Fail /\ EndCount(v)
             /\ UNCHANGED <<mapvars, lost, free_clusters, free_clus_valid, counted>>
       /\ UNCHANGED <<inodevars, fat, chain, freeing, tail, clash, gaveup>>

(* A volume goes when none of its files is open: first its inodes, then    *)
(* the tree.  Its files are not followed any further.                      *)
EvictInodes(v) ==
    LET mine == {i \in Inodes : VolumeOf[i] = v} IN
    /\ v \in Remounts /\ state[v] = "mounted" /\ counting[v] = 0
    /\ \A i \in mine : opens[i] = 0 /\ freeing[i] = <<>> /\ i \notin doomed
    /\ state' = [state EXCEPT ![v] = "closing"] /\ inuse' = inuse \ mine
    /\ chain' = [i \in Inodes |-> IF i \in mine THEN <<>> ELSE chain[i]]
    /\ tail' = [i \in Inodes |-> IF i \in mine THEN 0 ELSE tail[i]]
    /\ UNCHANGED <<mapvars, free_clusters, free_clus_valid, counting, counted, doomed, opens,
                   fat, freeing, fat_lock, clash, failures, lost, gaveup>>
fat_put_super(v) ==
    /\ state[v] = "closing" /\ state' = [state EXCEPT ![v] = "out"]
    /\ Becomes(blocks_mamager_free_all(Map)) /\ counted' = [w \in Volumes |-> FALSE]
    /\ tail' = [i \in Inodes |-> 0]
    /\ UNCHANGED <<free_clusters, free_clus_valid, counting, inodevars, fat, chain, freeing, fat_lock,
                   clash, failures, lost, gaveup>>

FatNext ==
    Running /\
    \/ \E i \in Inodes :
          \/ \E k \in 1 .. 2 : fat_alloc_clusters(i, k)
          \/ \E skip \in 0 .. Len(chain[i]) : Truncate(i, skip)
          \/ fat_free_clusters(i)
          \/ fat_evict_inode(i) \/ fat_destroy_inode(i) \/ fat_alloc_inode(i)
          \/ fat_file_open(i) \/ fat_file_release(i)
    \/ \E v \in Volumes :
          \/ fat_fill_super(v) \/ fat_statfs(v) \/ LockCount(v) \/ fat_count_free_clusters(v)
          \/ EvictInodes(v) \/ fat_put_super(v)

FatSpec == FatInit /\ [][FatNext]_fatvars

----------------------------------------------------------------------------
Covers(n) == mem[n].start .. End(mem[n]) - 1
Trusted == ~touched /\ \A v \in Volumes : counted[v]

(* The extents are the free clusters, each in one extent, up to those that *)
(* a failure has lost: whatever is allocated, freed, merged and split, by  *)
(* whom, and however often the extents change hands.                       *)
MapIsExact ==
    Trusted =>
        /\ \A n \in tree : mem[n].length > 0
        /\ \A n, o \in tree : n # o => Covers(n) \cap Covers(o) = {}
        /\ \A v \in Volumes : /\ UNION {Covers(n) : n \in tree} = FreeOf(v) \ lost[v]
                               /\ lost[v] \subseteq FreeOf(v)

(* A file and its extent name each other, and the file is open, unless an  *)
(* open or a merge under a free extent has parted them.                    *)
ReservationsAreMutual ==
    ~touched /\ ~strayed =>
        /\ \A i \in Inodes : node[i] # NULL => /\ node[i] \in tree /\ mem[node[i]].inode = i
                                              /\ opens[i] > 0
        /\ \A n \in tree : mem[n].inode # NULL => node[mem[n].inode] = n

(* The next cluster of a file follows the last one it got from its extent: *)
(* nobody else's clusters come between, which is what the extents are for. *)
WritesAreSequential ==
    ~touched /\ ~strayed =>
        \A i \in Inodes : tail[i] # 0 => node[i] # NULL /\ mem[node[i]].start = tail[i] + 1

(* The count that statfs reports and the quick -ENOSPC goes by is what is  *)
(* free, or less once the manager has given up.                            *)
FreeCountIsTrue ==
    \A v \in Volumes : free_clusters[v] # -1 =>
        /\ free_clusters[v] <= Cardinality(FreeOf(v))
        /\ gaveup[v] \/ free_clusters[v] = Cardinality(FreeOf(v))

(* The tree, the count and the FAT agree on which clusters are free.       *)
SpaceIsAccounted == MapIsExact /\ FreeCountIsTrue

(* Every file grows behind its last cluster, in an extent that is its own. *)
FilesGrowInPlace == ReservationsAreMutual /\ WritesAreSequential

----------------------------------------------------------------------------
(* fatent.c:1005: what comes out of the tree is free in the FAT.           *)
AllocatedIsFree == ~clash
=============================================================================
