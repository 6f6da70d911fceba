------------------------------- MODULE Linker -------------------------------
(***************************************************************************)
(* dlopen and dlclose of bionic's dynamic linker (linker.cpp): the load    *)
(* tasks of find_libraries, the reference counts and links of the soinfos, *)
(* constructors and destructors, which call dlopen and dlclose themselves  *)
(* in the middle of a load or an unload.  g_dl_mutex is recursive and held *)
(* throughout, so there is one stack of activations, whichever thread it   *)
(* is on; the linker's own code moves only its top.  A library is its file *)
(* here: that it is found by name or by inode is the same.                 *)
(***************************************************************************)
EXTENDS Naturals, Sequences, FiniteSets
LOCAL INSTANCE FiniteSetsExt

CONSTANTS Libraries, \* the libraries on the path
          Needs,     \* the DT_NEEDED entries of each, in order
          Nil,       \* the null soinfo
          MaxOpens,  \* bound: handles that the program holds at once
          MaxDepth   \* bound: activations on the stack when dlopen is called

ASSUME NeedsAssumption ==
    /\ Needs \in [Libraries -> Seq(Libraries)]
    /\ Nil \notin Libraries

VARIABLES solist,              \* the soinfos there are
          ref_count, children, parents,
          linked,              \* those with FLAG_LINKED
          constructors_called,
          debug_map,           \* those on the list that gdb reads
          load_tasks, found_libs, \* of the find_libraries under way
          stack,               \* the activations, the running one first
          handles              \* how often the program has each library open
ldvars == <<solist, ref_count, children, parents, linked, constructors_called,
            debug_map, load_tasks, found_libs, stack, handles>>

Frame(f, l, s) == [fn |-> f, lib |-> l, left |-> s]

LinkerInit ==
    /\ solist = {} /\ linked = {} /\ constructors_called = {} /\ debug_map = {}
    /\ ref_count = [l \in Libraries |-> 0]
    /\ children = [l \in Libraries |-> <<>>]
    /\ parents = [l \in Libraries |-> {}]
    /\ load_tasks = <<>> /\ found_libs = <<>> /\ stack = <<>>
    /\ handles = [l \in Libraries |-> 0]

Running(f) == stack # <<>> /\ Head(stack).fn = f
Top == Head(stack)
Below == Tail(stack)

(* The program's own code runs: outside the linker, or as an init or fini  *)
(* function that the linker has called.                                    *)
Outside == stack = <<>>

(* What can be reached from l in a relation given as a function to sets.   *)
Reach(next, l) ==
    {x \in Libraries : \A S \in SUBSET Libraries :
                          l \in S /\ (\A y \in S : next[y] \subseteq S) => x \in S}

(* What remove_if leaves of a list of soinfos.                            *)
remove_if(s, si) ==
    LET kept[i \in 0 .. Len(s)] ==
            IF i = 0 THEN <<>>
            ELSE IF s[i] = si THEN kept[i - 1] ELSE Append(kept[i - 1], s[i])
    IN  kept[Len(s)]

Unloading == {stack[i].lib : i \in {j \in DOMAIN stack : stack[j].fn = "unload"}}
NeedsOf == [l \in Libraries |-> {Needs[l][i] : i \in DOMAIN Needs[l]}]

----------------------------------------------------------------------------
(* The children before the destructors.                                    *)
UnloadBeforeFini(l, rest) ==
    \/ /\ ref_count[l] # 1
       /\ ref_count' = [ref_count EXCEPT ![l] = @ - 1]
       /\ stack' = rest
    \/ /\ ref_count[l] = 1
       /\ stack' = <<Frame("unload", l, <<>>)>>
                     \o (IF l \in constructors_called THEN <<Frame("fini", l, <<>>)>> ELSE <<>>)
                     \o rest
       /\ UNCHANGED ref_count

(* soinfo_unload up to its loop: the last reference runs the destructors,  *)
(* if the constructors were run, and then the loop over the children.      *)
soinfo_unload(l, rest) ==
    \/ /\ ref_count[l] # 1
       /\ ref_count' = [ref_count EXCEPT ![l] = @ - 1]
       /\ stack' = rest
    \/ /\ ref_count[l] = 1
       /\ stack' = (IF l \in constructors_called THEN <<Frame("fini", l, <<>>)>> ELSE <<>>)
                     \o <<Frame("unload", l, <<>>)>> \o rest
       /\ UNCHANGED ref_count

(* The loop of soinfo_unload takes a child off the list and unloads it.    *)
UnloadChild ==
    /\ Running("unload") /\ children[Top.lib] # <<>>
    /\ children' = [children EXCEPT ![Top.lib] = Tail(@)]
    /\ soinfo_unload(Head(children[Top.lib]), stack)
    /\ UNCHANGED <<solist, parents, linked, constructors_called, debug_map, load_tasks,
                   found_libs, handles>>

(* soinfo_free, after gdb has been told: the links of the soinfo are       *)
(* cleared on both sides (remove_all_links) and it goes.  The children     *)
(* that the loop took off the list before keep it as a parent.             *)
soinfo_free ==
    /\ Running("unload") /\ children[Top.lib] = <<>>
    /\ LET si == Top.lib IN
       /\ debug_map' = debug_map \ {si}
       /\ ref_count' = [ref_count EXCEPT ![si] = 0]
       /\ children' = [p \in Libraries |-> IF p \in parents[si]
                                           THEN remove_if(children[p], si)
                                           ELSE children[p]]
       /\ parents' = [parents EXCEPT ![si] = {}]
       /\ solist' = solist \ {si}
       /\ linked' = linked \ {si}
    /\ stack' = Below
    /\ UNCHANGED <<constructors_called, load_tasks, found_libs, handles>>

----------------------------------------------------------------------------
(* The library is the one that needs it, or a parent of it and so on.     *)
is_recursive(si, parent) == parent # Nil /\ si \in Reach(parents, parent)

(* A scope guard that drops the tasks and leaves what was found.           *)
GiveUpTasks ==
    /\ load_tasks' = <<>> /\ found_libs' = <<>> /\ stack' = Below
    /\ UNCHANGED <<ref_count, children, parents, linked, constructors_called, debug_map, handles>>

(* The scope guard of find_libraries: the tasks left are dropped and the   *)
(* library asked for is unloaded, if it was found; dlopen returns null.    *)
GiveUp ==
    /\ load_tasks' = <<>> /\ found_libs' = <<>>
    /\ \/ Top.left = <<>> /\ stack' = Below /\ UNCHANGED ref_count
       \/ Top.left # <<>> /\ soinfo_unload(Top.left[1], Below)
    /\ UNCHANGED <<children, parents, linked, constructors_called, debug_map, handles>>

(* A task's library is counted and linked to the one that needs it.        *)
Take(si, needed_by, tasks) ==
    /\ ref_count' = [ref_count EXCEPT ![si] = @ + 1]
    /\ IF needed_by = Nil THEN UNCHANGED <<children, parents>>
       ELSE /\ children' = [children EXCEPT ![needed_by] = Append(@, si)]
            /\ parents' = [parents EXCEPT ![si] = @ \cup {needed_by}]
    /\ found_libs' = <<si>> \o found_libs
    /\ stack' = IF Top.left # <<>> THEN stack ELSE <<Frame("find", Top.lib, <<si>>)>> \o Below
    /\ load_tasks' = tasks
    /\ UNCHANGED <<linked, constructors_called, debug_map, handles>>

(* find_library_internal for the first task: the library is there ...      *)
FindLoaded ==
    /\ Running("find") /\ load_tasks # <<>>
    /\ LET t == Head(load_tasks) IN
       /\ t.name \in solist
       /\ IF is_recursive(t.name, t.needed_by) THEN GiveUp
          ELSE Take(t.name, t.needed_by, Tail(load_tasks))
    /\ UNCHANGED solist

(* ... or load_library opens, maps and prelinks it and adds tasks for what *)
(* it needs ...                                                            *)
load_library ==
    /\ Running("find") /\ load_tasks # <<>>
    /\ LET t == Head(load_tasks)
           needed == [i \in DOMAIN Needs[t.name] |->
                         [name |-> Needs[t.name][i], needed_by |-> t.name]]
       IN  /\ t.name \notin solist
           /\ solist' = solist \cup {t.name}
           /\ Take(t.name, t.needed_by, Tail(load_tasks) \o needed)

(* ... or cannot: no such file, RTLD_NOLOAD, no memory, a bad ELF image.   *)
LoadFails ==
    /\ Running("find") /\ load_tasks # <<>>
    /\ Head(load_tasks).name \notin solist
    /\ GiveUp
    /\ UNCHANGED solist

(* Step 2 of find_libraries, from the last library found to the first.     *)
LinkImage ==
    /\ Running("find") /\ load_tasks = <<>> /\ found_libs # <<>>
    /\ linked' = linked \cup {Head(found_libs)}
    /\ debug_map' = IF Head(found_libs) \in linked THEN debug_map
                    ELSE debug_map \cup {Head(found_libs)}
    /\ found_libs' = Tail(found_libs)
    /\ UNCHANGED <<solist, ref_count, children, parents, constructors_called, load_tasks,
                   stack, handles>>

(* A symbol that the image needs is not found.                             *)
LinkFails ==
    /\ Running("find") /\ load_tasks = <<>> /\ found_libs # <<>>
    /\ Head(found_libs) \notin linked
    /\ GiveUp
    /\ UNCHANGED solist

----------------------------------------------------------------------------
(* CallConstructors: the flag is set before anything is called, so that a  *)
(* constructor that opens a library which needs this one does not recurse. *)
CallConstructors(l, rest) ==
    IF l \in constructors_called
    THEN stack' = rest /\ UNCHANGED constructors_called
    ELSE /\ constructors_called' = constructors_called \cup {l}
         /\ stack' = <<Frame("ctor", l, children[l])>> \o rest

Constructing == UNCHANGED <<solist, ref_count, children, parents, linked, debug_map,
                            load_tasks, found_libs>>

Found ==
    /\ Running("find") /\ load_tasks = <<>> /\ found_libs = <<>>
    /\ CallConstructors(Top.lib, <<Frame("open", Top.lib, <<>>)>> \o Below)
    /\ Constructing /\ UNCHANGED handles

ConstructChild ==
    /\ Running("ctor") /\ Top.left # <<>>
    /\ CallConstructors(Head(Top.left), <<Frame("ctor", Top.lib, Tail(Top.left))>> \o Below)
    /\ Constructing /\ UNCHANGED handles

CallInit ==
    /\ Running("ctor") /\ Top.left = <<>>
    /\ stack' = <<Frame("init", Top.lib, <<>>)>> \o Below
    /\ Constructing /\ UNCHANGED <<constructors_called, handles>>

InitReturns ==
    /\ Running("init")
    /\ stack' = Below
    /\ Constructing /\ UNCHANGED <<constructors_called, handles>>

(* The end of CallDestructors.                                             *)
FiniReturns ==
    /\ Running("fini")
    /\ constructors_called' = constructors_called \ {Top.lib}
    /\ stack' = Below
    /\ Constructing /\ UNCHANGED handles

----------------------------------------------------------------------------
(* dlopen, by the program or by an init or fini function.  The program is  *)
(* assumed to open nothing, in the middle of an unload, that needs what is *)
(* being unloaded: soinfo_unload goes on to free that library whatever its *)
(* reference count has become.                                             *)
dlopen(l) ==
    /\ Outside \/ Running("init") \/ Running("fini")
    /\ Reach(NeedsOf, l) \cap Unloading = {}
    /\ Len(stack) <= MaxDepth
    /\ MapThenSumSet(LAMBDA x : handles[x], Libraries) < MaxOpens
    /\ load_tasks' = <<[name |-> l, needed_by |-> Nil]>>
    /\ found_libs' = <<>>
    /\ stack' = <<Frame("find", l, <<>>)>> \o stack
    /\ UNCHANGED <<solist, ref_count, children, parents, linked, constructors_called,
                   debug_map, handles>>

HandleReturned ==
    /\ Running("open")
    /\ handles' = [handles EXCEPT ![Top.lib] = @ + 1]
    /\ stack' = Below
    /\ Constructing /\ UNCHANGED constructors_called

(* dlclose of a handle that dlopen has returned.                           *)
dlclose(l) ==
    /\ Outside \/ Running("init") \/ Running("fini")
    /\ handles[l] > 0
    /\ handles' = [handles EXCEPT ![l] = @ - 1]
    /\ soinfo_unload(l, stack)
    /\ UNCHANGED <<solist, children, parents, linked, constructors_called, debug_map,
                   load_tasks, found_libs>>

LinkerNext ==
    \/ \E l \in Libraries : dlopen(l) \/ dlclose(l)
    \/ FindLoaded \/ load_library \/ LoadFails \/ LinkImage \/ LinkFails \/ Found
    \/ ConstructChild \/ CallInit \/ InitReturns \/ FiniReturns \/ HandleReturned
    \/ UnloadChild \/ soinfo_free

LinkerSpec == LinkerInit /\ [][LinkerNext]_ldvars

----------------------------------------------------------------------------
(* Every variable of the model keeps its type.                             *)
LinkerTypeOK ==
    /\ solist \subseteq Libraries /\ linked \subseteq Libraries
    /\ constructors_called \subseteq Libraries /\ debug_map \subseteq Libraries
    /\ ref_count \in [Libraries -> Nat] /\ handles \in [Libraries -> Nat]
    /\ children \in [Libraries -> Seq(Libraries)]
    /\ parents \in [Libraries -> SUBSET Libraries]
    /\ load_tasks \in Seq([name : Libraries, needed_by : Libraries \cup {Nil}])
    /\ found_libs \in Seq(Libraries)
    /\ stack \in Seq([fn : {"find", "open", "ctor", "init", "fini", "unload"},
                      lib : Libraries, left : Seq(Libraries)])

LinksTo(l) == Cardinality(UNION {{<<p, i>> : i \in {j \in DOMAIN children[p] : children[p][j] = l}}
                                 : p \in solist})

(* When no call is under way, a library's reference count is the handles   *)
(* of it that are open and the loaded libraries that need it: loads that   *)
(* failed half-way, and calls from inside constructors and destructors,    *)
(* have lost none and kept none.  What is counted is loaded with all it    *)
(* needs, linked, constructed and known to gdb, and nothing else is.       *)
RefsAreHolders ==
    Outside =>
      \A l \in Libraries :
         /\ ref_count[l] = handles[l] + LinksTo(l)
         /\ l \in solist => children[l] = Needs[l]
         /\ \A S \in {solist, linked, constructors_called, debug_map} :
               l \in S <=> ref_count[l] > 0

(* The init functions of a library run when all it needs is loaded, linked *)
(* and at least under construction, and that stays so until its fini       *)
(* functions are through: no library is taken from under a user of it, in  *)
(* whatever order handles are closed and whoever closes them.              *)
Constructed(l) == /\ l \in constructors_called
                  /\ \A i \in DOMAIN stack : ~(stack[i].fn = "ctor" /\ stack[i].lib = l)
NeededIsAlive ==
    \A l \in Libraries : Constructed(l) =>
       /\ l \in solist /\ l \in linked
       /\ \A i \in DOMAIN Needs[l] : Needs[l][i] \in solist \cap linked \cap constructors_called

(* Both together: counts lose no holder, and nobody outlives what it needs *)
(* through failed loads and calls from inside init and fini functions.     *)
LibrariesAreHeld == RefsAreHolders /\ NeededIsAlive
=============================================================================
