------------------------------ MODULE IpcProofs ------------------------------
(***************************************************************************)
(* Proofs about Ipc, for any processes, names, sizes and counts, and any   *)
(* number of crashes.                                                      *)
(***************************************************************************)
EXTENDS Ipc, TLAPS

Labels == {"rest", "truncate", "map", "fstat", "map_opened"}

MemoryTypes ==
    /\ named \in [Bodies -> Objects \cup {None}]
    /\ size \in [Objects -> Nat] /\ asked \in [Objects -> Nat]
    /\ at \in [Procs -> Labels]
    /\ call \in [Procs -> [body : Bodies \cup {NoCall.body}, size : Nat, fd : Objects \cup {None}]]
    /\ handle \in [Procs -> [object : Objects \cup {None}, size : Nat]]
    /\ replaced \subseteq Objects

\* A process inside a call has a descriptor.  What it knows of the region's size
\* is true, unless the region has been created again under it.
CallsInv ==
    \A p \in Procs :
        /\ at[p] = "rest" => call[p].fd = None
        /\ at[p] # "rest" => call[p].fd \in Objects /\ call[p].body \in Bodies
        /\ at[p] # "rest" => handle[p] = NoHandle
        /\ at[p] \in {"truncate", "map", "map_opened"} => call[p].size > 0
        /\ call[p].fd \notin replaced =>
               /\ at[p] \in {"truncate", "map", "map_opened"} => call[p].size = asked[call[p].fd]
               /\ at[p] \in {"map", "map_opened"} => size[call[p].fd] = asked[call[p].fd]

\* A region is empty or has the size its creator asked for, and a mapping is of
\* the whole region.
RegionsInv ==
    /\ \A o \in Objects \ replaced : size[o] \in {0, asked[o]}
    /\ \A p \in Procs : handle[p].object \notin replaced \cup {None} =>
           /\ handle[p].size > 0
           /\ handle[p].size = asked[handle[p].object]
           /\ handle[p].size = size[handle[p].object]

MemoryInv == MemoryTypes /\ CallsInv /\ RegionsInv

\* No name, no call, no mapping.
LEMMA MemoryInit == Init => MemoryInv
<1> SUFFICES ASSUME Init
             PROVE  MemoryInv
  OBVIOUS
<1>1. \A p \in Procs : call[p] = NoCall /\ at[p] = "rest" /\ handle[p] = NoHandle
  BY Zenon DEF Init
<1>2. NoCall = [body |-> NoCall.body, size |-> 0, fd |-> None]
  BY DEF NoCall
<1>3. MemoryTypes
  BY <1>2 DEF Init, MemoryTypes, Labels, NoHandle
<1>4. CallsInv /\ RegionsInv
  BY <1>1, <1>2 DEF Init, CallsInv, RegionsInv, NoHandle
<1>5. QED
  BY Zenon, <1>3, <1>4 DEF MemoryInv

\* None is not an object.
LEMMA NoneIsNoObject == None \notin Objects
BY IpcAssumption DEF None, Objects

\* shm_open of a creator: in use, the region counts as replaced; otherwise nobody
\* knows anything of it.
LEMMA CreateStep ==
    ASSUME MemoryInv, NEW p \in Procs, NEW n \in Names, NEW s \in Sizes,
           x_shared_memory_create(p, n, s)
    PROVE  MemoryInv'
<1> DEFINE body == x_ipc_make_posix_name(n)
<1>1. PICK fd \in IF named[body] = None THEN Unused ELSE {named[body]} :
          /\ named' = [named EXCEPT ![body] = fd]
          /\ size' = [size EXCEPT ![fd] = 0]
          /\ asked' = [asked EXCEPT ![fd] = s]
          /\ replaced' = IF InUse(fd) THEN replaced \cup {fd} ELSE replaced \ {fd}
          /\ call' = [call EXCEPT ![p] = [body |-> body, size |-> s, fd |-> fd]]
  BY Zenon DEF x_shared_memory_create
<1>2. body \in Bodies /\ s \in Nat /\ s > 0
  BY IpcAssumption DEF Bodies, x_ipc_make_posix_name
<1>3. fd \in Objects
  BY Zenon, <1>1, <1>2 DEF Unused, MemoryInv, MemoryTypes
<1>4. /\ at[p] = "rest" /\ handle[p] = NoHandle
      /\ at' = [at EXCEPT ![p] = "truncate"] /\ handle' = handle
  BY Zenon DEF x_shared_memory_create, Goto
<1>5. MemoryTypes'
  <2>1. /\ named' \in [Bodies -> Objects \cup {None}]
        /\ size' \in [Objects -> Nat] /\ asked' \in [Objects -> Nat]
        /\ replaced' \subseteq Objects
    BY Zenon, <1>1, <1>2, <1>3 DEF MemoryInv, MemoryTypes
  <2>2. call' \in [Procs -> [body : Bodies \cup {NoCall.body}, size : Nat, fd : Objects \cup {None}]]
    BY Zenon, <1>1, <1>2, <1>3 DEF MemoryInv, MemoryTypes
  <2>3. at' \in [Procs -> Labels]
    BY Zenon, <1>4 DEF MemoryInv, MemoryTypes, Labels
  <2>4. QED
    BY Zenon, <1>4, <2>1, <2>2, <2>3 DEF MemoryInv, MemoryTypes
<1>6. \A q \in Procs : fd \notin replaced' => (q # p => call[q].fd # fd) /\ handle[q].object # fd
  BY Zenon, <1>1 DEF InUse
<1>7. CallsInv'
  <2> SUFFICES ASSUME NEW q \in Procs
               PROVE  CallsInv!(q)'
    BY Zenon DEF CallsInv
  <2>1. CASE q = p
    BY Zenon, <1>1, <1>2, <1>3, <1>4, <2>1 DEF MemoryInv, MemoryTypes
  <2>2. CASE q # p
    <3>1. call'[q] = call[q] /\ at'[q] = at[q] /\ handle'[q] = handle[q]
      BY Zenon, <1>1, <1>4, <2>2 DEF MemoryInv, MemoryTypes
    <3>2. CASE call[q].fd = fd
      BY Zenon, <1>1, <1>3, <1>6, <2>2, <3>1, <3>2 DEF MemoryInv, CallsInv
    <3>3. CASE call[q].fd # fd
      <4>1. call[q].fd \in replaced' <=> call[q].fd \in replaced
        BY Zenon, <1>1, <3>3
      <4>2. call[q].fd \in Objects => /\ asked'[call[q].fd] = asked[call[q].fd]
                                      /\ size'[call[q].fd] = size[call[q].fd]
        BY Zenon, <1>1, <3>3 DEF MemoryInv, MemoryTypes
      <4>3. QED
        BY Zenon, <3>1, <4>1, <4>2 DEF MemoryInv, CallsInv
    <3>4. QED
      BY Zenon, <3>2, <3>3
  <2>3. QED
    BY Zenon, <2>1, <2>2
<1>8. RegionsInv'
  <2>1. ASSUME NEW o \in Objects \ replaced'
        PROVE  size'[o] \in {0, asked'[o]}
    BY Zenon, <1>1, <2>1 DEF MemoryInv, MemoryTypes, RegionsInv
  <2>2. ASSUME NEW q \in Procs, handle'[q].object \notin replaced' \cup {None}
        PROVE  /\ handle'[q].size > 0
               /\ handle'[q].size = asked'[handle'[q].object]
               /\ handle'[q].size = size'[handle'[q].object]
    <3>1. handle[q].object \in Objects /\ handle[q].object # fd
      BY Zenon, <1>1, <1>4, <1>6, <2>2 DEF MemoryInv, MemoryTypes
    <3>2. handle[q].object \notin replaced \cup {None}
      BY Zenon, <1>1, <1>4, <2>2, <3>1
    <3>3. QED
      BY Zenon, <1>1, <1>4, <3>1, <3>2 DEF MemoryInv, MemoryTypes, RegionsInv
  <2>3. QED
    BY Zenon, <2>1, <2>2 DEF RegionsInv
<1>9. QED
  BY Zenon, <1>5, <1>7, <1>8 DEF MemoryInv

\* ftruncate gives the region the size its creator asked for.
LEMMA TruncateStep ==
    ASSUME MemoryInv, NEW p \in Procs, Truncate(p)
    PROVE  MemoryInv'
<1> DEFINE fd == call[p].fd
<1>1. /\ at[p] = "truncate" /\ at' = [at EXCEPT ![p] = "map"]
      /\ size' = [size EXCEPT ![fd] = call[p].size]
      /\ UNCHANGED <<named, asked, call, handle, replaced>>
  BY Zenon DEF Truncate, Goto
<1>2. fd \in Objects /\ call[p].size \in Nat
  BY Zenon, <1>1 DEF MemoryInv, MemoryTypes, CallsInv
<1>3. MemoryTypes'
  BY Zenon, <1>1, <1>2 DEF MemoryInv, MemoryTypes, Labels
<1>4. fd \notin replaced => size'[fd] = asked[fd]
  BY Zenon, <1>1, <1>2 DEF MemoryInv, MemoryTypes, CallsInv
<1>5. \A o \in Objects : o # fd => size'[o] = size[o]
  BY Zenon, <1>1 DEF MemoryInv, MemoryTypes
<1>6. CallsInv'
  <2> SUFFICES ASSUME NEW q \in Procs
               PROVE  CallsInv!(q)'
    BY Zenon DEF CallsInv
  <2>1. at'[q] = IF q = p THEN "map" ELSE at[q]
    BY Zenon, <1>1 DEF MemoryInv, MemoryTypes
  <2>2. call[q].fd \in Objects /\ call[q].fd \notin replaced /\ at[q] \in {"map", "map_opened"}
            => size'[call[q].fd] = asked[call[q].fd]
    BY SMTT(60), SMTT(90), <1>4, <1>5 DEF MemoryInv, CallsInv
  <2>3. QED
    BY SMTT(60), SMTT(90), <1>1, <1>2, <1>4, <2>1, <2>2 DEF MemoryInv, CallsInv
<1>7. RegionsInv'
  <2>1. ASSUME NEW o \in Objects \ replaced
        PROVE  size'[o] \in {0, asked[o]}
    BY Zenon, <1>4, <1>5 DEF MemoryInv, RegionsInv
  <2>2. ASSUME NEW q \in Procs, handle[q].object \notin replaced \cup {None}
        PROVE  handle[q].size = size'[handle[q].object]
    BY Zenon, <1>4, <1>5, <2>2 DEF MemoryInv, MemoryTypes, RegionsInv
  <2>3. QED
    BY Zenon, <1>1, <2>1, <2>2 DEF MemoryInv, RegionsInv
<1>8. QED
  BY Zenon, <1>3, <1>6, <1>7 DEF MemoryInv

\* A call that fails, returns or is cut off by a crash changes no region.
LEMMA ReturnStep ==
    ASSUME MemoryInv, NEW p \in Procs, End(p), named' \in [Bodies -> Objects \cup {None}],
           UNCHANGED <<size, asked, replaced>>,
           \/ handle' = handle
           \/ handle' = [handle EXCEPT ![p] = NoHandle]
           \/ /\ at[p] \in {"map", "map_opened"}
              /\ handle' = [handle EXCEPT ![p] = [object |-> call[p].fd, size |-> call[p].size]]
    PROVE  MemoryInv'
<1>1. NoCall = [body |-> NoCall.body, size |-> 0, fd |-> None] /\ NoHandle.object = None
  BY DEF NoCall, NoHandle
<1>2. at' = [at EXCEPT ![p] = "rest"] /\ call' = [call EXCEPT ![p] = NoCall]
  BY Zenon DEF End, Goto
<1>3. MemoryTypes'
  <2>1. at' \in [Procs -> Labels]
    BY Zenon, <1>2 DEF MemoryInv, MemoryTypes, Labels
  <2>2. call' \in [Procs -> [body : Bodies \cup {NoCall.body}, size : Nat, fd : Objects \cup {None}]]
    BY <1>1, <1>2 DEF MemoryInv, MemoryTypes
  <2>3. handle' \in [Procs -> [object : Objects \cup {None}, size : Nat]]
    BY SMTT(60), SMTT(90) DEF MemoryInv, MemoryTypes, NoHandle
  <2>4. QED
    BY Zenon, <2>1, <2>2, <2>3 DEF MemoryInv, MemoryTypes
<1>4. CallsInv'
  <2> SUFFICES ASSUME NEW q \in Procs
               PROVE  CallsInv!(q)'
    BY Zenon DEF CallsInv
  <2>1. CASE q = p
    BY SMTT(60), SMTT(90), <1>1, <1>2, <2>1 DEF MemoryInv, MemoryTypes
  <2>2. CASE q # p
    <3>1. call'[q] = call[q] /\ at'[q] = at[q] /\ handle'[q] = handle[q]
      BY Zenon, <1>2, <2>2 DEF MemoryInv, MemoryTypes
    <3>2. QED
      BY Zenon, <3>1 DEF MemoryInv, CallsInv
  <2>3. QED
    BY Zenon, <2>1, <2>2
<1>5. RegionsInv'
  <2>1. ASSUME NEW q \in Procs, handle'[q].object \notin replaced \cup {None}
        PROVE  /\ handle'[q].size > 0
               /\ handle'[q].size = asked[handle'[q].object]
               /\ handle'[q].size = size[handle'[q].object]
    <3>1. \/ handle'[q] = handle[q]
          \/ handle'[q] = NoHandle
          \/ /\ at[q] \in {"map", "map_opened"}
             /\ handle'[q] = [object |-> call[q].fd, size |-> call[q].size]
      BY ZenonT(60) DEF MemoryInv, MemoryTypes
    <3>2. QED
      BY SMTT(60), SMTT(90), <1>1, <2>1, <3>1 DEF MemoryInv, MemoryTypes, CallsInv, RegionsInv
  <2>2. QED
    BY Zenon, <2>1 DEF MemoryInv, RegionsInv
<1>6. QED
  BY Zenon, <1>3, <1>4, <1>5 DEF MemoryInv

\* shm_open and fstat of an opener: the size read is 0, which is refused, or the
\* whole of what the creator asked for.
LEMMA OpenStep ==
    ASSUME MemoryInv, NEW p \in Procs,
           \/ \E n \in Names : x_shared_memory_open(p, n)
           \/ Stat(p) /\ size[call[p].fd] # 0
    PROVE  MemoryInv'
<1>1. CASE \E n \in Names : x_shared_memory_open(p, n)
  <2>1. PICK n \in Names : x_shared_memory_open(p, n)
    BY Zenon, <1>1
  <2> DEFINE body == x_ipc_make_posix_name(n)
  <2>2. /\ at[p] = "rest" /\ handle[p] = NoHandle /\ named[body] # None
        /\ at' = [at EXCEPT ![p] = "fstat"]
        /\ call' = [call EXCEPT ![p] = [body |-> body, size |-> 0, fd |-> named[body]]]
        /\ UNCHANGED <<named, size, asked, handle, replaced>>
    BY Zenon, <2>1 DEF x_shared_memory_open, Goto
  <2>3. body \in Bodies /\ named[body] \in Objects
    BY Zenon, <2>2 DEF MemoryInv, MemoryTypes, Bodies, x_ipc_make_posix_name
  <2>4. MemoryTypes'
    BY Zenon, <2>2, <2>3 DEF MemoryInv, MemoryTypes, Labels
  <2>5. CallsInv'
    BY ZenonT(60), <2>2, <2>3 DEF MemoryInv, MemoryTypes, CallsInv
  <2>6. RegionsInv'
    BY Zenon, <2>2 DEF MemoryInv, RegionsInv
  <2>7. QED
    BY Zenon, <2>4, <2>5, <2>6 DEF MemoryInv
<1>2. CASE Stat(p) /\ size[call[p].fd] # 0
  <2>1. /\ at[p] = "fstat" /\ at' = [at EXCEPT ![p] = "map_opened"]
        /\ call' = [call EXCEPT ![p].size = size[call[p].fd]]
        /\ UNCHANGED <<named, size, asked, handle, replaced>>
    BY Zenon, <1>2 DEF Stat, Goto
  <2>2. call[p].fd \in Objects /\ size[call[p].fd] \in Nat
    BY Zenon, <2>1 DEF MemoryInv, MemoryTypes, CallsInv
  <2>3. MemoryTypes'
    BY SMTT(60), SMTT(90), <2>1, <2>2 DEF MemoryInv, MemoryTypes, Labels
  <2>4. CallsInv'
    BY <1>2, <2>1, <2>2 DEF MemoryInv, MemoryTypes, CallsInv, RegionsInv
  <2>5. RegionsInv'
    BY Zenon, <2>1 DEF MemoryInv, RegionsInv
  <2>6. QED
    BY Zenon, <2>3, <2>4, <2>5 DEF MemoryInv
<1>3. QED
  BY Zenon, <1>1, <1>2

\* Every step of the shared memory is one of these.
LEMMA MemoryKept ==
    ASSUME MemoryInv, [Next]_vars
    PROVE  MemoryInv'
<1>1. ASSUME NEW p \in Procs, Truncate(p) \/ (\E n \in Names, s \in Sizes : x_shared_memory_create(p, n, s))
                              \/ (\E n \in Names : x_shared_memory_open(p, n))
      PROVE  MemoryInv'
  BY Zenon, <1>1, TruncateStep, CreateStep, OpenStep
<1>2. ASSUME NEW p \in Procs, MapCreated(p) \/ MapOpened(p) \/ OpenFails(p) \/ Crash(p)
      PROVE  MemoryInv'
  BY Zenon, <1>2, ReturnStep
       DEF MapCreated, MapOpened, OpenFails, Crash, Map, Return, MemoryInv, MemoryTypes
<1>3. ASSUME NEW p \in Procs, CreateFails(p)
      PROVE  MemoryInv'
  <2>1. named' \in [Bodies -> Objects \cup {None}]
    BY Zenon, <1>3 DEF CreateFails, Unname, MemoryInv, MemoryTypes
  <2>2. QED
    BY Zenon, <1>3, <2>1, ReturnStep DEF CreateFails
<1>4. ASSUME NEW p \in Procs, Stat(p)
      PROVE  MemoryInv'
  <2>1. CASE size[call[p].fd] = 0
    BY Zenon, <1>4, <2>1, ReturnStep DEF Stat, Return, MemoryInv, MemoryTypes
  <2>2. QED
    BY Zenon, <1>4, <2>1, OpenStep
<1>5. ASSUME NEW p \in Procs, x_shared_memory_close(p)
      PROVE  MemoryInv'
  BY ZenonT(60), <1>5
       DEF x_shared_memory_close, MemoryInv, MemoryTypes, CallsInv, RegionsInv, NoHandle
<1>6. ASSUME NEW n \in Names, x_shared_memory_unlink(n)
      PROVE  MemoryInv'
  BY <1>6 DEF x_shared_memory_unlink, Unname, MemoryInv, MemoryTypes, CallsInv, RegionsInv
<1>7. CASE UNCHANGED vars
  BY Zenon, <1>7 DEF vars, MemoryInv, MemoryTypes, CallsInv, RegionsInv
<1>8. QED
  BY Zenon, <1>1, <1>2, <1>3, <1>4, <1>5, <1>6, <1>7 DEF Next, ProcessStep

\* A step of the composition is a step of the shared memory, of the semaphores, or
\* of both in a crash.
LEMMA StepsOfParts ==
    ASSUME [IpcNext]_<<memory, semaphores>>
    PROVE  [Next]_vars /\ [Sem!Next]_(Sem!vars)
<1>1. CASE MemoryStep
  BY Zenon, <1>1 DEF MemoryStep, Next, semaphores, Sem!vars
<1>2. CASE SemaphoreStep
  BY Zenon, <1>2 DEF SemaphoreStep, Sem!Next, memory
<1>3. CASE Unlink
  BY Zenon, <1>3 DEF Unlink, Next, Sem!Next, memory, semaphores, Sem!vars
<1>4. ASSUME NEW p \in Procs, ProcessCrashes(p)
      PROVE  [Next]_vars /\ [Sem!Next]_(Sem!vars)
  BY Zenon, <1>4 DEF ProcessCrashes, Next, Sem!Next
<1>5. CASE UNCHANGED <<memory, semaphores>>
  BY Zenon, <1>5 DEF memory, semaphores, Sem!vars
<1>6. QED
  BY Zenon, <1>1, <1>2, <1>3, <1>4, <1>5 DEF IpcNext

\* Processes that use both kinds of objects, and crash with both, use each as the
\* specification of that kind alone allows.
THEOREM PartsImplemented == IpcSpec => Spec /\ Sem!Spec
<1>1. IpcInit => Init /\ Sem!Init
  BY Zenon DEF IpcInit
<1>2. [IpcNext]_<<memory, semaphores>> => [Next]_vars /\ [Sem!Next]_(Sem!vars)
  BY Zenon, StepsOfParts
<1>3. QED
  BY <1>1, <1>2, PTL DEF IpcSpec, Spec, Sem!Spec

\* The memory invariant holds of the composition too.
LEMMA MemoryAlways == IpcSpec => []MemoryInv
<1>1. IpcInit => MemoryInv
  BY Zenon, MemoryInit DEF IpcInit
<1>2. MemoryInv /\ [IpcNext]_<<memory, semaphores>> => MemoryInv'
  BY Zenon, StepsOfParts, MemoryKept
<1>3. QED
  BY <1>1, <1>2, PTL DEF IpcSpec

\* Whoever opens a region while it is created, truncated, unlinked or abandoned by
\* a crash gets all of it or an error, and keeps it until it is closed.
THEOREM RegionsStayWhole == IpcSpec => []RegionsWhole
<1>1. MemoryInv => RegionsWhole
  BY DEF MemoryInv, MemoryTypes, RegionsInv, RegionsWhole, MappingsAccessible, OpensWholeRegion
<1>2. QED
  BY <1>1, MemoryAlways, PTL

SemaphoreInv ==
    /\ sem_value = sem_balance
    /\ sem_value \in [Sem!Objects -> Int]

\* A count changes with a post, a wait that returns, or the creation, and with
\* nothing else.
THEOREM NoPermitLost == IpcSpec => []PermitsConserved
<1>1. IpcInit => SemaphoreInv
  BY SMTT(60), SMTT(90) DEF IpcInit, Sem!Init, SemaphoreInv
<1>2. SemaphoreInv /\ [IpcNext]_<<memory, semaphores>> => SemaphoreInv'
  <2> SUFFICES ASSUME SemaphoreInv, [Sem!Next]_(Sem!vars)
               PROVE  SemaphoreInv'
    BY Zenon, StepsOfParts
  <2> USE DEF SemaphoreInv
  <2>1. ASSUME NEW p \in Procs, NEW n \in Names, NEW c \in Initial,
               Sem!x_named_semaphore_create(p, n, c)
        PROVE  SemaphoreInv'
    <3>1. c \in Int
      BY SMTT(60), SMTT(90), IpcAssumption
    <3>2. \E o \in Sem!Objects : /\ sem_value' = [sem_value EXCEPT ![o] = c]
                                 /\ sem_balance' = [sem_balance EXCEPT ![o] = c]
      BY <2>1 DEF Sem!x_named_semaphore_create, Sem!Unused
    <3>3. QED
      BY Zenon, <3>1, <3>2
  <2>2. ASSUME NEW p \in Procs, Sem!Take(p) \/ Sem!x_named_semaphore_post(p)
        PROVE  SemaphoreInv'
    BY <2>2 DEF Sem!Take, Sem!x_named_semaphore_post
  <2>3. CASE UNCHANGED <<sem_value, sem_balance>>
    BY Zenon, <2>3
  <2>4. QED
    BY Zenon, <2>1, <2>2, <2>3 DEF Sem!Next, Sem!ProcessStep, Sem!vars, Sem!Crash,
       Sem!x_named_semaphore_open, Sem!x_named_semaphore_wait, Sem!x_named_semaphore_close,
       Sem!x_named_semaphore_unlink
<1>3. SemaphoreInv => PermitsConserved
  BY Zenon DEF SemaphoreInv, PermitsConserved, Sem!PermitsConserved
<1>4. QED
  BY <1>1, <1>2, <1>3, PTL DEF IpcSpec

\* While its creator is inside x_shared_memory_create a name refers to the
\* creator's object, or the creator has lost it.
NameInv ==
    \A p \in Procs : at[p] \in {"truncate", "map"} /\ p \notin bereft =>
        named[call[p].body] = call[p].fd

\* shm_open of a creator leaves a name that another creator has to its object.
LEMMA CreateNames ==
    ASSUME MemoryInv, NameInv, NEW p \in Procs, NEW n \in Names, NEW s \in Sizes,
           x_shared_memory_create(p, n, s)
    PROVE  NameInv' /\ \A b \in Bodies : named[b] # None => named'[b] = named[b]
<1> DEFINE body == x_ipc_make_posix_name(n)
<1>1. PICK fd \in IF named[body] = None THEN Unused ELSE {named[body]} :
          /\ named' = [named EXCEPT ![body] = fd]
          /\ call' = [call EXCEPT ![p] = [body |-> body, size |-> s, fd |-> fd]]
  BY Zenon DEF x_shared_memory_create
<1>2. at' = [at EXCEPT ![p] = "truncate"] /\ bereft' = bereft
  BY Zenon DEF x_shared_memory_create, Goto
<1>3. body \in Bodies
  BY Zenon DEF Bodies, x_ipc_make_posix_name
<1> HIDE DEF body
<1>4. \A b \in Bodies : named[b] # None => named'[b] = named[b]
  BY ZenonT(60), <1>1, <1>3 DEF MemoryInv, MemoryTypes
<1>5. ASSUME NEW q \in Procs, at'[q] \in {"truncate", "map"}, q \notin bereft'
      PROVE  named'[call'[q].body] = call'[q].fd
  <2>1. CASE q = p
    <3>1. call'[p] = [body |-> body, size |-> s, fd |-> fd] /\ named'[body] = fd
      BY Zenon, <1>1, <1>3 DEF MemoryInv, MemoryTypes
    <3>2. QED
      BY SMTT(60), SMTT(90), <2>1, <3>1
  <2>2. CASE q # p
    <3>1. call'[q] = call[q] /\ at'[q] = at[q]
      BY Zenon, <1>1, <1>2, <2>2 DEF MemoryInv, MemoryTypes
    <3>2. named[call[q].body] = call[q].fd /\ call[q].fd \in Objects /\ call[q].body \in Bodies
      BY ZenonT(60), <1>2, <1>5, <3>1 DEF NameInv, MemoryInv, CallsInv
    <3>3. QED
      BY Zenon, <1>4, <3>1, <3>2, NoneIsNoObject
  <2>3. QED
    BY Zenon, <2>1, <2>2
<1>6. QED
  BY Zenon, <1>4, <1>5 DEF NameInv

\* A name that is removed is lost to whoever is creating it.
LEMMA UnnameNames ==
    ASSUME MemoryInv, NameInv, NEW body \in Bodies, NEW returning, Unname(body, returning),
           \A q \in Procs : at'[q] \in {"truncate", "map"} =>
               q \notin returning /\ at'[q] = at[q] /\ call'[q] = call[q]
    PROVE  NameInv'
<1> SUFFICES ASSUME NEW q \in Procs, at'[q] \in {"truncate", "map"}, q \notin bereft'
             PROVE  named'[call'[q].body] = call'[q].fd
  BY Zenon DEF NameInv
<1>1. /\ q \notin returning /\ at[q] \in {"truncate", "map"} /\ call'[q] = call[q]
  BY Zenon
<1>2. q \notin bereft /\ call[q].body # body
  BY ZenonT(60), <1>1 DEF Unname, Creating
<1>3. named'[call[q].body] = named[call[q].body]
  BY ZenonT(60), <1>1, <1>2 DEF Unname, MemoryInv, MemoryTypes, CallsInv
<1>4. QED
  BY Zenon, <1>1, <1>2, <1>3 DEF NameInv

\* Whichever processes create, open, unlink and crash, a name disappears only by an
\* unlink or by the error path of a create of that name, which holds the object that
\* loses it unless it had lost the name before; and no name changes its object.
THEOREM NamesAreKept == IpcSpec => NameKept
<1>1. IpcInit => NameInv
  BY Zenon DEF IpcInit, Init, NameInv
<1>2. MemoryInv /\ NameInv /\ [IpcNext]_<<memory, semaphores>> => NameInv'
  <2> SUFFICES ASSUME MemoryInv, NameInv, [Next]_vars
               PROVE  NameInv'
    BY Zenon, StepsOfParts
  <2>1. ASSUME NEW p \in Procs, NEW n \in Names, NEW s \in Sizes, x_shared_memory_create(p, n, s)
        PROVE  NameInv'
    BY Zenon, <2>1, CreateNames
  <2>2. ASSUME NEW p \in Procs, \/ OpenFails(p) \/ MapCreated(p) \/ MapOpened(p) \/ Crash(p)
                                \/ Stat(p) /\ Return(p)
        PROVE  NameInv'
    <3>1. Return(p) /\ named' = named
      BY Zenon, <2>2 DEF OpenFails, MapCreated, MapOpened, Crash, Stat, Map
    <3>2. /\ \A q \in Procs : at'[q] \in {"truncate", "map"} =>
                 q # p /\ at'[q] = at[q] /\ call'[q] = call[q]
          /\ bereft' = bereft \ {p}
      BY Zenon, <3>1 DEF Return, End, Goto, MemoryInv, MemoryTypes
    <3>3. QED
      BY ZenonT(60), <3>1, <3>2 DEF NameInv
  <2>3. ASSUME NEW p \in Procs, CreateFails(p)
        PROVE  NameInv'
    <3>1. /\ call[p].body \in Bodies /\ Unname(call[p].body, {p})
          /\ at' = [at EXCEPT ![p] = "rest"] /\ call' = [call EXCEPT ![p] = NoCall]
      BY Zenon, <2>3 DEF CreateFails, End, Goto, MemoryInv, CallsInv
    <3>2. \A q \in Procs : at'[q] \in {"truncate", "map"} =>
              q \notin {p} /\ at'[q] = at[q] /\ call'[q] = call[q]
      BY Zenon, <3>1 DEF MemoryInv, MemoryTypes
    <3>3. QED
      BY ZenonT(60), <3>1, <3>2, UnnameNames
  <2>4. ASSUME NEW p \in Procs, \/ Truncate(p) \/ x_shared_memory_close(p)
                                \/ \E n \in Names : x_shared_memory_open(p, n)
                                \/ Stat(p) /\ ~Return(p)
        PROVE  NameInv'
    <3>1. /\ named' = named /\ bereft' = bereft
          /\ \A q \in Procs : at'[q] \in {"truncate", "map"} =>
                 at[q] \in {"truncate", "map"} /\ call'[q] = call[q]
      BY ZenonT(60), <2>4
         DEF Truncate, Stat, x_shared_memory_close, x_shared_memory_open, Goto, MemoryInv,
             MemoryTypes
    <3>2. QED
      BY Zenon, <3>1 DEF NameInv
  <2>5. ASSUME NEW n \in Names, x_shared_memory_unlink(n)
        PROVE  NameInv'
    <3> DEFINE nobody == {}
    <3>1. /\ n.body \in Bodies /\ Unname(n.body, nobody) /\ UNCHANGED <<at, call>>
      BY Zenon, <2>5 DEF x_shared_memory_unlink, x_ipc_make_posix_name, Bodies
    <3>2. \A q \in Procs : at'[q] \in {"truncate", "map"} =>
              q \notin nobody /\ at'[q] = at[q] /\ call'[q] = call[q]
      BY Zenon, <3>1
    <3> HIDE DEF nobody
    <3>3. QED
      BY ZenonT(60), <3>1, <3>2, UnnameNames
  <2>6. CASE UNCHANGED vars
    BY Zenon, <2>6 DEF vars, NameInv
  <2>7. QED
    BY ZenonT(60), <2>1, <2>2, <2>3, <2>4, <2>5, <2>6 DEF Next, ProcessStep
<1>3. MemoryInv /\ NameInv /\ [IpcNext]_<<memory, semaphores>> =>
          [\A b \in Bodies :
              named[b] # None /\ named'[b] # named[b] =>
                  /\ named'[b] = None
                  /\ \/ \E n \in Names : n.body = b /\ x_shared_memory_unlink(n)
                     \/ \E p \in Creating(b) :
                            at'[p] = "rest" /\ (call[p].fd = named[b] \/ p \in bereft)]_vars
  <2> SUFFICES ASSUME MemoryInv, NameInv, Next, NEW b \in Bodies,
                      named[b] # None, named'[b] # named[b]
               PROVE  /\ named'[b] = None
                      /\ \/ \E n \in Names : n.body = b /\ x_shared_memory_unlink(n)
                         \/ \E p \in Creating(b) :
                                at'[p] = "rest" /\ (call[p].fd = named[b] \/ p \in bereft)
    BY Zenon, StepsOfParts
  <2>1. ASSUME NEW p \in Procs, NEW n \in Names, NEW s \in Sizes, x_shared_memory_create(p, n, s)
        PROVE  FALSE
    BY Zenon, <2>1, CreateNames
  <2>2. ASSUME NEW p \in Procs, CreateFails(p)
        PROVE  /\ named'[b] = None /\ p \in Creating(b)
               /\ at'[p] = "rest" /\ (call[p].fd = named[b] \/ p \in bereft)
    <3>1. /\ at[p] \in {"truncate", "map"} /\ at' = [at EXCEPT ![p] = "rest"]
          /\ named' = [named EXCEPT ![call[p].body] = None]
      BY Zenon, <2>2 DEF CreateFails, Unname, End, Goto
    <3>2. call[p].body = b /\ named'[b] = None /\ at'[p] = "rest"
      BY Zenon, <3>1 DEF MemoryInv, MemoryTypes
    <3>3. QED
      BY Zenon, <3>1, <3>2 DEF NameInv, Creating
  <2>3. ASSUME NEW n \in Names, x_shared_memory_unlink(n)
        PROVE  n.body = b /\ named'[b] = None
    BY Zenon, <2>3 DEF x_shared_memory_unlink, x_ipc_make_posix_name, Unname, MemoryInv, MemoryTypes
  <2>4. CASE UNCHANGED named
    BY Zenon, <2>4
  <2>5. QED
    BY ZenonT(60), <2>1, <2>2, <2>3, <2>4 DEF Next, ProcessStep, Truncate, MapCreated, Stat, MapOpened,
       OpenFails, Crash, x_shared_memory_open, x_shared_memory_close
<1>4. QED
  BY <1>1, <1>2, <1>3, MemoryAlways, PTL DEF IpcSpec, NameKept

==============================================================================
