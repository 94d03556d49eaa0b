---------------------------- MODULE ClientsProofs ----------------------------
(***************************************************************************)
(* Proofs about Clients, for any kinds of hooks, any number of emitting    *)
(* threads and installations, any descriptors and any number of sources,   *)
(* and messages of any size.                                               *)
(***************************************************************************)
EXTENDS Clients, FiniteSetTheorems, TLAPS

(***************************************************************************)
(* A step of Clients is a step of one part, and the others stutter.        *)
(***************************************************************************)
\* While the hooks are not what a behaviour is about, nothing happens to them.
LEMMA HookSteps == [Next]_vars => [H!Next]_(H!vars)
BY Zenon DEF Next, InThreads, vars, hook_vars, H!vars

\* The same for the backends of the event loop.
LEMMA BackendSteps == [Next]_vars => [B!Next]_(B!vars)
BY Zenon DEF Next, InThreads, vars, backend_vars, B!vars

\* The same for the program with two threads.
LEMMA ThreadSteps == [Next]_vars => [T!Next]_(T!vars)
BY Zenon DEF Next, InThreads, vars, check_vars, T!vars, T!thread_vars, T!network_vars

(***************************************************************************)
(* Hooks.                                                                  *)
(***************************************************************************)
HooksTypes ==
    /\ guarded \in BOOLEAN /\ guards \in [Kinds -> SUBSET Nat]
    /\ hook \in [Kinds -> Nat] /\ user_data \in [Kinds -> Nat] /\ target \in [Kinds -> Nat]
    /\ installs \in [Kinds -> Nat]
    /\ stores \in [Kinds -> SUBSET {"hook", "user_data"}]
    /\ emit \in [Emitters -> [at : {"rest", "format"}, kind : Kinds \cup {"none"},
                              hook : Nat, since : Nat]]
    /\ hook_call \in [Emitters -> [hook : Nat, data : Nat, since : Nat, upto : Nat]]

\* While a store is outstanding its global is of the installation before.
GlobalsInv ==
    \A k \in Kinds :
        /\ H!Settled(k) \in Nat
        /\ target[k] \in {H!NULL, installs[k]}
        /\ hook[k] \in {H!NULL, IF "hook" \in stores[k] THEN installs[k] - 1 ELSE installs[k]}
        /\ user_data[k] = IF "user_data" \in stores[k] THEN installs[k] - 1 ELSE installs[k]

\* An emission under way has read a hook no older than its beginning, and no
\* installation it may see is undone.
EmissionInv ==
    \A e \in Emitters : emit[e].at = "format" =>
        /\ emit[e].kind \in Kinds /\ emit[e].hook # H!NULL
        /\ emit[e].since <= H!Settled(emit[e].kind)
        /\ emit[e].hook \in emit[e].since .. installs[emit[e].kind]

HooksInv == HooksTypes /\ GlobalsInv /\ EmissionInv /\ H!CallsCurrent

\* Before the first installation all globals are NULL.
LEMMA HooksInit == H!Init => HooksInv
<1> SUFFICES ASSUME H!Init
             PROVE  HooksInv
  OBVIOUS
<1>1. guarded \in BOOLEAN
  BY Zenon DEF H!Init
<1>2. HooksTypes
  BY Zenon, <1>1 DEF H!Init, HooksTypes, H!Idle, H!NoCall, H!NULL
<1>3. GlobalsInv /\ EmissionInv
  BY Zenon DEF H!Init, GlobalsInv, EmissionInv, H!Settled, H!Idle, H!NULL
<1>4. H!CallsCurrent
  BY Zenon DEF H!Init, H!CallsCurrent, H!Called
<1>5. QED
  BY ZenonT(60), <1>2, <1>3, <1>4 DEF HooksInv

\* An installation begins only when the last one is complete.
LEMMA SetHookStep ==
    ASSUME HooksInv, NEW k \in Kinds, NEW function \in {H!NULL, installs[k] + 1},
           H!SetHook(k, function), guards' \in [Kinds -> SUBSET Nat]
    PROVE  HooksInv'
<1> USE DEF H!SetHook, H!NULL
<1>1. HooksTypes'
  <2>1. guarded' \in BOOLEAN
    BY Zenon DEF HooksInv, HooksTypes
  <2>2. function \in Nat
    BY SMTT(60), SMTT(90) DEF HooksInv, HooksTypes
  <2>3. installs' \in [Kinds -> Nat] /\ target' \in [Kinds -> Nat]
    BY SMTT(60), SMTT(90), <2>2 DEF HooksInv, HooksTypes
  <2>4. stores' \in [Kinds -> SUBSET {"hook", "user_data"}]
    BY Zenon DEF HooksInv, HooksTypes
  <2>5. QED
    BY ZenonT(60), <2>1, <2>3, <2>4 DEF HooksInv, HooksTypes
<1>2. GlobalsInv'
  BY SMTT(60), SMTT(90) DEF HooksInv, HooksTypes, GlobalsInv, H!Settled
<1>3. EmissionInv'
  BY SMTT(60), SMTT(90) DEF HooksInv, HooksTypes, EmissionInv, H!Settled
<1>4. H!CallsCurrent'
  BY Zenon DEF HooksInv, H!CallsCurrent, H!Called
<1>5. QED
  BY ZenonT(60), <1>1, <1>2, <1>3, <1>4 DEF HooksInv

\* One of the two stores.
LEMMA StoreStep ==
    ASSUME HooksInv, NEW k \in Kinds, NEW s \in {"hook", "user_data"}, H!Store(k, s)
    PROVE  HooksInv'
<1> USE DEF H!Store, H!NULL
<1>1. HooksTypes'
  <2>1. guarded' \in BOOLEAN
    BY Zenon DEF HooksInv, HooksTypes
  <2>2. QED
    BY ZenonT(60), <2>1 DEF HooksInv, HooksTypes
<1>2. GlobalsInv'
  BY SMTT(60), SMTT(90) DEF HooksInv, HooksTypes, GlobalsInv, H!Settled
<1>3. EmissionInv'
  BY SMTT(60), SMTT(90) DEF HooksInv, HooksTypes, EmissionInv, H!Settled
<1>4. H!CallsCurrent'
  BY Zenon DEF HooksInv, H!CallsCurrent, H!Called
<1>5. QED
  BY ZenonT(60), <1>1, <1>2, <1>3, <1>4 DEF HooksInv

\* An emission reads the hook once.
LEMMA BeginStep ==
    ASSUME HooksInv, NEW e \in Emitters, NEW k \in Kinds, H!Begin(e, k)
    PROVE  HooksInv'
<1> USE DEF H!Begin, H!NULL
<1>1. HooksTypes'
  <2>1. guarded' \in BOOLEAN
    BY Zenon DEF HooksInv, HooksTypes
  <2>2. QED
    BY Zenon, <2>1 DEF HooksInv, HooksTypes, GlobalsInv
<1>2. GlobalsInv'
  BY Zenon DEF HooksInv, HooksTypes, GlobalsInv, H!Settled
<1>3. EmissionInv'
  <2>1. /\ H!Settled(k) \in Nat /\ H!Settled(k) <= hook[k] /\ hook[k] <= installs[k]
        /\ hook[k] \in Nat /\ installs[k] \in Nat /\ hook[k] # 0
    BY SMTT(60), SMTT(90) DEF HooksInv, HooksTypes, GlobalsInv, H!Settled
  <2>2. emit'[e] = [at |-> "format", kind |-> k, hook |-> hook[k], since |-> H!Settled(k)]
        /\ \A d \in Emitters \ {e} : emit'[d] = emit[d]
    BY Zenon DEF HooksInv, HooksTypes
  <2>3. \A j \in Kinds : H!Settled(j)' = H!Settled(j) /\ installs'[j] = installs[j]
    BY Zenon DEF H!Settled
  <2>4. QED
    BY SMTT(60), SMTT(90), <2>1, <2>2, <2>3 DEF HooksInv, EmissionInv
<1>4. H!CallsCurrent'
  BY Zenon DEF HooksInv, H!CallsCurrent, H!Called
<1>5. QED
  BY ZenonT(60), <1>1, <1>2, <1>3, <1>4 DEF HooksInv

\* The call is made with the copy of the hook, and with the data of now.
LEMMA CallStep ==
    ASSUME HooksInv, NEW e \in Emitters, H!CallHook(e)
    PROVE  HooksInv'
<1> USE DEF H!CallHook, H!NULL
<1>1. HooksTypes'
  <2>1. guarded' \in BOOLEAN
    BY Zenon DEF HooksInv, HooksTypes
  <2>2. QED
    BY Zenon, <2>1 DEF HooksInv, HooksTypes, EmissionInv, H!Idle
<1>2. GlobalsInv'
  BY Zenon DEF HooksInv, HooksTypes, GlobalsInv, H!Settled
<1>3. EmissionInv'
  BY ZenonT(60) DEF HooksInv, HooksTypes, EmissionInv, H!Settled, H!Idle
<1>4. H!CallsCurrent'
  <2> DEFINE k == emit[e].kind
  <2>1. k \in Kinds /\ emit[e].hook # H!NULL /\ emit[e].hook \in emit[e].since .. installs[k]
    BY ZenonT(60) DEF HooksInv, EmissionInv
  <2>2. user_data[k] \in emit[e].since .. installs[k]
    BY SMTT(60), SMTT(90), <2>1 DEF HooksInv, EmissionInv, GlobalsInv, HooksTypes, H!Settled
  <2>3. \A d \in Emitters : hook_call'[d] = hook_call[d] \/
            hook_call'[d] = [hook |-> emit[e].hook, data |-> user_data[k],
                        since |-> emit[e].since, upto |-> installs[k]]
    BY Zenon DEF HooksInv, HooksTypes
  <2>4. QED
    BY SMTT(60), SMTT(90), <2>1, <2>2, <2>3 DEF HooksInv, H!CallsCurrent, H!Called
<1>5. QED
  BY ZenonT(60), <1>1, <1>2, <1>3, <1>4 DEF HooksInv

\* Every step is one of these.
LEMMA HooksStep == HooksInv /\ [H!Next]_(H!vars) => HooksInv'
<1> SUFFICES ASSUME HooksInv, [H!Next]_(H!vars)
             PROVE  HooksInv'
  OBVIOUS
<1>1. ASSUME NEW k, H!Set(k)
      PROVE  HooksInv'
  BY ZenonT(60), <1>1, SetHookStep DEF H!Set, HooksInv, HooksTypes
<1>2. ASSUME NEW k \in Kinds, H!Construct(k)
      PROVE  HooksInv'
  BY SMTT(60), SMTT(90), <1>2, SetHookStep DEF H!Construct, HooksInv, HooksTypes
<1>3. ASSUME NEW k \in Kinds, NEW g, H!Destruct(k, g)
      PROVE  HooksInv'
  BY Zenon, <1>3, SetHookStep DEF H!Destruct, HooksInv, HooksTypes
<1>4. ASSUME NEW k \in Kinds, NEW s \in {"hook", "user_data"}, H!Store(k, s)
      PROVE  HooksInv'
  BY Zenon, <1>4, StoreStep
<1>5. ASSUME NEW e \in Emitters, NEW k, H!Begin(e, k)
      PROVE  HooksInv'
  BY Zenon, <1>5, BeginStep DEF H!Begin
<1>6. ASSUME NEW e \in Emitters, H!CallHook(e)
      PROVE  HooksInv'
  BY ZenonT(60), <1>6, CallStep
<1>7. CASE UNCHANGED H!vars
  BY SMTT(60), SMTT(90), <1>7
       DEF H!vars, HooksInv, HooksTypes, GlobalsInv, EmissionInv, H!CallsCurrent, H!Called,
       H!Settled
<1>8. QED
  BY ZenonT(60), <1>1, <1>2, <1>3, <1>4, <1>5, <1>6, <1>7
     DEF H!Next, H!x_log_set_hook, H!x_diag_set_hook, H!x_trace_set_hook,
         H!log_hook_guard, H!diag_hook_guard, H!trace_hook_guard,
         H!x_log_emit, H!x_diag_emit, H!x_trace_emit

\* However installations and emissions interleave, a hook that is called, and the
\* data it is given, were installed during the emission or last before it, and
\* NULL is never called.
THEOREM NoStaleHook == FairSpec => []CallsCurrent
<1>1. Init => HooksInv
  BY Zenon, HooksInit DEF Init
<1>2. HooksInv /\ [Next]_vars => HooksInv'
  BY Zenon, HooksStep, HookSteps
<1>3. HooksInv => CallsCurrent
  BY Zenon DEF HooksInv, CallsCurrent
<1>4. QED
  BY <1>1, <1>2, <1>3, PTL DEF FairSpec

\* The hook that is or will be stored is of a living guard.
GuardsInv ==
    /\ HooksTypes
    /\ guarded => \A k \in Kinds :
           /\ "hook" \in stores[k] => target[k] \in guards[k] \cup {H!NULL}
           /\ "hook" \notin stores[k] => hook[k] \in guards[k] \cup {H!NULL}

\* A guard's destructor takes its hook back, and no other step installs one of a
\* guard that is gone.
LEMMA GuardsStep == HooksInv /\ GuardsInv /\ [H!Next]_(H!vars) => GuardsInv'
<1> SUFFICES ASSUME HooksInv, GuardsInv, [H!Next]_(H!vars)
             PROVE  GuardsInv'
  OBVIOUS
<1>0. HooksTypes'
  BY Zenon, HooksStep DEF HooksInv
<1>1. ASSUME NEW k, H!Set(k)
      PROVE  GuardsInv'
  BY SMTT(60), SMTT(90), <1>0, <1>1 DEF H!Set, H!SetHook, GuardsInv
<1>2. ASSUME NEW k \in Kinds, H!Construct(k)
      PROVE  GuardsInv'
  BY ZenonT(60), <1>0, <1>2 DEF H!Construct, H!SetHook, GuardsInv, HooksTypes
<1>3. ASSUME NEW k \in Kinds, NEW g, H!Destruct(k, g)
      PROVE  GuardsInv'
  BY ZenonT(60), <1>0, <1>3 DEF H!Destruct, H!SetHook, GuardsInv, HooksTypes
<1>4. ASSUME NEW k \in Kinds, NEW s \in {"hook", "user_data"}, H!Store(k, s)
      PROVE  GuardsInv'
  BY SMTT(60), SMTT(90), <1>0, <1>4 DEF H!Store, GuardsInv, HooksTypes
<1>5. ASSUME NEW e \in Emitters, NEW k, H!Begin(e, k)
      PROVE  GuardsInv'
  BY ZenonT(60), <1>0, <1>5 DEF H!Begin, GuardsInv
<1>6. ASSUME NEW e \in Emitters, H!CallHook(e)
      PROVE  GuardsInv'
  BY ZenonT(60), <1>0, <1>6 DEF H!CallHook, GuardsInv
<1>7. CASE UNCHANGED H!vars
  BY ZenonT(60), <1>0, <1>7 DEF H!vars, GuardsInv
<1>8. QED
  BY ZenonT(60), <1>1, <1>2, <1>3, <1>4, <1>5, <1>6, <1>7
     DEF H!Next, H!x_log_set_hook, H!x_diag_set_hook, H!x_trace_set_hook,
         H!log_hook_guard, H!diag_hook_guard, H!trace_hook_guard,
         H!x_log_emit, H!x_diag_emit, H!x_trace_emit

\* Guards of xlib.hpp, destroyed in whatever order, leave no hook behind.
THEOREM NoHookOfDeadGuard == FairSpec => []GuardsRemoveTheirHooks
<1> DEFINE Inv == HooksInv /\ GuardsInv
<1>1. Init => Inv
  BY Zenon, HooksInit DEF Init, HooksInv, GuardsInv, H!Init
<1>2. Inv /\ [Next]_vars => Inv'
  BY ZenonT(60), HooksStep, GuardsStep, HookSteps
<1>3. Inv => GuardsRemoveTheirHooks
  BY Zenon DEF GuardsInv, GuardsRemoveTheirHooks, H!GuardsRemoveTheirHooks
<1>4. QED
  BY <1>1, <1>2, <1>3, PTL DEF FairSpec

(***************************************************************************)
(* The backends of the event loop.                                         *)
(***************************************************************************)
SourceType == [fd : Fds, events : SUBSET B!Filters, state : {"active", "removed", "freed"}]

\* Sources are numbered from 1.
SourcesInv ==
    /\ backend \in {"epoll", "kqueue", "select"}
    /\ sources \in [B!Ids -> SourceType]
    /\ \E n \in Nat : B!Ids = 1 .. n

\* A filter is registered for a source of its descriptor, in kqueue for one only.
\* Where kqueue has mixed nothing up it is one that an active source has asked for,
\* and all that an active source has asked for are registered; epoll has one source
\* for each descriptor.
KernelInv ==
    /\ \A r \in kernel : r.id \in B!Ids /\ r.fd = sources[r.id].fd
    /\ \A r \in kernel : r.fd \notin mixed => r.id \in B!Active /\ r.filter \in sources[r.id].events
    /\ backend = "epoll" => \A r, s \in kernel : r.fd = s.fd => r.id = s.id
    /\ backend = "select" => kernel = {}

FiltersInv ==
    /\ backend = "kqueue" =>
           \A r, s \in kernel : r.fd = s.fd /\ r.filter = s.filter => r.id = s.id
    /\ backend = "kqueue" =>
           \A id \in B!Active : \A f \in sources[id].events :
               sources[id].fd \notin mixed =>
                   \E r \in kernel : r.fd = sources[id].fd /\ r.filter = f /\ r.id = id
    /\ backend # "kqueue" => mixed = {}

MayGet(id) == sources[id].events \cup (IF backend = "epoll" THEN {"READ"} ELSE {})

\* An event still to be dispatched is of a source that was there when the wait
\* returned and has not been freed since, and select has reported what one of these
\* has asked for.
EventsInv ==
    /\ at \in {"rest", "dispatch", "callback"}
    /\ at = "rest" => events = {} /\ ready = {}
    /\ backend = "select" => events = {}
    /\ known \subseteq B!Ids
    /\ \A e \in events :
           /\ e.id \in B!Ids
           /\ sources[e.id].fd \notin mixed =>
                  /\ e.id \in known /\ sources[e.id].state # "freed"
                  /\ e.flags \subseteq MayGet(e.id)
    /\ \A p \in ready : \E id \in known : p[1] = sources[id].fd /\ p[2] \in sources[id].events

\* So is the one whose callback runs.
LastInv ==
    at = "callback" =>
        /\ last.id \in B!Ids
        /\ sources[last.id].fd \notin mixed =>
               /\ last.state = "active" /\ last.flags \subseteq MayGet(last.id)
               /\ backend # "select" => last.id \in known
               /\ backend = "select" =>
                      \A f \in last.flags : \E id \in known :
                          sources[id].fd = sources[last.id].fd /\ f \in sources[id].events

BackendInv == SourcesInv /\ KernelInv /\ FiltersInv /\ EventsInv /\ LastInv

\* What is said of the filters depends on the active sources only.
LEMMA FiltersSame ==
    ASSUME FiltersInv, backend' = backend, kernel' = kernel, mixed' = mixed,
           B!Active' = B!Active, \A id \in B!Active : sources'[id] = sources[id]
    PROVE  FiltersInv'
<1>1. ASSUME backend = "kqueue", NEW id \in B!Active', NEW f \in sources'[id].events,
             sources'[id].fd \notin mixed'
      PROVE  \E r \in kernel' : r.fd = sources'[id].fd /\ r.filter = f /\ r.id = id
  <2>1. id \in B!Active /\ f \in sources[id].events /\ sources[id].fd \notin mixed
    BY Zenon, <1>1
  <2>2. PICK r \in kernel : r.fd = sources[id].fd /\ r.filter = f /\ r.id = id
    BY ZenonT(60), <1>1, <2>1 DEF FiltersInv
  <2>3. r \in kernel' /\ r.fd = sources'[id].fd
    BY Zenon, <1>1, <2>1, <2>2
  <2>4. QED
    BY Zenon, <2>2, <2>3
<1>2. /\ backend' = "kqueue" =>
             \A r, s \in kernel' : r.fd = s.fd /\ r.filter = s.filter => r.id = s.id
      /\ backend' # "kqueue" => mixed' = {}
  BY ZenonT(60) DEF FiltersInv
<1>3. QED
  BY ZenonT(60), <1>1, <1>2 DEF FiltersInv

\* A loop without sources.
LEMMA BackendInit == B!Init => BackendInv
<1> SUFFICES ASSUME B!Init
             PROVE  BackendInv
  OBVIOUS
<1>1. B!Ids = {} /\ sources \in [B!Ids -> SourceType]
  BY Zenon DEF B!Init, B!Ids
<1>2. B!Ids = 1 .. 0
  BY SMTT(60), SMTT(90), <1>1
<1>3. SourcesInv
  BY Zenon, <1>1, <1>2 DEF B!Init, SourcesInv
<1>4. KernelInv /\ FiltersInv /\ EventsInv /\ LastInv
  BY ZenonT(60), <1>1 DEF B!Init, KernelInv, FiltersInv, EventsInv, LastInv, B!Active
<1>5. QED
  BY Zenon, <1>3, <1>4 DEF BackendInv

\* The cardinality that EventBackend speaks of is that of the theorems.
LEMMA SameCardinality == \A S : B!Cardinality(S) = Cardinality(S)
BY Zenon DEF B!Cardinality, Cardinality

\* A new source has a new number, and leaves the others as they are.
LEMMA AddSourceTable ==
    ASSUME SourcesInv, NEW fd \in Fds, NEW asked \in SUBSET B!Filters,
           NEW life \in {"active", "freed"}, B!AddSource(fd, asked, life), backend' = backend
    PROVE  /\ SourcesInv'
           /\ Cardinality(B!Ids) + 1 \notin B!Ids
           /\ B!Ids' = B!Ids \cup {Cardinality(B!Ids) + 1}
           /\ \A id \in B!Ids : sources'[id] = sources[id]
           /\ sources'[Cardinality(B!Ids) + 1] = [fd |-> fd, events |-> asked, state |-> life]
<1>1. PICK n \in Nat : B!Ids = 1 .. n
  BY Zenon DEF SourcesInv
<1>2. Cardinality(B!Ids) = n
  BY SMTT(60), SMTT(90), <1>1, FS_Interval
<1>3. n + 1 \notin B!Ids /\ B!Ids \cup {n + 1} = 1 .. n + 1
  BY SMTT(60), SMTT(90), <1>1
<1>4. sources' = [id \in B!Ids \cup {n + 1} |->
                      IF id \in B!Ids THEN sources[id]
                      ELSE [fd |-> fd, events |-> asked, state |-> life]]
  BY Zenon, <1>2, SameCardinality DEF B!AddSource
<1>5. /\ B!Ids' = B!Ids \cup {n + 1}
      /\ \A id \in B!Ids : sources'[id] = sources[id]
      /\ sources'[n + 1] = [fd |-> fd, events |-> asked, state |-> life]
  BY Zenon, <1>3, <1>4 DEF B!Ids
<1>6. sources' \in [B!Ids' -> SourceType]
  BY ZenonT(60), <1>3, <1>4, <1>5 DEF SourcesInv, SourceType
<1>7. SourcesInv'
  BY SMTT(60), SMTT(90), <1>3, <1>5, <1>6 DEF SourcesInv
<1>8. QED
  BY ZenonT(60), <1>2, <1>3, <1>5, <1>7

\* What the kernel keeps for a new source is its own; where kqueue replaces the
\* pointer of another the descriptor counts as mixed up.
LEMMA AddKernel ==
    ASSUME BackendInv, NEW fd \in Fds, NEW asked \in SUBSET B!Filters, NEW c, c \notin B!Ids,
           B!x_event_backend_add_socket(fd, asked, c)
    PROVE  /\ \A r \in kernel' :
                  \/ /\ r \in kernel
                     /\ backend = "epoll" => r.fd # fd
                     /\ backend = "kqueue" => r.fd # fd \/ r.filter \notin asked
                  \/ r.id = c /\ r.fd = fd /\ r.filter \in asked /\ backend # "select"
           /\ backend = "kqueue" =>
                  /\ \A f \in asked : \E r \in kernel' : r.fd = fd /\ r.filter = f /\ r.id = c
                  /\ \A r \in kernel : r.fd # fd \/ r.filter \notin asked => r \in kernel'
           /\ backend = "select" => kernel' = kernel
<1> DEFINE entries == {[fd |-> fd, filter |-> f, id |-> c] : f \in asked}
<1>1. \/ /\ backend = "epoll" /\ \A r \in kernel : r.fd # fd
         /\ kernel' = kernel \cup entries
      \/ /\ backend = "kqueue"
         /\ kernel' = {r \in kernel : r.fd # fd \/ r.filter \notin asked} \cup entries
      \/ backend = "select" /\ kernel' = kernel
  BY Zenon DEF B!x_event_backend_add_socket
<1>2. /\ \A r \in entries : r.id = c /\ r.fd = fd /\ r.filter \in asked
      /\ \A f \in asked : \E r \in entries : r.fd = fd /\ r.filter = f /\ r.id = c
  <2>1. ASSUME NEW f \in asked
        PROVE  \E r \in entries : r.fd = fd /\ r.filter = f /\ r.id = c
    <3>1. [fd |-> fd, filter |-> f, id |-> c] \in entries
      BY Zenon
    <3>2. QED
      BY ZenonT(60), <3>1
  <2>2. ASSUME NEW r \in entries
        PROVE  r.id = c /\ r.fd = fd /\ r.filter \in asked
    <3>1. PICK f \in asked : r = [fd |-> fd, filter |-> f, id |-> c]
      BY Zenon, <2>2
    <3>2. QED
      BY SMTT(60), SMTT(90), <3>1
  <2> HIDE DEF entries
  <2>3. QED
    BY ZenonT(60), <2>1, <2>2
<1> HIDE DEF entries
<1>3. QED
  BY ZenonT(60), <1>1, <1>2

LEMMA AddStep ==
    ASSUME BackendInv, NEW fd \in Fds, NEW asked \in SUBSET B!Filters,
           B!x_event_loop_add_socket(fd, asked)
    PROVE  BackendInv'
<1> DEFINE c == Cardinality(B!Ids) + 1
<1>1. /\ B!AddSource(fd, asked, "active") /\ B!x_event_backend_add_socket(fd, asked, c)
      /\ mixed' = IF backend = "kqueue" /\ \E f \in asked : B!Registered(fd, f)
                  THEN mixed \cup {fd} ELSE mixed
      /\ UNCHANGED <<backend, at, events, ready, i, known, last>>
  BY Zenon, SameCardinality DEF B!x_event_loop_add_socket
<1>2. /\ SourcesInv' /\ c \notin B!Ids /\ B!Ids' = B!Ids \cup {c}
      /\ \A id \in B!Ids : sources'[id] = sources[id]
      /\ sources'[c] = [fd |-> fd, events |-> asked, state |-> "active"]
  BY Zenon, <1>1, AddSourceTable DEF BackendInv
<1> HIDE DEF c
<1>3. KernelInv /\ FiltersInv /\ EventsInv /\ LastInv
  BY Zenon DEF BackendInv
<1>4. B!Active' = B!Active \cup {c} /\ B!Active \subseteq B!Ids
  BY SMTT(60), SMTT(90), <1>2 DEF B!Active
<1>5. /\ \A r \in kernel' :
             \/ /\ r \in kernel
                /\ backend = "epoll" => r.fd # fd
                /\ backend = "kqueue" => r.fd # fd \/ r.filter \notin asked
             \/ r.id = c /\ r.fd = fd /\ r.filter \in asked /\ backend # "select"
      /\ backend = "kqueue" =>
             /\ \A f \in asked : \E r \in kernel' : r.fd = fd /\ r.filter = f /\ r.id = c
             /\ \A r \in kernel : r.fd # fd \/ r.filter \notin asked => r \in kernel'
      /\ backend = "select" => kernel' = kernel
  BY ZenonT(60), <1>1, <1>2, AddKernel
<1>6. /\ mixed \subseteq mixed' /\ (backend # "kqueue" => mixed' = mixed)
      /\ backend = "kqueue" /\ fd \notin mixed' =>
             \A r \in kernel : r.fd # fd \/ r.filter \notin asked
  BY ZenonT(60), <1>1 DEF B!Registered
<1>7. sources'[c].fd = fd /\ sources'[c].events = asked
  BY SMTT(60), SMTT(90), <1>2
<1>8. KernelInv'
  <2>1. ASSUME NEW r \in kernel'
        PROVE  /\ r.id \in B!Ids' /\ r.fd = sources'[r.id].fd
               /\ r.fd \notin mixed' => r.id \in B!Active' /\ r.filter \in sources'[r.id].events
    <3>1. CASE r \in kernel
      BY ZenonT(60), <1>2, <1>3, <1>4, <1>6, <3>1 DEF KernelInv
    <3>2. CASE r.id = c /\ r.fd = fd /\ r.filter \in asked
      BY ZenonT(60), <1>2, <1>4, <1>7, <3>2
    <3>3. QED
      BY ZenonT(60), <1>5, <3>1, <3>2
  <2>2. ASSUME backend = "epoll", NEW r \in kernel', NEW s \in kernel', r.fd = s.fd
        PROVE  r.id = s.id
    BY ZenonT(60), <1>3, <1>5, <2>2 DEF KernelInv
  <2>3. QED
    BY ZenonT(60), <1>1, <1>3, <1>5, <2>1, <2>2 DEF KernelInv
<1>9. FiltersInv'
  <2>1. ASSUME backend = "kqueue", NEW r \in kernel', NEW s \in kernel',
               r.fd = s.fd, r.filter = s.filter
        PROVE  r.id = s.id
    BY ZenonT(60), <1>3, <1>5, <2>1 DEF FiltersInv
  <2>2. ASSUME backend = "kqueue", NEW id \in B!Active', NEW f \in sources'[id].events,
               sources'[id].fd \notin mixed'
        PROVE  \E r \in kernel' : r.fd = sources'[id].fd /\ r.filter = f /\ r.id = id
    <3>1. CASE id = c
      BY ZenonT(60), <1>5, <1>7, <2>2, <3>1
    <3>2. CASE id \in B!Active
      <4>1. id \in B!Ids /\ sources'[id] = sources[id] /\ sources[id].fd \notin mixed
        BY ZenonT(60), <1>2, <1>4, <1>6, <2>2, <3>2
      <4> f \in sources[id].events
        BY Zenon, <2>2, <4>1
      <4>2. PICK r \in kernel : r.fd = sources[id].fd /\ r.filter = f /\ r.id = id
        <5>1. FiltersInv /\ backend = "kqueue"
          BY Zenon, <1>3, <2>2
        <5>2. QED
          BY ZenonT(60), <3>2, <4>1, <5>1 DEF FiltersInv
      <4>3. r.fd # fd \/ r.filter \notin asked
        BY ZenonT(60), <1>6, <2>2, <4>1, <4>2
      <4>4. QED
        BY ZenonT(60), <1>5, <2>2, <4>1, <4>2, <4>3
    <3>3. QED
      BY Zenon, <1>4, <2>2, <3>1, <3>2
  <2>3. QED
    BY ZenonT(60), <1>1, <1>3, <1>6, <2>1, <2>2 DEF FiltersInv
<1>10. \A id \in B!Ids : MayGet(id)' = MayGet(id)
  BY Zenon, <1>1, <1>2 DEF MayGet
<1>11. EventsInv'
  BY ZenonT(60), <1>1, <1>2, <1>3, <1>6, <1>10 DEF EventsInv
<1>12. LastInv'
  BY ZenonT(60), <1>1, <1>2, <1>3, <1>6, <1>10 DEF LastInv, EventsInv
<1>13. QED
  BY ZenonT(60), <1>2, <1>8, <1>9, <1>11, <1>12 DEF BackendInv

\* All filters of a removed source are deleted with it, and no others, where kqueue
\* has mixed nothing up: READ, which is deleted first, is then registered.
LEMMA RemoveKernel ==
    ASSUME BackendInv, NEW id \in B!Active,
           B!x_event_backend_remove_socket(sources[id].fd, sources[id].events)
    PROVE  /\ kernel' \subseteq kernel
           /\ sources[id].fd \notin mixed => \A r \in kernel' : r.id # id
           /\ backend = "kqueue" =>
                  \A r \in kernel : r.fd # sources[id].fd \/ r.filter \notin sources[id].events
                                       => r \in kernel'
<1>1. KernelInv /\ FiltersInv /\ backend \in {"epoll", "kqueue", "select"}
  BY Zenon DEF BackendInv, SourcesInv
<1>2. CASE backend = "epoll"
  BY ZenonT(60), <1>1, <1>2 DEF B!x_event_backend_remove_socket, KernelInv
<1>3. CASE backend = "select"
  BY ZenonT(60), <1>1, <1>3 DEF B!x_event_backend_remove_socket, KernelInv
<1>4. CASE backend = "kqueue"
  <2>1. PICK deleted :
            /\ deleted = IF "READ" \in sources[id].events /\ ~B!Registered(sources[id].fd, "READ")
                         THEN {} ELSE sources[id].events
            /\ kernel' = {r \in kernel : r.fd # sources[id].fd \/ r.filter \notin deleted}
    BY Zenon, <1>4 DEF B!x_event_backend_remove_socket
  <2>2. ASSUME sources[id].fd \notin mixed
        PROVE  deleted = sources[id].events
    <3>1. \A f \in sources[id].events : B!Registered(sources[id].fd, f)
      BY ZenonT(60), <1>1, <1>4, <2>2 DEF FiltersInv, B!Registered
    <3>2. QED
      BY ZenonT(60), <2>1, <3>1
  <2>3. ASSUME sources[id].fd \notin mixed, NEW r \in kernel', r.id = id
        PROVE  FALSE
    <3>1. r \in kernel /\ (r.fd # sources[id].fd \/ r.filter \notin sources[id].events)
      BY ZenonT(60), <2>1, <2>2, <2>3
    <3>2. QED
      BY ZenonT(60), <1>1, <2>3, <3>1 DEF KernelInv
  <2>4. QED
    BY ZenonT(60), <2>1, <2>3
<1>5. QED
  BY Zenon, <1>1, <1>2, <1>3, <1>4

LEMMA RemoveStep ==
    ASSUME BackendInv, NEW id \in B!Ids, B!x_event_source_remove(id)
    PROVE  BackendInv'
<1>1. /\ id \in B!Active /\ sources' = [sources EXCEPT ![id].state = "removed"]
      /\ B!x_event_backend_remove_socket(sources[id].fd, sources[id].events)
      /\ UNCHANGED <<backend, at, events, ready, i, known, last, mixed>>
  BY Zenon DEF B!x_event_source_remove
<1>2. /\ B!Ids' = B!Ids /\ sources' \in [B!Ids -> SourceType]
      /\ \A j \in B!Ids : /\ sources'[j].fd = sources[j].fd /\ sources'[j].events = sources[j].events
                        /\ sources'[j].state = IF j = id THEN "removed" ELSE sources[j].state
  BY ZenonT(60), <1>1 DEF BackendInv, SourcesInv, SourceType, B!Ids
<1>3. SourcesInv'
  BY ZenonT(60), <1>1, <1>2 DEF BackendInv, SourcesInv
<1>4. KernelInv /\ FiltersInv /\ EventsInv /\ LastInv
  BY ZenonT(60) DEF BackendInv
<1>5. B!Active' = B!Active \ {id} /\ B!Active \subseteq B!Ids
  BY ZenonT(60), <1>2 DEF B!Active
<1>6. /\ kernel' \subseteq kernel
      /\ sources[id].fd \notin mixed => \A r \in kernel' : r.id # id
      /\ backend = "kqueue" =>
             \A r \in kernel : r.fd # sources[id].fd \/ r.filter \notin sources[id].events
                                  => r \in kernel'
  BY ZenonT(60), <1>1, RemoveKernel
<1>7. KernelInv'
  <2>1. ASSUME NEW r \in kernel'
        PROVE  /\ r.id \in B!Ids' /\ r.fd = sources'[r.id].fd
               /\ r.fd \notin mixed' => r.id \in B!Active' /\ r.filter \in sources'[r.id].events
    <3>1. /\ r \in kernel /\ r.id \in B!Ids /\ r.fd = sources[r.id].fd
          /\ r.fd \notin mixed => r.id \in B!Active /\ r.filter \in sources[r.id].events
      BY ZenonT(60), <1>4, <1>6 DEF KernelInv
    <3>2. r.fd \notin mixed => r.id # id
      BY ZenonT(60), <1>6, <3>1
    <3>3. QED
      BY ZenonT(60), <1>1, <1>2, <1>5, <3>1, <3>2
  <2>2. QED
    BY ZenonT(60), <1>1, <1>4, <1>6, <2>1 DEF KernelInv
<1>8. FiltersInv'
  <2>1. ASSUME backend = "kqueue", NEW j \in B!Active', NEW f \in sources'[j].events,
               sources'[j].fd \notin mixed'
        PROVE  \E r \in kernel' : r.fd = sources'[j].fd /\ r.filter = f /\ r.id = j
    <3>1. /\ j \in B!Active /\ j \in B!Ids /\ j # id /\ f \in sources[j].events
          /\ sources[j].fd \notin mixed
          /\ sources'[j].fd = sources[j].fd
      BY ZenonT(60), <1>1, <1>2, <1>5, <2>1
    <3>2. PICK r \in kernel : r.fd = sources[j].fd /\ r.filter = f /\ r.id = j
      BY ZenonT(60), <1>4, <2>1, <3>1 DEF FiltersInv
    <3>3. ASSUME r.fd = sources[id].fd, r.filter \in sources[id].events
          PROVE  FALSE
      <4>1. f \in sources[id].events /\ sources[id].fd \notin mixed /\ id \in B!Active
        BY Zenon, <1>1, <3>1, <3>2, <3>3
      <4>2. PICK s \in kernel : s.fd = sources[id].fd /\ s.filter = f /\ s.id = id
        BY ZenonT(60), <1>4, <2>1, <4>1 DEF FiltersInv
      <4>3. r.fd = s.fd /\ r.filter = s.filter
        BY Zenon, <3>2, <3>3, <4>2
      <4>4. r.id = s.id
        BY ZenonT(60), <1>4, <2>1, <3>2, <4>2, <4>3 DEF FiltersInv
      <4>5. QED
        BY Zenon, <3>1, <3>2, <4>2, <4>4
    <3>4. QED
      BY ZenonT(60), <1>6, <2>1, <3>1, <3>2, <3>3
  <2>2. QED
    BY ZenonT(60), <1>1, <1>4, <1>6, <2>1 DEF FiltersInv
<1>9. \A j \in B!Ids : MayGet(j)' = MayGet(j)
  BY ZenonT(60), <1>1, <1>2 DEF MayGet
<1>10. \A j \in B!Ids : sources'[j].state = "freed" => sources[j].state = "freed"
  BY ZenonT(60), <1>2
<1>11. EventsInv'
  BY SMTT(60), SMTT(90), <1>1, <1>2, <1>4, <1>9, <1>10 DEF EventsInv
<1>12. LastInv'
  BY SMTT(60), SMTT(90), <1>1, <1>2, <1>4, <1>9 DEF LastInv, EventsInv
<1>13. QED
  BY ZenonT(60), <1>3, <1>7, <1>8, <1>11, <1>12 DEF BackendInv

\* A socket that is closed has no active source; what kqueue has mixed up for it is
\* forgotten when nothing reported is left to dispatch.
LEMMA CloseStep ==
    ASSUME BackendInv, NEW fd \in Fds, B!CloseSocket(fd)
    PROVE  BackendInv'
<1>1. /\ \A id \in B!Active : sources[id].fd # fd
      /\ kernel' = {r \in kernel : r.fd # fd}
      /\ mixed' \in {mixed, mixed \ {fd}} /\ (mixed' = mixed \/ at = "rest")
      /\ UNCHANGED <<backend, sources, at, events, ready, i, known, last>>
  BY Zenon DEF B!CloseSocket
<1>2. B!Ids' = B!Ids /\ B!Active' = B!Active /\ \A id : MayGet(id)' = MayGet(id)
  BY Zenon, <1>1 DEF B!Ids, B!Active, MayGet
<1>3. SourcesInv /\ KernelInv /\ FiltersInv /\ EventsInv /\ LastInv
  BY Zenon DEF BackendInv
<1>4. SourcesInv'
  BY Zenon, <1>1, <1>2, <1>3 DEF SourcesInv
<1>5. \A other : other # fd => (other \in mixed' <=> other \in mixed)
  BY ZenonT(60), <1>1
<1>6. KernelInv'
  BY ZenonT(60), <1>1, <1>2, <1>3, <1>5 DEF KernelInv
<1>7. FiltersInv'
  <2>1. ASSUME backend = "kqueue", NEW id \in B!Active, NEW f \in sources[id].events,
               sources[id].fd \notin mixed'
        PROVE  \E r \in kernel' : r.fd = sources[id].fd /\ r.filter = f /\ r.id = id
    <3>1. sources[id].fd # fd /\ sources[id].fd \notin mixed
      BY ZenonT(60), <1>1, <1>5, <2>1
    <3>2. PICK r \in kernel : r.fd = sources[id].fd /\ r.filter = f /\ r.id = id
      BY ZenonT(60), <1>3, <2>1, <3>1 DEF FiltersInv
    <3>3. r \in kernel'
      BY Zenon, <1>1, <3>1, <3>2
    <3>4. QED
      BY Zenon, <3>2, <3>3
  <2>2. backend # "kqueue" => mixed' = {}
    BY ZenonT(60), <1>1, <1>3 DEF FiltersInv
  <2>3. ASSUME backend = "kqueue", NEW r \in kernel', NEW s \in kernel',
               r.fd = s.fd, r.filter = s.filter
        PROVE  r.id = s.id
    BY ZenonT(60), <1>1, <1>3, <2>3 DEF FiltersInv
  <2>4. ASSUME backend' = "kqueue", NEW id \in B!Active', NEW f \in sources'[id].events,
               sources'[id].fd \notin mixed'
        PROVE  \E r \in kernel' : r.fd = sources'[id].fd /\ r.filter = f /\ r.id = id
    <3>1. /\ backend = "kqueue" /\ id \in B!Active /\ f \in sources[id].events
          /\ sources[id].fd \notin mixed' /\ sources'[id] = sources[id]
      BY Zenon, <1>1, <1>2, <2>4
    <3>2. PICK r \in kernel' : r.fd = sources[id].fd /\ r.filter = f /\ r.id = id
      BY ZenonT(60), <2>1, <3>1
    <3>3. QED
      BY Zenon, <3>1, <3>2
  <2>5. backend' = backend
    BY Zenon, <1>1
  <2>6. QED
    BY ZenonT(60), <2>2, <2>3, <2>4, <2>5 DEF FiltersInv
<1>8. EventsInv'
  BY ZenonT(60), <1>1, <1>2, <1>3 DEF EventsInv
<1>9. LastInv'
  BY ZenonT(60), <1>1, <1>2, <1>3 DEF LastInv
<1>10. QED
  BY Zenon, <1>4, <1>6, <1>7, <1>8, <1>9 DEF BackendInv

\* The kernel reports sources that are registered, with what they asked for.
LEMMA WaitStep ==
    ASSUME BackendInv, B!x_event_loop_wait_sockets
    PROVE  BackendInv'
<1>1. PICK happened \in [Fds -> SUBSET (B!Filters \cup {"HUP"})] :
          \/ /\ backend = "epoll" /\ ready' = {}
             /\ events' = {e \in B!EpollEvents(happened) : e.flags # {}}
          \/ backend = "kqueue" /\ events' = B!KqueueEvents(happened) /\ ready' = {}
          \/ backend = "select" /\ events' = {} /\ ready' = B!SelectSets(happened)
  BY Zenon DEF B!x_event_loop_wait_sockets
<1>2. /\ at' = "dispatch" /\ known' = B!Active
      /\ UNCHANGED <<backend, sources, kernel, last, mixed>>
  BY Zenon DEF B!x_event_loop_wait_sockets
<1>3. SourcesInv'
  BY Zenon, <1>2 DEF BackendInv, SourcesInv, B!Ids
<1>4. KernelInv /\ FiltersInv
  BY Zenon DEF BackendInv
<1>5. KernelInv' /\ FiltersInv' /\ LastInv'
  <2>1. B!Ids' = B!Ids /\ B!Active' = B!Active
    BY Zenon, <1>2 DEF B!Ids, B!Active
  <2>2. FiltersInv'
    BY ZenonT(60), <1>2, <1>4, <2>1, FiltersSame
  <2>3. KernelInv' /\ LastInv'
    BY ZenonT(60), <1>2, <1>4, <2>1 DEF KernelInv, LastInv
  <2>4. QED
    BY Zenon, <2>2, <2>3
<1>6. ASSUME NEW e \in events'
      PROVE  /\ e.id \in B!Ids
             /\ sources[e.id].fd \notin mixed => e.id \in B!Active /\ e.flags \subseteq MayGet(e.id)
  <2>1. CASE backend = "epoll"
    <3>1. PICK r \in kernel :
              e = [id |-> r.id,
                   flags |-> {s.filter : s \in {t \in kernel : t.fd = r.fd /\ t.filter \in happened[r.fd]}}
                             \cup (IF "HUP" \in happened[r.fd] THEN {"READ"} ELSE {})]
      BY SMTT(60), SMTT(90), <1>1, <1>6, <2>1 DEF B!EpollEvents
    <3>2. mixed = {}
      BY Zenon, <1>4, <2>1 DEF FiltersInv
    <3>3. r.id \in B!Active /\ r.id \in B!Ids
      BY ZenonT(60), <1>4, <3>2 DEF KernelInv
    <3>4. ASSUME NEW s \in kernel, s.fd = r.fd
          PROVE  s.filter \in sources[r.id].events
      BY ZenonT(60), <1>4, <2>1, <3>2, <3>4 DEF KernelInv
    <3>5. e.id = r.id /\ \A f \in e.flags : f = "READ" \/ f \in sources[r.id].events
      BY SMTT(60), SMTT(90), <3>1, <3>4
    <3>6. QED
      BY ZenonT(60), <2>1, <3>3, <3>5 DEF MayGet
  <2>2. CASE backend = "kqueue"
    <3>1. PICK r \in kernel : e = [id |-> r.id, flags |-> {r.filter}]
      BY ZenonT(60), <1>1, <1>6, <2>2 DEF B!KqueueEvents
    <3>2. QED
      BY ZenonT(60), <1>4, <3>1 DEF KernelInv, MayGet
  <2>3. QED
    BY ZenonT(60), <1>1, <1>6, <2>1, <2>2
<1>7. ASSUME NEW p \in ready'
      PROVE  \E id \in B!Active : p[1] = sources[id].fd /\ p[2] \in sources[id].events
  <2>1. p \in B!SelectSets(happened)
    BY ZenonT(60), <1>1, <1>7
  <2>2. PICK id \in B!Active :
            p \in {<<sources[id].fd, f>> : f \in sources[id].events \cap happened[sources[id].fd]}
    BY ZenonT(60), <2>1 DEF B!SelectSets
  <2>3. PICK f \in sources[id].events : p = <<sources[id].fd, f>>
    BY ZenonT(60), <2>2
  <2>4. QED
    BY ZenonT(60), <2>3
<1>8. EventsInv'
  <2>1. B!Ids' = B!Ids /\ \A id : MayGet(id)' = MayGet(id)
    BY Zenon, <1>2 DEF B!Ids, MayGet
  <2>2. \A id \in B!Active : id \in B!Ids /\ sources[id].state # "freed"
    BY Zenon DEF B!Active
  <2>3. backend = "select" => events' = {}
    BY Zenon, <1>1
  <2>4. QED
    BY ZenonT(60), <1>2, <1>6, <1>7, <2>1, <2>2, <2>3 DEF EventsInv
<1>9. QED
  BY ZenonT(60), <1>3, <1>5, <1>8 DEF BackendInv

\* A callback is called for an active source only.
LEMMA DispatchStep ==
    ASSUME BackendInv, (\E e \in events : B!DispatchEvent(e)) \/ B!DispatchSource
    PROVE  BackendInv'
<1>1. /\ at = "dispatch" /\ UNCHANGED <<backend, sources, kernel, ready, known, mixed>>
      /\ events' \subseteq events
  BY Zenon DEF B!DispatchEvent, B!DispatchSource
<1>2. SourcesInv'
  BY ZenonT(60), <1>1 DEF BackendInv, SourcesInv, B!Ids
<1>3. KernelInv /\ FiltersInv /\ EventsInv
  BY Zenon DEF BackendInv
<1>4. B!Ids' = B!Ids /\ B!Active' = B!Active /\ \A id : MayGet(id)' = MayGet(id)
  BY ZenonT(60), <1>1 DEF B!Ids, B!Active, MayGet
<1>5. KernelInv' /\ FiltersInv'
  <2>1. FiltersInv'
    BY ZenonT(60), <1>1, <1>3, <1>4, FiltersSame
  <2>2. QED
    BY ZenonT(60), <2>1, <1>1, <1>3, <1>4 DEF KernelInv
<1>6. at' \in {"dispatch", "callback"}
  BY Zenon, <1>1 DEF B!DispatchEvent, B!DispatchSource, B!Dispatch
<1>7. EventsInv'
  BY ZenonT(60), <1>1, <1>3, <1>4, <1>6 DEF EventsInv
<1>8. LastInv'
  <2> SUFFICES ASSUME at' = "callback"
               PROVE  LastInv!2'
    BY Zenon DEF LastInv
  <2>1. ASSUME NEW e \in events, B!DispatchEvent(e)
        PROVE  LastInv'
    <3>1. last' = [id |-> e.id, flags |-> e.flags, state |-> sources[e.id].state]
          /\ sources[e.id].state \in {"active", "freed"}
      BY ZenonT(60), <1>1, <2>1 DEF B!DispatchEvent, B!Dispatch
    <3>2. backend # "select"
      BY Zenon, <1>3 DEF EventsInv
    <3>3. /\ e.id \in B!Ids
          /\ sources[e.id].fd \notin mixed =>
                 /\ e.flags \subseteq MayGet(e.id) /\ e.id \in known
                 /\ sources[e.id].state # "freed"
      BY ZenonT(60), <1>3, <2>1 DEF EventsInv
    <3>4. last'.id = e.id /\ last'.flags = e.flags /\ last'.state = sources[e.id].state
      BY Zenon, <3>1
    <3>5. QED
      BY ZenonT(60), <1>1, <1>4, <3>1, <3>2, <3>3, <3>4 DEF LastInv
  <2>2. ASSUME B!DispatchSource
        PROVE  LastInv'
    <3> DEFINE flags == {f \in sources[i].events : <<sources[i].fd, f>> \in ready}
    <3>1. /\ backend = "select" /\ i \in B!Ids /\ sources[i].state = "active"
          /\ last' = [id |-> i, flags |-> flags, state |-> sources[i].state]
      BY ZenonT(60), <1>1, <2>2 DEF B!DispatchSource, B!Dispatch
    <3>2. flags \subseteq MayGet(i)
      BY Zenon DEF MayGet
    <3>3. ASSUME NEW f \in flags
          PROVE  \E id \in known : sources[id].fd = sources[i].fd /\ f \in sources[id].events
      <4>1. PICK id \in known : /\ <<sources[i].fd, f>>[1] = sources[id].fd
                                /\ <<sources[i].fd, f>>[2] \in sources[id].events
        BY ZenonT(60), <1>3, <3>3 DEF EventsInv
      <4>2. <<sources[i].fd, f>>[1] = sources[i].fd /\ <<sources[i].fd, f>>[2] = f
        OBVIOUS
      <4>3. QED
        BY Zenon, <4>1, <4>2
    <3>4. last'.id = i /\ last'.flags = flags /\ last'.state = "active"
      BY Zenon, <3>1
    <3> HIDE DEF flags
    <3>5. QED
      BY ZenonT(60), <1>1, <1>4, <3>1, <3>2, <3>3, <3>4 DEF LastInv
  <2>3. QED
    BY ZenonT(60), <2>1, <2>2 DEF LastInv
<1>9. QED
  BY ZenonT(60), <1>2, <1>5, <1>7, <1>8 DEF BackendInv

\* Sources are freed when nothing is left to dispatch; none of them is registered.
LEMMA CompactStep ==
    ASSUME BackendInv, B!x_event_loop_compact
    PROVE  BackendInv'
<1>1. /\ events = {} /\ at' = "rest" /\ known' = {} /\ ready' = {}
      /\ UNCHANGED <<backend, kernel, events, last, mixed>>
      /\ sources' = [id \in B!Ids |-> IF sources[id].state = "removed"
                                    THEN [sources[id] EXCEPT !.state = "freed"] ELSE sources[id]]
  BY Zenon DEF B!x_event_loop_compact
<1>2. /\ B!Ids' = B!Ids /\ sources' \in [B!Ids -> SourceType]
      /\ \A j \in B!Active : sources'[j] = sources[j]
      /\ \A j \in B!Ids : sources'[j].fd = sources[j].fd
  BY ZenonT(60), <1>1 DEF BackendInv, SourcesInv, SourceType, B!Ids, B!Active
<1>3. SourcesInv'
  BY ZenonT(60), <1>1, <1>2 DEF BackendInv, SourcesInv
<1>4. KernelInv /\ FiltersInv
  BY Zenon DEF BackendInv
<1>5. B!Active = B!Active'
  <2>1. \A j \in B!Ids : sources'[j].state = "active" <=> sources[j].state = "active"
    BY ZenonT(60), <1>1 DEF BackendInv, SourcesInv, SourceType
  <2>2. QED
    BY Zenon, <1>2, <2>1 DEF B!Active
<1>6. KernelInv'
  BY ZenonT(60), <1>1, <1>2, <1>4, <1>5 DEF KernelInv
<1>7. FiltersInv'
  BY ZenonT(60), <1>1, <1>2, <1>4, <1>5, FiltersSame
<1>8. EventsInv' /\ LastInv'
  BY ZenonT(60), <1>1 DEF EventsInv, LastInv
<1>9. QED
  BY Zenon, <1>3, <1>6, <1>7, <1>8 DEF BackendInv

\* Every step is one of these.
LEMMA BackendStep == BackendInv /\ [B!Next]_(B!vars) => BackendInv'
<1> SUFFICES ASSUME BackendInv, [B!Next]_(B!vars)
             PROVE  BackendInv'
  OBVIOUS
<1>1. ASSUME NEW fd \in Fds, B!AddFailsHalfway(fd)
      PROVE  BackendInv'
  <2> DEFINE c == Cardinality(B!Ids) + 1
  <2>1. /\ B!AddSource(fd, B!Filters, "freed") /\ backend = "kqueue" /\ mixed' = mixed \cup {fd}
        /\ B!x_event_backend_add_socket(fd, {"READ"}, c)
        /\ UNCHANGED <<backend, at, events, ready, i, known, last>>
    BY Zenon, <1>1, SameCardinality DEF B!AddFailsHalfway
  <2>2. /\ SourcesInv' /\ c \notin B!Ids /\ B!Ids' = B!Ids \cup {c}
        /\ \A id \in B!Ids : sources'[id] = sources[id]
        /\ sources'[c] = [fd |-> fd, events |-> B!Filters, state |-> "freed"]
    BY ZenonT(60), <2>1, AddSourceTable DEF BackendInv
  <2> HIDE DEF c
  <2>3. KernelInv /\ FiltersInv /\ EventsInv /\ LastInv
    BY Zenon DEF BackendInv
  <2>4. sources'[c].fd = fd /\ sources'[c].state = "freed"
    BY SMTT(60), SMTT(90), <2>2
  <2>5. B!Active' = B!Active /\ B!Active \subseteq B!Ids
    BY ZenonT(60), <2>2, <2>4 DEF B!Active
  <2>6. /\ \A r \in kernel' : \/ r \in kernel /\ (r.fd # fd \/ r.filter \notin {"READ"})
                              \/ r.id = c /\ r.fd = fd /\ r.filter \in {"READ"}
        /\ \A r \in kernel : r.fd # fd \/ r.filter \notin {"READ"} => r \in kernel'
    <3>1. {"READ"} \in SUBSET B!Filters
      BY Zenon DEF B!Filters
    <3>2. ASSUME NEW asked \in SUBSET B!Filters, B!x_event_backend_add_socket(fd, asked, c)
          PROVE  /\ \A r \in kernel' : \/ r \in kernel /\ (r.fd # fd \/ r.filter \notin asked)
                                       \/ r.id = c /\ r.fd = fd /\ r.filter \in asked
                 /\ \A r \in kernel : r.fd # fd \/ r.filter \notin asked => r \in kernel'
      <4>1. /\ \A r \in kernel' :
                   \/ /\ r \in kernel
                      /\ backend = "epoll" => r.fd # fd
                      /\ backend = "kqueue" => r.fd # fd \/ r.filter \notin asked
                   \/ r.id = c /\ r.fd = fd /\ r.filter \in asked /\ backend # "select"
            /\ backend = "kqueue" =>
                   /\ \A f \in asked : \E r \in kernel' : r.fd = fd /\ r.filter = f /\ r.id = c
                   /\ \A r \in kernel : r.fd # fd \/ r.filter \notin asked => r \in kernel'
            /\ backend = "select" => kernel' = kernel
        BY ZenonT(60), <2>2, <3>2, AddKernel
      <4>2. QED
        BY ZenonT(60), <2>1, <4>1
    <3>3. QED
      BY ZenonT(60), <2>1, <3>1, <3>2
  <2>7. KernelInv'
    BY ZenonT(60), <2>1, <2>2, <2>3, <2>4, <2>5, <2>6 DEF KernelInv
  <2>8. FiltersInv'
    <3>1. ASSUME NEW r \in kernel', NEW s \in kernel', r.fd = s.fd, r.filter = s.filter
          PROVE  r.id = s.id
      BY ZenonT(60), <2>1, <2>3, <2>6, <3>1 DEF FiltersInv
    <3>2. ASSUME NEW id \in B!Active, NEW f \in sources'[id].events, sources'[id].fd \notin mixed'
          PROVE  \E r \in kernel' : r.fd = sources'[id].fd /\ r.filter = f /\ r.id = id
      <4>1. /\ sources'[id] = sources[id] /\ sources[id].fd \notin mixed /\ sources[id].fd # fd
        BY ZenonT(60), <2>1, <2>2, <2>5, <3>2
      <4>2. backend = "kqueue" /\ f \in sources[id].events
        BY Zenon, <2>1, <3>2, <4>1
      <4>3. PICK r \in kernel : r.fd = sources[id].fd /\ r.filter = f /\ r.id = id
        BY ZenonT(60), <2>3, <4>1, <4>2 DEF FiltersInv
      <4>4. r \in kernel'
        BY Zenon, <2>6, <4>1, <4>3
      <4>5. QED
        BY Zenon, <4>1, <4>3, <4>4
    <3>3. QED
      BY ZenonT(60), <2>1, <2>5, <3>1, <3>2 DEF FiltersInv
  <2>9. \A id \in B!Ids : MayGet(id)' = MayGet(id)
    BY Zenon, <2>1, <2>2 DEF MayGet
  <2>10. EventsInv'
    BY ZenonT(60), <2>1, <2>2, <2>3, <2>9 DEF EventsInv
  <2>11. LastInv'
    BY ZenonT(60), <2>1, <2>2, <2>3, <2>9 DEF LastInv, EventsInv
  <2>12. QED
    BY ZenonT(60), <2>2, <2>7, <2>8, <2>10, <2>11 DEF BackendInv
<1>2. ASSUME NEW error \in BOOLEAN, B!CallbackReturns(error)
      PROVE  BackendInv'
  <2>1. /\ at' \in {"rest", "dispatch"} /\ events' \subseteq events /\ ready' \subseteq ready
        /\ at' = "rest" => events' = {} /\ ready' = {}
        /\ UNCHANGED <<backend, sources, kernel, known, mixed>>
    BY Zenon, <1>2 DEF B!CallbackReturns
  <2>2. B!Ids' = B!Ids /\ B!Active' = B!Active /\ \A id : MayGet(id)' = MayGet(id)
    BY Zenon, <2>1 DEF B!Ids, B!Active, MayGet
  <2>3. SourcesInv'
    BY ZenonT(60), <2>1, <2>2 DEF BackendInv, SourcesInv
  <2>4. KernelInv' /\ FiltersInv'
    <3>1. FiltersInv'
      BY ZenonT(60), <2>1, <2>2, FiltersSame DEF BackendInv
    <3>2. QED
      BY ZenonT(60), <3>1, <2>1, <2>2 DEF BackendInv, KernelInv
  <2>5. EventsInv' /\ LastInv'
    BY ZenonT(60), <2>1, <2>2 DEF BackendInv, EventsInv, LastInv
  <2>6. QED
    BY ZenonT(60), <2>3, <2>4, <2>5 DEF BackendInv
<1>3. CASE UNCHANGED B!vars
  <2>1. /\ UNCHANGED <<backend, sources, kernel, at, events, ready, known, last, mixed>>
        /\ B!Ids' = B!Ids /\ B!Active' = B!Active /\ \A id : MayGet(id)' = MayGet(id)
    BY Zenon, <1>3 DEF B!vars, B!Ids, B!Active, MayGet
  <2>2. SourcesInv' /\ KernelInv' /\ FiltersInv'
    <3>1. FiltersInv'
      BY ZenonT(60), <2>1, FiltersSame DEF BackendInv
    <3>2. QED
      BY ZenonT(60), <3>1, <2>1 DEF BackendInv, SourcesInv, KernelInv
  <2>3. EventsInv' /\ LastInv'
    BY ZenonT(60), <2>1 DEF BackendInv, EventsInv, LastInv
  <2>4. QED
    BY Zenon, <2>2, <2>3 DEF BackendInv
<1>4. QED
  BY ZenonT(60), <1>1, <1>2, <1>3, AddStep, RemoveStep, CloseStep, WaitStep, DispatchStep, CompactStep
     DEF B!Next

\* With each of epoll, kqueue and select, whatever callbacks add, remove and close,
\* no pointer to a freed source is kept by the kernel or left in the batch, except
\* for descriptors whose filters kqueue has mixed up.
THEOREM NoPointerDangles == FairSpec => []PointersLive
<1>1. Init => BackendInv
  BY Zenon, BackendInit DEF Init
<1>2. BackendInv /\ [Next]_vars => BackendInv'
  BY BackendStep, BackendSteps
<1>3. BackendInv => PointersLive
  <2> SUFFICES ASSUME BackendInv, NEW e \in kernel \cup events, sources[e.id].fd \notin mixed
               PROVE  sources[e.id].state # "freed"
    BY Zenon DEF PointersLive, B!PointersLive
  <2>1. CASE e \in kernel
    BY ZenonT(60), <2>1 DEF BackendInv, KernelInv, B!Active
  <2>2. CASE e \in events
    BY ZenonT(60), <2>2 DEF BackendInv, EventsInv
  <2>3. QED
    BY Zenon, <2>1, <2>2
<1>4. QED
  BY <1>1, <1>2, <1>3, PTL DEF FairSpec

\* A source is called only while it is active and only with what it asked for, in
\* place of or as a source that was there when the wait returned, except for
\* descriptors whose filters kqueue has mixed up.
THEOREM DispatchIsAsked == FairSpec => []DispatchedAsAsked
<1>1. Init => BackendInv
  BY Zenon, BackendInit DEF Init
<1>2. BackendInv /\ [Next]_vars => BackendInv'
  BY BackendStep, BackendSteps
<1>3. BackendInv => DispatchedAsAsked
  BY ZenonT(60) DEF BackendInv, LastInv, MayGet, DispatchedAsAsked, B!DispatchedAsAsked
<1>4. QED
  BY <1>1, <1>2, <1>3, PTL DEF FairSpec

(***************************************************************************)
(* The program with two threads.                                           *)
(***************************************************************************)
Unpublished == {"socket", "listen", "publish", "store", "unlock"}
Serving == {"accept", "receive", "send", "exited"}
Starting == {"create", "lock", "test", "wait", "check"}
Talking == {"socket", "connect", "send", "receive", "join"}

\* The mutex is the server's while it publishes and the main thread's while that
\* tests the flag, so that a main thread that has seen the flag has also seen the
\* server unlock the mutex for the last time.
PublishInv ==
    /\ main \in Starting \cup Talking \cup {"returned"}
    /\ server \in Unpublished \cup Serving \cup {"none"}
    /\ server \in {"store", "unlock"} <=> owner = "server"
    /\ main = "test" <=> owner = "main"
    /\ state.ready = TRUE => server \in Serving \cup {"unlock"}
    /\ main = "create" => server = "none"
    /\ main \in Talking \cup {"check"} => server \in Serving
    /\ main = "returned" => server \in Serving \cup {"none"}
    /\ main \in (Starting \ {"create"}) \cup Talking => objects = {"mutex", "condition", "thread"}

\* Which sockets are open where the threads are.
SocketsInv ==
    /\ sockets \subseteq {"server", "accepted", "client"}
    /\ main \in Starting \cup {"socket", "join"} => "client" \notin sockets
    /\ server \in {"none", "socket", "exited"} => "server" \notin sockets
    /\ server \notin {"receive", "send"} => "accepted" \notin sockets
    /\ server \in {"publish", "store", "unlock"} /\ outcome # 0 => "server" \notin sockets

\* The main thread goes on to join the server only with the whole answer.
EchoInv ==
    /\ main # "returned" => result = 1
    /\ main = "join" => received = Size
    /\ T!SuccessIsEcho

CheckInv == PublishInv /\ SocketsInv /\ EchoInv

\* At the start there is one thread and nothing is open.
LEMMA CheckInit == T!Init => CheckInv
BY SMTT(60), SMTT(90)
     DEF T!Init, CheckInv, PublishInv, SocketsInv, EchoInv, T!SuccessIsEcho, T!None,
       Unpublished, Serving, Starting, Talking

\* The server unlocks the mutex before the main thread gets past its test.
LEMMA PublishStep ==
    ASSUME PublishInv, [T!Next]_(T!vars)
    PROVE  PublishInv'
<1> USE DEF T!None, T!thread_vars, T!network_vars, PublishInv, Unpublished, Serving, Starting,
            Talking
<1>1. CASE T!MainCreates
  BY Zenon, <1>1 DEF T!MainCreates, T!Return
<1>2. CASE T!MainLocks
  BY Zenon, <1>2 DEF T!MainLocks, T!Main, T!x_mutex_lock
<1>3. CASE T!x_condition_wait
  BY Zenon, <1>3 DEF T!x_condition_wait, T!Main, T!x_mutex_unlock
<1>4. CASE T!MainChecks
  BY Zenon, <1>4 DEF T!MainChecks, T!Return
<1>5. CASE T!MainSocket
  BY Zenon, <1>5 DEF T!MainSocket, T!MainFails, T!Return
<1>6. CASE T!MainConnects
  BY Zenon, <1>6 DEF T!MainConnects, T!MainFails, T!Return
<1>7. CASE T!MainSends
  BY Zenon, <1>7 DEF T!MainSends, T!MainFails, T!Return
<1>8. CASE T!MainReceives
  BY Zenon, <1>8 DEF T!MainReceives, T!MainFails, T!Return
<1>9. CASE T!MainReceiveFails
  BY Zenon, <1>9 DEF T!MainReceiveFails, T!MainFails, T!Return
<1>10. CASE T!MainJoins
  BY Zenon, <1>10 DEF T!MainJoins, T!Return
<1>11. CASE T!ServerSocket
  BY Zenon, <1>11 DEF T!ServerSocket, T!Server
<1>12. CASE T!ServerListens
  BY Zenon, <1>12 DEF T!ServerListens, T!Server
<1>13. CASE T!PublishLocks
  BY Zenon, <1>13 DEF T!PublishLocks, T!Server, T!x_mutex_lock
<1>14. CASE T!publish_server_state
  BY Zenon, <1>14 DEF T!publish_server_state, T!Server
<1>15. CASE T!PublishUnlocks
  BY Zenon, <1>15 DEF T!PublishUnlocks, T!Server, T!x_mutex_unlock
<1>16. CASE T!x_socket_accept
  BY Zenon, <1>16 DEF T!x_socket_accept, T!Server
<1>17. CASE T!ServerReceives
  BY Zenon, <1>17 DEF T!ServerReceives, T!ServerReturns
<1>18. CASE T!ServerSends
  BY Zenon, <1>18 DEF T!ServerSends, T!ServerReturns
<1>19. CASE T!ServerFails
  BY Zenon, <1>19 DEF T!ServerFails, T!ServerReturns
<1>20. ASSUME NEW reason, T!Wakes(reason)
      PROVE  PublishInv'
  BY Zenon, <1>20 DEF T!Wakes, T!Main
<1>21. CASE UNCHANGED T!vars
  BY Zenon, <1>21 DEF T!vars
<1>22. QED
  BY ZenonT(60), <1>1, <1>2, <1>3, <1>4, <1>5, <1>6, <1>7, <1>8, <1>9, <1>10, <1>11, <1>12,
       <1>13, <1>14, <1>15, <1>16, <1>17, <1>18, <1>19, <1>20, <1>21 DEF T!Next, T!MainThread,
       T!ServerThread

\* Every return of a thread closes what the thread has open.
LEMMA SocketsStep ==
    ASSUME PublishInv, SocketsInv, [T!Next]_(T!vars)
    PROVE  SocketsInv'
<1> USE DEF T!None, T!thread_vars, T!network_vars, PublishInv, SocketsInv, Unpublished,
            Serving, Starting, Talking
<1>1. CASE T!MainCreates
  BY Zenon, <1>1 DEF T!MainCreates, T!Return
<1>2. CASE T!MainLocks
  BY Zenon, <1>2 DEF T!MainLocks, T!Main, T!x_mutex_lock
<1>3. CASE T!x_condition_wait
  BY Zenon, <1>3 DEF T!x_condition_wait, T!Main, T!x_mutex_unlock
<1>4. CASE T!MainChecks
  BY Zenon, <1>4 DEF T!MainChecks, T!Return
<1>5. CASE T!MainSocket
  BY Zenon, <1>5 DEF T!MainSocket, T!MainFails, T!Return
<1>6. CASE T!MainConnects
  BY Zenon, <1>6 DEF T!MainConnects, T!MainFails, T!Return
<1>7. CASE T!MainSends
  BY Zenon, <1>7 DEF T!MainSends, T!MainFails, T!Return
<1>8. CASE T!MainReceives
  BY Zenon, <1>8 DEF T!MainReceives, T!MainFails, T!Return
<1>9. CASE T!MainReceiveFails
  BY Zenon, <1>9 DEF T!MainReceiveFails, T!MainFails, T!Return
<1>10. CASE T!MainJoins
  BY Zenon, <1>10 DEF T!MainJoins, T!Return
<1>11. CASE T!ServerSocket
  BY Zenon, <1>11 DEF T!ServerSocket, T!Server
<1>12. CASE T!ServerListens
  BY Zenon, <1>12 DEF T!ServerListens, T!Server
<1>13. CASE T!PublishLocks
  BY Zenon, <1>13 DEF T!PublishLocks, T!Server, T!x_mutex_lock
<1>14. CASE T!publish_server_state
  BY Zenon, <1>14 DEF T!publish_server_state, T!Server
<1>15. CASE T!PublishUnlocks
  BY Zenon, <1>15 DEF T!PublishUnlocks, T!Server, T!x_mutex_unlock
<1>16. CASE T!x_socket_accept
  BY Zenon, <1>16 DEF T!x_socket_accept, T!Server
<1>17. CASE T!ServerReceives
  BY Zenon, <1>17 DEF T!ServerReceives, T!ServerReturns
<1>18. CASE T!ServerSends
  BY Zenon, <1>18 DEF T!ServerSends, T!ServerReturns
<1>19. CASE T!ServerFails
  BY Zenon, <1>19 DEF T!ServerFails, T!ServerReturns
<1>20. ASSUME NEW reason, T!Wakes(reason)
      PROVE  SocketsInv'
  BY Zenon, <1>20 DEF T!Wakes, T!Main
<1>21. CASE UNCHANGED T!vars
  BY Zenon, <1>21 DEF T!vars
<1>22. QED
  BY ZenonT(60), <1>1, <1>2, <1>3, <1>4, <1>5, <1>6, <1>7, <1>8, <1>9, <1>10, <1>11, <1>12,
       <1>13, <1>14, <1>15, <1>16, <1>17, <1>18, <1>19, <1>20, <1>21 DEF T!Next, T!MainThread,
       T!ServerThread

\* 0 is returned after a join, of a server that has returned 0.
LEMMA EchoStep ==
    ASSUME PublishInv, SocketsInv, EchoInv, [T!Next]_(T!vars)
    PROVE  EchoInv'
<1> USE DEF T!None, T!thread_vars, T!network_vars, PublishInv, SocketsInv, EchoInv,
            T!SuccessIsEcho, Unpublished, Serving, Starting, Talking
<1>1. CASE T!MainCreates
  BY SMTT(60), SMTT(90), <1>1 DEF T!MainCreates, T!Return
<1>2. CASE T!MainLocks
  BY Zenon, <1>2 DEF T!MainLocks, T!Main, T!x_mutex_lock
<1>3. CASE T!x_condition_wait
  BY Zenon, <1>3 DEF T!x_condition_wait, T!Main, T!x_mutex_unlock
<1>4. CASE T!MainChecks
  BY SMTT(60), SMTT(90), <1>4 DEF T!MainChecks, T!Return
<1>5. CASE T!MainSocket
  BY SMTT(60), SMTT(90), <1>5 DEF T!MainSocket, T!MainFails, T!Return
<1>6. CASE T!MainConnects
  BY SMTT(60), SMTT(90), <1>6 DEF T!MainConnects, T!MainFails, T!Return
<1>7. CASE T!MainSends
  BY SMTT(60), SMTT(90), <1>7 DEF T!MainSends, T!MainFails, T!Return
<1>8. CASE T!MainReceives
  BY SMTT(60), SMTT(90), <1>8 DEF T!MainReceives, T!MainFails, T!Return
<1>9. CASE T!MainReceiveFails
  BY SMTT(60), SMTT(90), <1>9 DEF T!MainReceiveFails, T!MainFails, T!Return
<1>10. CASE T!MainJoins
  BY SMTT(60), SMTT(90), <1>10 DEF T!MainJoins, T!Return
<1>11. CASE T!ServerSocket
  BY Zenon, <1>11 DEF T!ServerSocket, T!Server
<1>12. CASE T!ServerListens
  BY Zenon, <1>12 DEF T!ServerListens, T!Server
<1>13. CASE T!PublishLocks
  BY Zenon, <1>13 DEF T!PublishLocks, T!Server, T!x_mutex_lock
<1>14. CASE T!publish_server_state
  BY Zenon, <1>14 DEF T!publish_server_state, T!Server
<1>15. CASE T!PublishUnlocks
  BY Zenon, <1>15 DEF T!PublishUnlocks, T!Server, T!x_mutex_unlock
<1>16. CASE T!x_socket_accept
  BY Zenon, <1>16 DEF T!x_socket_accept, T!Server
<1>17. CASE T!ServerReceives
  BY Zenon, <1>17 DEF T!ServerReceives, T!ServerReturns
<1>18. CASE T!ServerSends
  BY Zenon, <1>18 DEF T!ServerSends, T!ServerReturns
<1>19. CASE T!ServerFails
  BY Zenon, <1>19 DEF T!ServerFails, T!ServerReturns
<1>20. ASSUME NEW reason, T!Wakes(reason)
      PROVE  EchoInv'
  BY Zenon, <1>20 DEF T!Wakes, T!Main
<1>21. CASE UNCHANGED T!vars
  BY Zenon, <1>21 DEF T!vars
<1>22. QED
  BY ZenonT(60), <1>1, <1>2, <1>3, <1>4, <1>5, <1>6, <1>7, <1>8, <1>9, <1>10, <1>11, <1>12,
       <1>13, <1>14, <1>15, <1>16, <1>17, <1>18, <1>19, <1>20, <1>21 DEF T!Next, T!MainThread,
       T!ServerThread

\* Whatever call fails in either thread, and for a message of any size: the server
\* does not touch the state of run_tcp_check when that is gone, and success is
\* returned only after the whole answer has come back, with everything closed.
THEOREM CheckIsSound == FairSpec => []TcpCheckSound
<1>1. Init => CheckInv
  BY Zenon, CheckInit DEF Init
<1>2. CheckInv /\ [Next]_vars => CheckInv'
  BY Zenon, ThreadSteps, PublishStep, SocketsStep, EchoStep DEF CheckInv
<1>3. CheckInv => TcpCheckSound
  BY Zenon DEF CheckInv, PublishInv, EchoInv, TcpCheckSound, T!StateOutlivesServer, Unpublished,
         Serving, Starting, Talking
<1>4. QED
  BY <1>1, <1>2, <1>3, PTL DEF FairSpec

==============================================================================
