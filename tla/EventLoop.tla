------------------------------ MODULE EventLoop ------------------------------
(***************************************************************************)
(* The event loop of src/src/x_event.c, as built on Linux (epoll backend). *)
(*                                                                         *)
(* One thread owns the loop: it adds and removes sources, calls            *)
(* x_event_loop_run, and executes the callbacks that run dispatches.       *)
(* Other threads only call x_event_loop_wake, _cancel and _stop.           *)
(*                                                                         *)
(* A source is named by the number of its allocation, so a freed name is   *)
(* never used again and a stale pointer can be told from a live one.  The  *)
(* array loop->sources holds its sources in allocation order: adding       *)
(* appends, and x_event_loop_compact keeps the order.  It is therefore     *)
(* modelled by the SET of the sources it holds, and the index of a         *)
(* traversal by the name of the last source visited.                       *)
(***************************************************************************)
EXTENDS EventTime

CONSTANTS
    MaxSources,     \* bound on the number of sources ever allocated
    Sockets,        \* sockets the client may register
    WakeSocket,     \* loop->wake_receiver
    Kinds,          \* kinds of source the client adds
    Delays,         \* delay_ms arguments of x_event_loop_add_timer
    Intervals,      \* interval_ms arguments of the functions that add sources
    PROCESS_MS,     \* interval_ms that 0 stands for, process sources (10)
    FILE_MS,        \* interval_ms that 0 stands for, file sources (100)
    MIN_CAPACITY,   \* first capacity of loop->sources (8)
    MAX_EVENTS,     \* length of the epoll_event array (32)
    MaxQueue,       \* datagrams that fit in the buffer of wake_receiver
    Threads,        \* threads other than the one that owns the loop
    MaxCalls,       \* bound on the calls each of them makes
    MaxClock        \* bound on the time that passes

Timed == {"timer", "process", "file"}

ASSUME LoopAssumption ==
    /\ {MaxSources, PROCESS_MS, FILE_MS, MIN_CAPACITY, MAX_EVENTS, MaxQueue}
          \subseteq Nat \ {0}
    /\ {MaxCalls, MaxClock} \subseteq Nat
    /\ Delays \subseteq Nat /\ Intervals \subseteq Nat
    /\ WakeSocket \notin Sockets
    /\ Kinds \subseteq Timed \cup {"socket"}
    /\ MaxClock <= UINT64_MAX

VARIABLES
    sources,         \* the sources in the array loop->sources
    active,          \* those whose active field is 1
    freed,           \* sources returned to the allocator
    src,             \* the fields of a source that never change
    due,             \* due_ns
    nextId,          \* name of the next source allocated
    capacity,        \* loop->capacity
    registered,      \* epoll: pairs of a socket and the pointer kept for it
    stop_requested,  \* loop->stop_requested
    queue,           \* number of datagrams waiting in wake_receiver
    pc,              \* where the owner is
    phase,           \* which call of x_event_loop_dispatch_timers: 1 or 2
    cursor,          \* last source visited by dispatch_timers
    cb,              \* source whose callback is running
    now,             \* local variable of dispatch_timers
    deadline,        \* when epoll_wait gives up
    batch,           \* pointers reported by epoll_wait, not yet handled
    clock,           \* CLOCK_MONOTONIC
    exited,          \* process sources whose child has exited
    thread,          \* what each other thread is doing
    calls,           \* calls each other thread may still make
    completed,       \* history: one-shot sources whose callback returned 0
    wakeFailed       \* history: a thread's stop request could not be sent

table == <<sources, active, freed, src, due, nextId, capacity, registered>>
control == <<pc, phase, cursor, cb, now, deadline, batch>>
others == <<thread, calls>>
vars == <<table, control, stop_requested, queue, clock, exited, others,
          completed, wakeFailed>>

Ids == 1 .. MaxSources
NoSource == 0
WakeSource == 1                       \* loop->wake_source, the internal source
NoDeadline == -1

Source(k, s, i) == [kind |-> k, sock |-> s, interval |-> i]
NoFields == Source("none", WakeSocket, 0)
ActiveOf(kinds) == {s \in active : src[s].kind \in kinds}
UserSources == active \ {WakeSource}  \* active and not internal
Running == pc \notin {"idle", "destroyed"}
InClient == pc \in {"idle", "callback"}

\* loop->capacity after a successful x_event_loop_reserve(loop, needed)
x_event_loop_reserve(needed) ==
    LET doubled == IF capacity = 0 THEN MIN_CAPACITY ELSE 2 * capacity
    IN  IF needed <= capacity THEN capacity
        ELSE IF doubled >= needed THEN doubled
        ELSE Min({n \in {doubled * 2^k : k \in 1..needed} : n >= needed})

(***************************************************************************)
(* The table of sources.                                                   *)
(***************************************************************************)
\* The part that the four functions adding a source share.
NewSource(fields, due_ns) ==
    /\ InClient
    /\ nextId <= MaxSources
    /\ capacity' = x_event_loop_reserve(Cardinality(sources) + 1)
    /\ sources' = sources \cup {nextId}
    /\ active' = active \cup {nextId}
    /\ src' = [src EXCEPT ![nextId] = fields]
    /\ due' = [due EXCEPT ![nextId] = due_ns]
    /\ nextId' = nextId + 1
    /\ UNCHANGED <<freed, control, stop_requested, queue, clock, exited, others,
                   completed, wakeFailed>>

\* EPOLL_CTL_ADD fails with EEXIST when the socket is registered already; the
\* new source is then freed and nothing is left of the call.
x_event_loop_add_socket(s) ==
    /\ \A r \in registered : r[1] # s
    /\ NewSource(Source("socket", s, 0), 0)
    /\ registered' = registered \cup {<<s, nextId>>}

x_event_loop_add_timer(delay_ms, interval_ms) ==
    /\ NewSource(Source("timer", WakeSocket, x_event_ms_to_ns(interval_ms)),
                 AddNs(clock, x_event_ms_to_ns(delay_ms)))
    /\ UNCHANGED registered

\* The interval of a polled source: 0 stands for the default.
PollInterval(interval_ms, default_ms) ==
    x_event_ms_to_ns(IF interval_ms = 0 THEN default_ms ELSE interval_ms)

x_event_loop_add_process(interval_ms) ==
    /\ NewSource(Source("process", WakeSocket, PollInterval(interval_ms, PROCESS_MS)),
                 clock)
    /\ UNCHANGED registered

x_event_loop_add_file_watcher(interval_ms) ==
    /\ NewSource(Source("file", WakeSocket, PollInterval(interval_ms, FILE_MS)), clock)
    /\ UNCHANGED registered

AddSource ==
    \/ /\ "socket" \in Kinds
       /\ \E s \in Sockets : x_event_loop_add_socket(s)
    \/ /\ "timer" \in Kinds
       /\ \E d \in Delays, i \in Intervals : x_event_loop_add_timer(d, i)
    \/ /\ "process" \in Kinds
       /\ \E i \in Intervals : x_event_loop_add_process(i)
    \/ /\ "file" \in Kinds
       /\ \E i \in Intervals : x_event_loop_add_file_watcher(i)

\* The array has grown, but then the clock or calloc fails.
AddSourceFails ==
    /\ InClient
    /\ capacity' = x_event_loop_reserve(Cardinality(sources) + 1)
    /\ UNCHANGED <<sources, active, freed, src, due, nextId, registered, control,
                   stop_requested, queue, clock, exited, others, completed,
                   wakeFailed>>

\* Variant: the socket stays registered.
RemoveKeepingRegistration(s) == active' = active \ {s} /\ UNCHANGED registered

\* Variant: the active field is not cleared.
RemoveLeavingActive(s) ==
    /\ UNCHANGED active
    /\ registered' = {r \in registered : r[2] # s}

\* x_event_source_remove on an active source.  EPOLL_CTL_DEL removes whatever
\* is registered for the socket.  The memory is kept for compact to free.
RemoveSource(s) ==
    /\ active' = active \ {s}
    /\ registered' = IF src[s].kind = "socket"
                     THEN {r \in registered : r[1] # src[s].sock}
                     ELSE registered

\* Variant: the memory is freed at once.
RemoveAndFree(s) ==
    /\ InClient
    /\ s \in UserSources
    /\ RemoveSource(s)
    /\ sources' = sources \ {s} /\ freed' = freed \cup {s}
    /\ UNCHANGED <<src, due, nextId, capacity, control, stop_requested, queue,
                   clock, exited, others, completed, wakeFailed>>

\* A client removes a source it knows to be active: a handle whose source the
\* loop has removed by itself must not be used any more.
x_event_source_remove(s) ==
    /\ InClient
    /\ s \in UserSources
    /\ RemoveSource(s)
    /\ UNCHANGED <<sources, freed, src, due, nextId, capacity, control,
                   stop_requested, queue, clock, exited, others, completed,
                   wakeFailed>>

x_event_loop_compact ==
    /\ sources' = sources \cap active
    /\ freed' = freed \cup (sources \ active)

(***************************************************************************)
(* x_event_loop_run.                                                       *)
(***************************************************************************)
\* The loop is left, with or without an error; there is no compact on the way.
Leave ==
    /\ pc' = "idle"
    /\ phase' = 1 /\ cursor' = NoSource /\ cb' = NoSource
    /\ now' = 0 /\ deadline' = NoDeadline /\ batch' = {}

\* The owner calls x_event_loop_run ...
x_event_loop_run ==
    /\ pc = "idle"
    /\ pc' = "entry"
    /\ UNCHANGED <<table, phase, cursor, cb, now, deadline, batch, stop_requested,
                   queue, clock, exited, others, completed, wakeFailed>>

\* ... which forgets any earlier request to stop.
EnterLoop ==
    /\ pc = "entry"
    /\ pc' = "top"
    /\ stop_requested' = FALSE
    /\ wakeFailed' = FALSE
    /\ UNCHANGED <<table, phase, cursor, cb, now, deadline, batch, queue, clock,
                   exited, others, completed>>

\* The condition of the while loop.
LoopTop ==
    /\ pc = "top"
    /\ IF stop_requested \/ UserSources = {}
       THEN Leave
       ELSE /\ pc' = "pass" /\ phase' = 1
            /\ UNCHANGED <<cursor, cb, now, deadline, batch>>
    /\ UNCHANGED <<table, stop_requested, queue, clock, exited, others, completed,
                   wakeFailed>>

\* dispatch_timers reads the clock once, for the whole pass.
StartPass ==
    /\ pc = "pass"
    /\ \/ /\ pc' = "timers" /\ now' = clock /\ cursor' = NoSource
          /\ UNCHANGED <<phase, cb, deadline, batch>>
       \/ Leave                                  \* the clock could not be read
    /\ UNCHANGED <<table, stop_requested, queue, clock, exited, others, completed,
                   wakeFailed>>

\* The sources the rest of the pass will handle, unless a callback changes
\* that.  Sources added meanwhile are at the end of the array and belong to it.
DueSources == {s \in sources : /\ s > cursor /\ s \in ActiveOf(Timed)
                               /\ due[s] <= now}

Visit(s) == pc = "timers" /\ s \in DueSources /\ \A t \in DueSources : s <= t

Dispatch(s) ==
    /\ pc' = "callback" /\ cb' = s
    /\ UNCHANGED <<phase, now, deadline>>

Reschedule(s) == due' = [due EXCEPT ![s] = AddNs(now, src[s].interval)]

\* A process or file source is polled: x_process_poll finds the child running
\* or not, x_file_watcher_poll reports changes or none, and both may fail.
PollSource(s) ==
    /\ Visit(s)
    /\ src[s].kind \in {"process", "file"}
    /\ \/ /\ src[s].kind = "process" => s \in exited
          /\ Dispatch(s) /\ cursor' = s
          /\ UNCHANGED <<due, batch>>
       \/ /\ s \notin exited
          /\ Reschedule(s) /\ cursor' = s
          /\ UNCHANGED <<pc, phase, cb, now, deadline, batch>>
       \/ Leave /\ UNCHANGED due
    /\ UNCHANGED <<sources, active, freed, src, nextId, capacity, registered,
                   stop_requested, queue, clock, exited, others, completed,
                   wakeFailed>>

FireTimer(s) ==
    /\ Visit(s)
    /\ src[s].kind = "timer"
    /\ Dispatch(s) /\ cursor' = s
    /\ UNCHANGED <<table, batch, stop_requested, queue, clock, exited, others,
                   completed, wakeFailed>>

\* A callback returns 0.  What follows depends on the kind of its source and
\* on whether the callback has removed it.
CallbackReturns ==
    LET kind == src[cb].kind
        one_shot == kind = "process" \/ (kind = "timer" /\ src[cb].interval = 0)
        repeats == kind = "timer" /\ src[cb].interval # 0 /\ cb \in active
    IN  /\ pc = "callback"
        /\ pc' = IF kind = "socket" THEN "batch"
                 ELSE IF repeats THEN "advance" ELSE "timers"
        /\ cb' = IF repeats THEN cb ELSE NoSource
        /\ IF one_shot /\ cb \in active
           THEN RemoveSource(cb)
           ELSE UNCHANGED <<active, registered>>
        /\ completed' = IF one_shot THEN completed \cup {cb} ELSE completed
        /\ IF kind = "file" /\ cb \in active
           THEN Reschedule(cb)
           ELSE UNCHANGED due
        /\ UNCHANGED <<sources, freed, src, nextId, capacity, phase, cursor, now,
                       deadline, batch, stop_requested, queue, clock, exited,
                       others, wakeFailed>>

\* A callback returns an error: run returns it, and the source stays as it is.
CallbackFails ==
    /\ pc = "callback"
    /\ Leave
    /\ UNCHANGED <<table, stop_requested, queue, clock, exited, others, completed,
                   wakeFailed>>

\* Variant: a late timer advances by one interval only.
AdvanceOnce ==
    /\ pc = "advance"
    /\ due' = [due EXCEPT ![cb] = AddNs(due[cb], src[cb].interval)]
    /\ pc' = "timers" /\ cb' = NoSource
    /\ UNCHANGED <<sources, active, freed, src, nextId, capacity, registered,
                   phase, cursor, now, deadline, batch, stop_requested, queue,
                   clock, exited, others, completed, wakeFailed>>

\* One round of the do-while loop that reschedules a repeating timer.
AdvanceTimer ==
    /\ pc = "advance"
    /\ due' = [due EXCEPT ![cb] = AddNs(due[cb], src[cb].interval)]
    /\ IF due'[cb] <= now
       THEN UNCHANGED <<pc, cb>>
       ELSE pc' = "timers" /\ cb' = NoSource
    /\ UNCHANGED <<sources, active, freed, src, nextId, capacity, registered,
                   phase, cursor, now, deadline, batch, stop_requested, queue,
                   clock, exited, others, completed, wakeFailed>>

\* Variant: only timers count for the timeout.
EnterWaitForTimers ==
    LET timeout_ms == x_event_loop_next_timeout_ms(
                          {due[s] : s \in ActiveOf({"timer"})}, clock)
    IN  /\ pc' = "wait" /\ cursor' = NoSource
        /\ deadline' = IF timeout_ms = NoTimeout THEN NoDeadline
                       ELSE clock + timeout_ms * NS_PER_MS
        /\ UNCHANGED <<phase, cb, now, batch>>

\* epoll_wait is entered; it returns when the earliest source is due.
EnterWait ==
    LET timeout_ms == x_event_loop_next_timeout_ms(
                          {due[s] : s \in ActiveOf(Timed)}, clock)
    IN  /\ pc' = "wait" /\ cursor' = NoSource
        /\ deadline' = IF timeout_ms = NoTimeout THEN NoDeadline
                       ELSE clock + timeout_ms * NS_PER_MS
        /\ UNCHANGED <<phase, cb, now, batch>>

\* Variant: the flag is read at the top of the loop only.
EndFirstPassUntested ==
    /\ pc = "timers" /\ phase = 1 /\ DueSources = {}
    /\ x_event_loop_compact
    /\ \/ UserSources = {} /\ Leave
       \/ UserSources # {} /\ EnterWait
    /\ UNCHANGED <<active, src, due, nextId, capacity, registered, stop_requested,
                   queue, clock, exited, others, completed, wakeFailed>>

\* The first pass of an iteration is over.
EndFirstPass ==
    /\ pc = "timers" /\ phase = 1 /\ DueSources = {}
    /\ \/ stop_requested /\ Leave /\ UNCHANGED <<sources, freed>>
       \/ /\ ~stop_requested
          /\ x_event_loop_compact
          /\ \/ UserSources = {} /\ Leave
             \/ UserSources # {} /\ EnterWait
             \/ UserSources # {} /\ Leave        \* the clock could not be read
    /\ UNCHANGED <<active, src, due, nextId, capacity, registered, stop_requested,
                   queue, clock, exited, others, completed, wakeFailed>>

\* The second pass is over; stop_requested is looked at by LoopTop.
EndSecondPass ==
    /\ pc = "timers" /\ phase = 2 /\ DueSources = {}
    /\ x_event_loop_compact
    /\ pc' = "top" /\ phase' = 1 /\ cursor' = NoSource /\ now' = 0
    /\ UNCHANGED <<active, src, due, nextId, capacity, registered, cb, deadline,
                   batch, stop_requested, queue, clock, exited, others, completed,
                   wakeFailed>>

WaitReturns(pointers) ==
    /\ pc = "wait"
    /\ pc' = "batch" /\ batch' = pointers /\ deadline' = NoDeadline /\ now' = 0
    /\ UNCHANGED <<table, phase, cursor, cb, stop_requested, queue, clock, exited,
                   others, completed, wakeFailed>>

\* epoll reports registered sockets.  Client sockets become ready at any time;
\* wake_receiver is ready while a datagram is queued, and left out only when
\* the array of events is full.
WaitReady ==
    \E pointers \in SUBSET {r[2] : r \in registered} \ {{}} :
        /\ Cardinality(pointers) <= MAX_EVENTS
        /\ WakeSource \in pointers => queue > 0
        /\ queue > 0 /\ WakeSource \notin pointers
               => Cardinality(pointers) = MAX_EVENTS
        /\ WaitReturns(pointers)

WaitWoken == queue > 0 /\ WaitReady

WaitTimesOut ==
    /\ deadline # NoDeadline /\ clock >= deadline /\ queue = 0
    /\ WaitReturns({})

\* EINTR is no error; any other failure of epoll_wait is.
WaitInterrupted == WaitReturns({})

WaitFails ==
    /\ pc = "wait"
    /\ Leave
    /\ UNCHANGED <<table, stop_requested, queue, clock, exited, others, completed,
                   wakeFailed>>

\* Variant: the active field is not looked at.
HandleEventUntested(s) ==
    /\ pc = "batch" /\ s \in batch
    /\ batch' = batch \ {s}
    /\ IF s = WakeSource
       THEN pc' = "drain" /\ UNCHANGED <<phase, cb, now, deadline>>
       ELSE Dispatch(s)
    /\ UNCHANGED <<table, cursor, stop_requested, queue, clock, exited, others,
                   completed, wakeFailed>>

\* The next reported pointer: the source behind it may have been removed by a
\* callback since it was reported.
HandleEvent(s) ==
    /\ pc = "batch" /\ s \in batch
    /\ batch' = batch \ {s}
    /\ IF s \notin active THEN UNCHANGED <<pc, phase, cb, now, deadline>>
       ELSE IF s = WakeSource
       THEN pc' = "drain" /\ UNCHANGED <<phase, cb, now, deadline>>
       ELSE Dispatch(s)
    /\ UNCHANGED <<table, cursor, stop_requested, queue, clock, exited, others,
                   completed, wakeFailed>>

EndBatch ==
    /\ pc = "batch" /\ batch = {}
    /\ pc' = "pass" /\ phase' = 2
    /\ UNCHANGED <<table, cursor, cb, now, deadline, batch, stop_requested, queue,
                   clock, exited, others, completed, wakeFailed>>

\* The callback of the internal source receives until the socket is empty.
x_event_loop_wake_callback ==
    /\ pc = "drain"
    /\ \/ /\ queue > 0 /\ queue' = queue - 1
          /\ UNCHANGED control
       \/ /\ queue = 0 /\ UNCHANGED queue
          /\ pc' = "batch" /\ UNCHANGED <<phase, cursor, cb, now, deadline, batch>>
       \/ Leave /\ UNCHANGED queue               \* receiving fails
    /\ UNCHANGED <<table, stop_requested, clock, exited, others, completed,
                   wakeFailed>>

\* Variant: sources removed since the last compact are forgotten.
DestroyActive ==
    /\ pc = "idle"
    /\ \A t \in Threads : thread[t] = "ready"
    /\ pc' = "destroyed"
    /\ freed' = freed \cup active
    /\ sources' = {} /\ active' = {} /\ registered' = {}
    /\ UNCHANGED <<src, due, nextId, capacity, phase, cursor, cb, now, deadline,
                   batch, stop_requested, queue, clock, exited, others, completed,
                   wakeFailed>>

x_event_loop_destroy ==
    /\ pc = "idle"
    /\ \A t \in Threads : thread[t] = "ready"
    /\ pc' = "destroyed"
    /\ freed' = freed \cup sources
    /\ sources' = {} /\ active' = {} /\ registered' = {}
    /\ UNCHANGED <<src, due, nextId, capacity, phase, cursor, cb, now, deadline,
                   batch, stop_requested, queue, clock, exited, others, completed,
                   wakeFailed>>

(***************************************************************************)
(* Wake, cancel and stop.                                                  *)
(***************************************************************************)
\* A datagram sent to wake_receiver is dropped when its buffer is full.
SendWake == queue' = IF queue < MaxQueue THEN queue + 1 ELSE queue

\* A callback wakes the loop or stops it.  It need not matter to a stop
\* whether the datagram can be sent: the owner is awake.
CallbackWakes ==
    /\ pc = "callback"
    /\ \/ stop_requested' = TRUE /\ (SendWake \/ UNCHANGED queue)
       \/ UNCHANGED stop_requested /\ SendWake
    /\ UNCHANGED <<table, control, clock, exited, others, completed, wakeFailed>>

x_event_loop_wake(t) ==
    /\ pc # "destroyed" /\ thread[t] = "ready" /\ calls[t] > 0
    /\ calls' = [calls EXCEPT ![t] = @ - 1]
    /\ SendWake
    /\ UNCHANGED <<table, control, stop_requested, clock, exited, thread, completed,
                   wakeFailed>>

\* x_event_loop_cancel and x_event_loop_stop set the flag first ...
x_event_loop_cancel(t) ==
    /\ pc # "destroyed" /\ thread[t] = "ready" /\ calls[t] > 0
    /\ calls' = [calls EXCEPT ![t] = @ - 1]
    /\ stop_requested' = TRUE
    /\ thread' = [thread EXCEPT ![t] = "sending"]
    /\ UNCHANGED <<table, control, queue, clock, exited, completed, wakeFailed>>

\* Variant: only the flag is set.
CancelWithoutWake(t) ==
    /\ thread[t] = "sending"
    /\ thread' = [thread EXCEPT ![t] = "ready"]
    /\ UNCHANGED <<table, control, stop_requested, queue, clock, exited, calls,
                   completed, wakeFailed>>

\* ... and then wake the loop, which may fail.
CancelSends(t) ==
    /\ thread[t] = "sending"
    /\ thread' = [thread EXCEPT ![t] = "ready"]
    /\ \/ SendWake /\ UNCHANGED wakeFailed
       \/ UNCHANGED queue /\ wakeFailed' = TRUE
    /\ UNCHANGED <<table, control, stop_requested, clock, exited, calls, completed>>

(***************************************************************************)
(* The environment.                                                        *)
(***************************************************************************)
Tick ==
    /\ clock < MaxClock
    /\ clock' = clock + 1
    /\ UNCHANGED <<table, control, stop_requested, queue, exited, others, completed,
                   wakeFailed>>

\* A child exits, early enough for the next poll to fall within MaxClock.
ChildExits(s) ==
    /\ s \in ActiveOf({"process"}) \ exited
    /\ clock + src[s].interval <= MaxClock
    /\ exited' = exited \cup {s}
    /\ UNCHANGED <<table, control, stop_requested, queue, clock, others, completed,
                   wakeFailed>>

Terminated == pc = "destroyed" /\ UNCHANGED vars

(***************************************************************************)
(* The specification.  Init is the state x_event_loop_create leaves.       *)
(***************************************************************************)
Init ==
    /\ sources = {WakeSource} /\ active = {WakeSource} /\ freed = {}
    /\ src = [[s \in Ids |-> NoFields] EXCEPT
                  ![WakeSource] = Source("socket", WakeSocket, 0)]
    /\ due = [s \in Ids |-> 0]
    /\ nextId = 2
    /\ capacity = MIN_CAPACITY
    /\ registered = {<<WakeSocket, WakeSource>>}
    /\ stop_requested = FALSE /\ queue = 0
    /\ pc = "idle" /\ phase = 1 /\ cursor = NoSource /\ cb = NoSource
    /\ now = 0 /\ deadline = NoDeadline /\ batch = {}
    /\ clock = 0 /\ exited = {}
    /\ thread = [t \in Threads |-> "ready"]
    /\ calls = [t \in Threads |-> MaxCalls]
    /\ completed = {} /\ wakeFailed = FALSE

Client ==
    \/ AddSource \/ AddSourceFails
    \/ \E s \in Ids : x_event_source_remove(s)
    \/ CallbackWakes
    \/ x_event_loop_run \/ x_event_loop_destroy \/ Terminated

\* What the owner does once it has called x_event_loop_run.  A callback
\* returns, and epoll_wait returns when it has been woken or has timed out.
Owner ==
    \/ EnterLoop \/ LoopTop \/ StartPass
    \/ \E s \in Ids : PollSource(s) \/ FireTimer(s) \/ HandleEvent(s)
    \/ CallbackReturns \/ CallbackFails \/ AdvanceTimer
    \/ EndFirstPass \/ EndSecondPass \/ EndBatch
    \/ WaitWoken \/ WaitTimesOut
    \/ x_event_loop_wake_callback

Other(t) == x_event_loop_wake(t) \/ x_event_loop_cancel(t) \/ CancelSends(t)

\* What happens to the owner, and around it, without any obligation.
Environment ==
    \/ WaitReady \/ WaitInterrupted \/ WaitFails
    \/ Tick
    \/ \E s \in Ids : ChildExits(s)

Next == Client \/ Owner \/ Environment \/ \E t \in Threads : Other(t)

Spec == Init /\ [][Next]_vars

Fairness ==
    /\ WF_vars(Owner)
    /\ WF_vars(Tick)
    /\ \A t \in Threads : WF_vars(CancelSends(t))

FairSpec == Spec /\ Fairness

(***************************************************************************)
(* Properties.                                                             *)
(***************************************************************************)
\* Every variable has the type of the field or local variable it models.
TypeOK ==
    /\ sources \subseteq Ids /\ active \subseteq Ids /\ freed \subseteq Ids
    /\ src \in [Ids -> [kind : Timed \cup {"socket", "none"},
                        sock : Sockets \cup {WakeSocket}, interval : Time]]
    /\ due \in [Ids -> Time]
    /\ nextId \in 2 .. MaxSources + 1
    /\ capacity \in Nat
    /\ registered \subseteq (Sockets \cup {WakeSocket}) \X Ids
    /\ stop_requested \in BOOLEAN /\ queue \in 0 .. MaxQueue
    /\ pc \in {"idle", "entry", "top", "pass", "timers", "callback", "advance",
               "wait", "batch", "drain", "destroyed"}
    /\ phase \in {1, 2}
    /\ cursor \in Ids \cup {NoSource}
    /\ cb \in IF pc \in {"callback", "advance"} THEN Ids ELSE {NoSource}
    /\ now \in 0 .. MaxClock /\ clock \in 0 .. MaxClock
    /\ deadline \in Nat \cup {NoDeadline}
    /\ batch \subseteq Ids /\ exited \subseteq Ids /\ completed \subseteq Ids
    /\ thread \in [Threads -> {"ready", "sending"}]
    /\ calls \in [Threads -> 0 .. MaxCalls]
    /\ wakeFailed \in BOOLEAN

\* The pointers something may still follow: the array, the reported events not
\* yet handled, the kernel's registrations and the callback that is running.
Held == sources \cup batch \cup {r[2] : r \in registered}
            \cup (IF pc \in {"callback", "advance"} THEN {cb} ELSE {})

\* No pointer that is still followed leads to freed memory, although callbacks
\* remove sources that have been reported or are being traversed: remove only
\* clears the active field, and compact runs where no pointer is held.
NoUseAfterFree == Held \subseteq (1 .. nextId - 1) \ freed

\* Each allocated source is in the array or freed, and never both: nothing
\* leaks, not even on the paths that leave the loop without compact, and
\* nothing is freed twice.
FreedExactlyOnce ==
    /\ sources \cup freed = 1 .. nextId - 1
    /\ sources \cap freed = {}

\* Appending to the array never writes past its capacity, whatever the
\* sequence of additions, removals and compactions.
FitsCapacity == Cardinality(sources) <= capacity

\* The kernel watches exactly the active socket sources, each with a pointer
\* to itself, and no socket for two of them.
RegistrationsMatch ==
    /\ registered = {<<src[s].sock, s>> : s \in ActiveOf({"socket"})}
    /\ \A r, q \in registered : r[1] = q[1] => r = q

\* When the loop goes to sleep, no active source was due at the time of the
\* pass before: sources added by callbacks were visited, polled sources moved
\* on, and repeating timers caught up.
PassLeavesNothingDue ==
    pc = "wait" => \A s \in ActiveOf(Timed) : due[s] > now

\* The kernel wait ends with the earliest due time: it is not given up before
\* (the loop would spin), unless the timeout was cut to INT_MAX, and less than
\* a millisecond later.
WaitEndsWithNextDue ==
    pc = "wait" =>
        /\ (deadline = NoDeadline) = (ActiveOf(Timed) = {})
        /\ \A s \in ActiveOf(Timed) :
               \/ deadline <= clock
               \/ deadline < due[s] + NS_PER_MS
        /\ \/ ActiveOf(Timed) = {}
           \/ \E s \in ActiveOf(Timed) : due[s] <= deadline
           \/ deadline >= now + INT_MAX * NS_PER_MS

\* No lost wakeup: the loop never sleeps on a request to stop.  If the request
\* came after the flag was read, the datagram is queued or about to be sent.
StopNeverSleeps ==
    pc = "wait" /\ stop_requested =>
        \/ queue > 0
        \/ \E t \in Threads : thread[t] = "sending"
        \/ wakeFailed

\* A one-shot timer whose callback returned 0, and a process source whose exit
\* was reported, is never active again and never reported again.
CompletesOnce ==
    completed \cap (active \cup (IF pc = "callback" THEN {cb} ELSE {})) = {}

\* No callback starts for a source that has been removed, even if the source
\* was reported or due before another callback removed it.
RemovedNeverDispatched ==
    [][pc' = "callback" /\ pc # "callback" => cb' \in active]_vars

\* A request to stop that reaches the loop ends the run, without any other
\* event: cancel sets the flag before it sends, so the woken loop sees it.
StopEndsRun ==
    (Running /\ pc # "entry" /\ stop_requested) ~> (~Running \/ wakeFailed)

\* A source that is due is polled or dispatched, unless it is removed or the
\* run ends: no source starves the others.
DueSourceServed ==
    \A s \in Ids :
        (Running /\ s \in ActiveOf(Timed) /\ due[s] <= clock)
            ~> (~Running \/ s \notin active \/ due[s] > clock
                \/ (pc = "callback" /\ cb = s))

\* "Process sources poll x_process_poll on the requested interval and dispatch
\* X_EVENT_PROCESS once the child exits" (docs/EVENTS.md).
ChildExitReported ==
    \A s \in Ids :
        (Running /\ s \in exited \cap active)
            ~> (~Running \/ s \notin active \/ (pc = "callback" /\ cb = s))

\* "x_event_loop_cancel requests the loop to stop and wakes it if it is
\* blocked" (docs/EVENTS.md): a cancel during a call of x_event_loop_run whose
\* datagram is sent makes that call return.
CancelStopsLoop ==
    \A t \in Threads :
        (Running /\ thread[t] = "sending") ~> (~Running \/ wakeFailed)

\* "Repeating timers advance from their previous due time" (docs/EVENTS.md):
\* a step that reschedules one moves its due time forward.
RepeatingTimersAdvance ==
    [][pc = "advance" /\ due' # due => due'[cb] > due[cb]]_vars

==============================================================================
