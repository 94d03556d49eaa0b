---------------------------- MODULE EventBackend -----------------------------
(***************************************************************************)
(* The three readiness backends of src/src/x_event.c, epoll, kqueue and    *)
(* select: adding and removing a socket source, one wait and the dispatch  *)
(* of what it reports, while callbacks add and remove sources.  A          *)
(* descriptor may be closed when its sources are removed, and then be the  *)
(* number of another socket.  Timers and the wake socket are in EventLoop. *)
(***************************************************************************)
EXTENDS Naturals, FiniteSets

CONSTANTS
    Fds,            \* descriptors
    MaxSources      \* bound on the sources ever added

VARIABLES
    backend,    \* "epoll", "kqueue" or "select"
    sources,    \* loop->sources, with the sources freed since, in their order
    kernel,     \* the filters registered: descriptor, filter, pointer to a source
    at,         \* where the loop is: "rest", "dispatch" or in a "callback"
    events,     \* epoll, kqueue: the events of the wait still to be dispatched
    ready,      \* select: read_set and write_set
    i,          \* select: the next source of the second loop
    known,      \* history: the sources that were active when the wait returned
    last,       \* history: the dispatch whose callback runs, and the state of its source
    mixed       \* history: the descriptors whose filters in kqueue are no longer those
                \* of one source each

vars == <<backend, sources, kernel, at, events, ready, i, known, last, mixed>>

Filters == {"READ", "WRITE"}
NoDispatch == [id |-> 0, flags |-> {}, state |-> "none"]
Ids == DOMAIN sources
Active == {id \in Ids : sources[id].state = "active"}

MayCall == at \in {"rest", "callback"}

(***************************************************************************)
(* x_event_loop_add_socket and x_event_source_remove.                      *)
(***************************************************************************)
Registered(fd, filter) == \E r \in kernel : r.fd = fd /\ r.filter = filter

\* epoll_ctl refuses a descriptor that is registered already; EV_ADD gives its
\* filters a new udata; select keeps nothing.
x_event_backend_add_socket(fd, asked, id) ==
    LET entries == {[fd |-> fd, filter |-> f, id |-> id] : f \in asked}
    IN  \/ /\ backend = "epoll" /\ \A r \in kernel : r.fd # fd
           /\ kernel' = kernel \cup entries
        \/ /\ backend = "kqueue"
           /\ kernel' = {r \in kernel : r.fd # fd \/ r.filter \notin asked} \cup entries
        \/ backend = "select" /\ UNCHANGED kernel

AddSource(fd, asked, state) ==
    sources' = [id \in Ids \cup {Cardinality(Ids) + 1} |->
                   IF id \in Ids THEN sources[id]
                   ELSE [fd |-> fd, events |-> asked, state |-> state]]

x_event_loop_add_socket(fd, asked) ==
    /\ MayCall /\ Cardinality(Ids) < MaxSources
    /\ x_event_backend_add_socket(fd, asked, Cardinality(Ids) + 1)
    /\ AddSource(fd, asked, "active")
    /\ mixed' = IF backend = "kqueue" /\ \E f \in asked : Registered(fd, f)
                THEN mixed \cup {fd} ELSE mixed
    /\ UNCHANGED <<backend, at, events, ready, i, known, last>>

\* kevent fails at the second change: the first stays, and the source is freed.
AddFailsHalfway(fd) ==
    /\ MayCall /\ Cardinality(Ids) < MaxSources /\ backend = "kqueue"
    /\ x_event_backend_add_socket(fd, {"READ"}, Cardinality(Ids) + 1)
    /\ AddSource(fd, Filters, "freed")
    /\ mixed' = mixed \cup {fd}
    /\ UNCHANGED <<backend, at, events, ready, i, known, last>>

\* Variant: one filter of the two is deleted.
RemoveOneFilter(fd, asked) ==
    \/ backend = "epoll" /\ kernel' = {r \in kernel : r.fd # fd}
    \/ /\ backend = "kqueue"
       /\ kernel' = {r \in kernel : r.fd # fd \/ r.filter # CHOOSE f \in asked : TRUE}
    \/ backend = "select" /\ UNCHANGED kernel

\* The kernel knows descriptors only: epoll forgets whatever is registered for this
\* one.  kevent, which gets no room to report errors, stops at the first change that
\* fails: where no READ filter is registered WRITE stays.
x_event_backend_remove_socket(fd, asked) ==
    \/ backend = "epoll" /\ kernel' = {r \in kernel : r.fd # fd}
    \/ /\ backend = "kqueue"
       /\ LET deleted == IF "READ" \in asked /\ ~Registered(fd, "READ") THEN {} ELSE asked
          IN  kernel' = {r \in kernel : r.fd # fd \/ r.filter \notin deleted}
    \/ backend = "select" /\ UNCHANGED kernel

x_event_source_remove(id) ==
    /\ MayCall /\ id \in Active
    /\ sources' = [sources EXCEPT ![id].state = "removed"]
    /\ x_event_backend_remove_socket(sources[id].fd, sources[id].events)
    /\ UNCHANGED <<backend, at, events, ready, i, known, last, mixed>>

\* The client closes a socket without an active source.  External: the kernel
\* forgets its filters.
CloseSocket(fd) ==
    /\ MayCall /\ \A id \in Active : sources[id].fd # fd
    /\ kernel' = {r \in kernel : r.fd # fd}
    /\ mixed' = IF at = "rest" THEN mixed \ {fd} ELSE mixed
    /\ UNCHANGED <<backend, sources, at, events, ready, i, known, last>>

(***************************************************************************)
(* x_event_loop_wait_sockets.                                              *)
(***************************************************************************)
\* What epoll reports of a descriptor: one event with all that has happened and
\* was asked for, and a hang-up, which counts as readable, in any case.
EpollEvents(happened) ==
    {[id |-> r.id,
      flags |-> {s.filter : s \in {t \in kernel : t.fd = r.fd /\ t.filter \in happened[r.fd]}}
                \cup (IF "HUP" \in happened[r.fd] THEN {"READ"} ELSE {})] : r \in kernel}

\* kevent reports every filter by itself.
KqueueEvents(happened) ==
    {[id |-> r.id, flags |-> {r.filter}] : r \in {s \in kernel : s.filter \in happened[s.fd]}}

SelectSets(happened) ==
    UNION {{<<sources[id].fd, f>> : f \in sources[id].events \cap happened[sources[id].fd]} :
               id \in Active}

\* The call of epoll_wait, kevent or select.
x_event_loop_wait_sockets ==
    /\ at = "rest" /\ at' = "dispatch"
    /\ \E happened \in [Fds -> SUBSET (Filters \cup {"HUP"})] :
           \/ /\ backend = "epoll" /\ ready' = {}
              /\ events' = {e \in EpollEvents(happened) : e.flags # {}}
           \/ backend = "kqueue" /\ events' = KqueueEvents(happened) /\ ready' = {}
           \/ backend = "select" /\ events' = {} /\ ready' = SelectSets(happened)
    /\ i' = 1 /\ known' = Active
    /\ UNCHANGED <<backend, sources, kernel, last, mixed>>

\* What a freed source says of itself is anything.
Dispatch(id, flags) ==
    \/ /\ sources[id].state \in {"active", "freed"} /\ flags # {}
       /\ at' = "callback"
       /\ last' = [id |-> id, flags |-> flags, state |-> sources[id].state]
    \/ (sources[id].state # "active" \/ flags = {}) /\ UNCHANGED <<at, last>>

\* Variant: the pointer is followed and the callback called without a test.
DispatchUntested(e) ==
    /\ at = "dispatch" /\ e \in events /\ events' = events \ {e}
    /\ at' = "callback"
    /\ last' = [id |-> e.id, flags |-> e.flags, state |-> sources[e.id].state]
    /\ UNCHANGED <<backend, sources, kernel, ready, i, known, mixed>>

\* One round of the loop over the events of epoll or kqueue.
DispatchEvent(e) ==
    /\ at = "dispatch" /\ e \in events /\ events' = events \ {e}
    /\ Dispatch(e.id, e.flags)
    /\ UNCHANGED <<backend, sources, kernel, ready, i, known, mixed>>

\* One round of the second loop of select, over the sources as they are now, the
\* freed ones no longer among them.
DispatchSource ==
    /\ at = "dispatch" /\ backend = "select" /\ i \in Ids /\ i' = i + 1
    /\ IF sources[i].state = "freed" THEN UNCHANGED <<at, last>>
       ELSE Dispatch(i, {f \in sources[i].events : <<sources[i].fd, f>> \in ready})
    /\ UNCHANGED <<backend, sources, kernel, events, ready, known, mixed>>

\* A callback returns, and an error ends the wait and x_event_loop_run, which then
\* leaves the removed sources for a later compact.
CallbackReturns(error) ==
    /\ at = "callback"
    /\ IF error THEN at' = "rest" /\ events' = {} /\ ready' = {}
                ELSE at' = "dispatch" /\ UNCHANGED <<events, ready>>
    /\ last' = NoDispatch
    /\ UNCHANGED <<backend, sources, kernel, i, known, mixed>>

\* The wait is over; x_event_loop_compact frees the removed sources.
x_event_loop_compact ==
    /\ at = "dispatch" /\ events = {} /\ (backend = "select" => i \notin Ids)
    /\ at' = "rest" /\ ready' = {} /\ known' = {}
    /\ sources' = [id \in Ids |-> IF sources[id].state = "removed"
                                  THEN [sources[id] EXCEPT !.state = "freed"] ELSE sources[id]]
    /\ UNCHANGED <<backend, kernel, events, i, last, mixed>>

Init ==
    /\ backend \in {"epoll", "kqueue", "select"}
    /\ sources = [id \in {} |-> 0] /\ kernel = {}
    /\ at = "rest" /\ events = {} /\ ready = {} /\ i = 1
    /\ known = {} /\ last = NoDispatch /\ mixed = {}

Next ==
    \/ \E fd \in Fds : \/ \E asked \in SUBSET Filters \ {{}} : x_event_loop_add_socket(fd, asked)
                       \/ AddFailsHalfway(fd) \/ CloseSocket(fd)
    \/ \E id \in Ids : x_event_source_remove(id)
    \/ x_event_loop_wait_sockets
    \/ \E e \in events : DispatchEvent(e)
    \/ DispatchSource
    \/ \E error \in BOOLEAN : CallbackReturns(error)
    \/ x_event_loop_compact

Spec == Init /\ [][Next]_vars

(***************************************************************************)
(* Properties.                                                             *)
(***************************************************************************)
\* No pointer the kernel keeps or has just reported is of a freed source, whatever
\* callbacks add and remove and whichever descriptors are closed and used again.
\* Excepted are descriptors for which kqueue has given a filter of one source to
\* another, or failed between the two filters of an x_event_loop_add_socket, until
\* they are closed.
PointersLive ==
    \A e \in kernel \cup events :
        sources[e.id].fd \notin mixed => sources[e.id].state # "freed"

\* Every backend calls a source only if it is active, and only with events it has
\* asked for (epoll also tells a hang-up as readable).  It was there when the wait
\* returned; select, which looks at the sources anew, may call a new one in place
\* of one that was there and had asked for the same of the same descriptor.
\* Excepted are the same descriptors.
DispatchedAsAsked ==
    at = "callback" /\ sources[last.id].fd \notin mixed =>
        /\ last.state = "active"
        /\ last.flags \subseteq sources[last.id].events
               \cup (IF backend = "epoll" THEN {"READ"} ELSE {})
        /\ IF backend = "select"
           THEN \A f \in last.flags : \E id \in known :
                    sources[id].fd = sources[last.id].fd /\ f \in sources[id].events
           ELSE last.id \in known

==============================================================================
