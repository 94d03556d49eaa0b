------------------------------- MODULE Clients -------------------------------
(***************************************************************************)
(* What surrounds the C interface: the C++ objects of                      *)
(* src/include/xlib/xlib.hpp that own its handles (Wrappers), the hooks    *)
(* and their guards (Hooks), callbacks under the three backends of the     *)
(* event loop (EventBackend), and a program with two threads and sockets   *)
(* (TcpCheck).  They share no state; a behaviour is one of the four.       *)
(***************************************************************************)
EXTENDS Naturals, FiniteSets

CONSTANTS
    Objects,                        \* Wrappers
    Kinds, Emitters, MaxInstalls,   \* Hooks
    Fds, MaxSources,                \* EventBackend
    Size                            \* TcpCheck

ASSUME ClientsAssumption ==
    /\ IsFiniteSet(Objects) /\ Objects # {}
    /\ Kinds \subseteq {"log", "diag", "trace"} /\ MaxInstalls \in Nat
    /\ MaxSources \in Nat /\ Size \in Nat \ {0}

VARIABLES
    part,   \* which of the four
    build, class, obj, handles, call, lost, twice, orphan,
    guarded, guards, hook, user_data, target, stores, installs, emit, hook_call,
    backend, sources, kernel, at, events, ready, i, known, last, mixed,
    main, server, owner, signalled, state, outcome, objects, sockets, connection, bytes,
    received, result

object_vars == <<build, class, obj, handles, call, lost, twice, orphan>>
hook_vars == <<guarded, guards, hook, user_data, target, stores, installs, emit, hook_call>>
backend_vars == <<backend, sources, kernel, at, events, ready, i, known, last, mixed>>
check_vars == <<main, server, owner, signalled, state, outcome, objects, sockets, connection,
                bytes, received, result>>
vars == <<part, object_vars, hook_vars, backend_vars, check_vars>>

W == INSTANCE Wrappers
H == INSTANCE Hooks WITH call <- hook_call
B == INSTANCE EventBackend
T == INSTANCE TcpCheck

Init ==
    /\ part \in {"objects", "hooks", "events", "threads"}
    /\ W!Init /\ (part # "objects" => build = "linux" /\ class = "file")
    /\ H!Init /\ (part # "hooks" => ~guarded)
    /\ B!Init /\ (part # "events" => backend = "epoll")
    /\ T!Init

InThreads(step) ==
    /\ part = "threads" /\ step
    /\ UNCHANGED <<part, object_vars, hook_vars, backend_vars>>

Next ==
    \/ part = "objects" /\ W!Next /\ UNCHANGED <<part, hook_vars, backend_vars, check_vars>>
    \/ part = "hooks" /\ H!Next /\ UNCHANGED <<part, object_vars, backend_vars, check_vars>>
    \/ part = "events" /\ B!Next /\ UNCHANGED <<part, object_vars, hook_vars, check_vars>>
    \/ InThreads(T!Next)

\* Both threads of the program are scheduled, a signalled thread wakes up, and a
\* mutex unlocked again and again is not denied to the server for ever.
FairSpec ==
    /\ Init /\ [][Next]_vars
    /\ WF_vars(InThreads(T!MainThread)) /\ WF_vars(InThreads(T!ServerThread))
    /\ SF_vars(InThreads(T!PublishLocks))

(***************************************************************************)
(* Properties.                                                             *)
(***************************************************************************)
\* No error path of a constructor and no destructor leaves anything behind,
\* except the constructor of directory_iterator; nothing is released twice, after
\* any sequence of moves; and an x_thread_t is freed while its thread runs only if
\* a join has failed.
ReleasedOnce == W!NothingLost /\ W!ReleasedOnce /\ W!ThreadsJoined

\* On a POSIX system no descriptor that a constructor has returned is inherited
\* by the child processes of x_process_start.
Sealed == W!Sealed

\* An emission calls a hook, and gives it data, that were installed when it began
\* or since, and never calls NULL.
CallsCurrent == H!CallsCurrent

\* No guard that is gone has its hook installed.
GuardsRemoveTheirHooks == H!GuardsRemoveTheirHooks

\* No pointer the kernel keeps or reports is of a freed event source, except for
\* descriptors whose filters kqueue has mixed up.
PointersLive == B!PointersLive

\* A backend calls active sources only, and only with events they asked for, with
\* the same exception.
DispatchedAsAsked == B!DispatchedAsAsked

\* The server thread never uses the state of run_tcp_check when that is gone, and
\* run_tcp_check succeeds only after a whole round trip.
TcpCheckSound == T!StateOutlivesServer /\ T!SuccessIsEcho

\* run_tcp_check returns, whatever fails.
RunEnds == part = "threads" => T!RunEnds

==============================================================================
