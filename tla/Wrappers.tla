------------------------------ MODULE Wrappers -------------------------------
(***************************************************************************)
(* The handles of the C interface and the C++ objects of                   *)
(* src/include/xlib/xlib.hpp that own them.  Every constructor runs step   *)
(* by step as in Constructors, and any step with an error path may take    *)
(* it.  A few objects of one class are constructed, moved, reopened,       *)
(* closed and destroyed in every order; an object throws when the          *)
(* constructor it calls fails.  Kinds without a C++ class are held by a    *)
(* plain C variable.                                                       *)
(***************************************************************************)
EXTENDS Constructors, FiniteSets

CONSTANTS Objects   \* C++ objects, or C variables

VARIABLES
    build,      \* the build of the library
    class,      \* the class of the objects
    obj,        \* whether each object is constructed, the handle it holds, joined_
    handles,    \* what each handle has acquired and not released
    call,       \* the constructor that runs
    lost,       \* history: what was acquired and can no longer be released
    twice,      \* history: what was released a second time
    orphan      \* history: a thread outlived its x_thread_t although no join failed

vars == <<build, class, obj, handles, call, lost, twice, orphan>>

nullptr == 0
Handles == 1 .. Cardinality(Objects)

NoObject == [made |-> FALSE, handle |-> nullptr, joined |-> FALSE]
NoHandle == [held |-> {}, exposed |-> {}, joined |-> FALSE]
NoCall == [object |-> nullptr, program |-> <<>>, held |-> {}, freed |-> {}, exposed |-> {}]

(***************************************************************************)
(* The classes: the constructors an object may call, whether it may be     *)
(* empty, may move, may be opened again, and whether it has a close.       *)
(***************************************************************************)
Pinned(create, destroys) ==
    [create |-> create, destroys |-> destroys,
     empty |-> FALSE, moves |-> FALSE, reopens |-> FALSE, closes |-> FALSE]
Movable(create, destroys) ==
    [Pinned(create, destroys) EXCEPT !.empty = TRUE, !.moves = TRUE]
Reopening(create, destroys) ==
    [Movable(create, destroys) EXCEPT !.reopens = TRUE, !.closes = TRUE]

\* The function object is owned by the constructor until the thread exists.
thread(b) == Movable({<<Step({"function"}, {})>> \o Calling(x_thread_create, {"function"})},
                     x_thread_destroy(b, FALSE))
mutex(b) == Pinned({x_mutex_create_with_type(b, FALSE)}, x_mutex_destroy(b, FALSE))
recursive_mutex(b) == Pinned({x_mutex_create_with_type(b, TRUE)}, x_mutex_destroy(b, TRUE))
condition(b) == Pinned({x_condition_create(b)}, x_condition_destroy(b))
semaphore(b) == Pinned({x_semaphore_create(b)}, x_semaphore_destroy(b))
file(b) == Reopening({x_file_open(b)}, x_file_close(b))
dynamic_library(b) == Reopening({x_dynamic_library_open(b)}, x_dynamic_library_close)
mapped_file(b) ==
    Reopening({x_mapped_file_create(b), x_mapped_file_open(b)}, x_mapped_file_destroy)
process(b) == Reopening({x_process_start(b, o) : o \in Options}, x_process_destroy(b))
event_loop(b) == Pinned({x_event_loop_create(b)}, x_event_loop_destroy)

\* tcp, udp, tcp6 and udp6, and accept.
socket(b) ==
    [Movable({x_socket_create(b, "created", "fd"), x_socket_accept(b)},
             x_socket_close("created", "fd")) EXCEPT !.closes = TRUE]

\* The constructor opens the directory and advances to the first entry; when
\* advance throws, the destructor of the object does not run.
directory_iterator(b) == Movable({x_directory_open(b) \o <<Test({})>>}, x_directory_close)

\* Without a C++ class.
BoundSocket(b) == Pinned({x_socket_udp_bound(b)}, x_socket_close("created", "fd"))
TlsKey(b) == Pinned({x_tls_key_create}, x_tls_key_destroy)
TlsContext(b) == Pinned({x_tls_context_create}, x_tls_context_destroy)
Functions(b) ==
    Pinned({x_file_remove(b), x_directory_create(b), x_directory_remove(b),
            x_environment_get(b), x_environment_set(b), x_environment_unset(b)}, {})
VirtualMemory(b) == Pinned({x_virtual_memory_alloc}, x_virtual_memory_free)

Class(c, b) ==
    [thread |-> thread(b), mutex |-> mutex(b), recursive_mutex |-> recursive_mutex(b),
     condition |-> condition(b), semaphore |-> semaphore(b), file |-> file(b),
     dynamic_library |-> dynamic_library(b), mapped_file |-> mapped_file(b),
     process |-> process(b), event_loop |-> event_loop(b), socket |-> socket(b),
     directory_iterator |-> directory_iterator(b), bound_socket |-> BoundSocket(b),
     tls_key |-> TlsKey(b), tls_context |-> TlsContext(b), functions |-> Functions(b),
     virtual_memory |-> VirtualMemory(b)][c]

Classes == {"thread", "mutex", "recursive_mutex", "condition", "semaphore", "file",
            "dynamic_library", "mapped_file", "process", "event_loop", "socket",
            "directory_iterator", "bound_socket", "tls_key", "tls_context",
            "functions", "virtual_memory"}

Own == Class(class, build)

(***************************************************************************)
(* A constructor of the C interface, one step at a time.                   *)
(***************************************************************************)
Begin(o) ==
    \E program \in Own.create : call' = [NoCall EXCEPT !.object = o, !.program = program]

Running == call.program # <<>>

\* The handle an object gets from a constructor that has succeeded.  An
\* iterator over a directory without entries closes it again; a function that
\* keeps nothing makes no handle.
Finish(held, exposed) ==
    LET o == call.object
    IN  \/ \E h \in Handles :
             /\ handles[h] = NoHandle /\ held # {}
             /\ \A i \in 1 .. h - 1 : handles[i] # NoHandle
             /\ handles' = [handles EXCEPT ![h] = [held |-> held, exposed |-> exposed,
                                                  joined |-> FALSE]]
             /\ obj' = [obj EXCEPT ![o] = [made |-> TRUE, handle |-> h, joined |-> FALSE]]
             /\ UNCHANGED lost
        \/ /\ class = "directory_iterator"
           /\ obj' = [obj EXCEPT ![o] = [NoObject EXCEPT !.made = TRUE]]
           /\ lost' = lost \cup (held \ Own.destroys)
           /\ UNCHANGED handles
        \/ held = {} /\ UNCHANGED <<obj, handles, lost>>

Succeed ==
    LET s == Head(call.program)
        held == (call.held \cup s.gets) \ s.drops
        exposed == ((call.exposed \cup s.exposes) \ s.seals) \ s.drops
    IN  /\ Running
        /\ twice' = twice \cup (s.drops \cap call.freed)
        /\ IF Tail(call.program) = <<>> THEN call' = NoCall /\ Finish(held, exposed)
           ELSE /\ call' = [call EXCEPT !.program = Tail(@), !.held = held,
                                        !.exposed = exposed, !.freed = (@ \ s.gets) \cup s.drops]
                /\ UNCHANGED <<obj, handles, lost>>
        /\ UNCHANGED <<build, class, orphan>>

\* The error path.  The C++ object throws: the constructor leaves no object
\* behind, a method that opens leaves an empty one.
Fail ==
    LET s == Head(call.program)
    IN  /\ Running /\ s.fails
        /\ call' = NoCall
        /\ lost' = lost \cup (call.held \ s.undo)
        /\ twice' = twice \cup (s.undo \cap call.freed)
        /\ UNCHANGED <<build, class, obj, handles, orphan>>

(***************************************************************************)
(* The end of a handle.                                                    *)
(***************************************************************************)
\* x_thread_join: pthread_join releases the thread, Windows keeps its handle.
x_thread_join(h) ==
    [h EXCEPT !.joined = TRUE,
              !.held = IF build = "windows" THEN @ ELSE @ \ {"thread"}]

Runs(h) == "function" \in h.held

\* thread::reset joins first, if the thread was not joined, and ignores an error.
MustJoin(o) == class = "thread" /\ ~obj[o].joined

\* close, destroy and reset of the classes, and the destructors that call them:
\* the handle of o, if it has one, is released.  "failed" is a join that fails.
Release(o, failed) ==
    LET h == handles[obj[o].handle]
        ended == IF MustJoin(o) /\ ~failed THEN x_thread_join(h) ELSE h
        releases == IF class = "thread" THEN x_thread_destroy(build, ended.joined)
                    ELSE Own.destroys
    IN  IF obj[o].handle = nullptr THEN ~failed /\ UNCHANGED <<handles, lost, twice, orphan>>
        ELSE /\ failed => MustJoin(o)
             /\ MustJoin(o) /\ ~failed => ~Runs(h)
             /\ handles' = [handles EXCEPT ![obj[o].handle] = NoHandle]
             /\ lost' = lost \cup (ended.held \ (releases \cup {"function"}))
             /\ twice' = IF h = NoHandle THEN twice \cup releases ELSE twice
             /\ orphan' = (orphan \/ (Runs(h) /\ ~failed))

(***************************************************************************)
(* The operations of an object.                                            *)
(***************************************************************************)
Default(o) ==
    /\ ~Running /\ ~obj[o].made /\ Own.empty
    /\ obj' = [obj EXCEPT ![o] = [NoObject EXCEPT !.made = TRUE]]
    /\ UNCHANGED <<build, class, handles, call, lost, twice, orphan>>

Construct(o) ==
    /\ ~Running /\ ~obj[o].made /\ Begin(o)
    /\ UNCHANGED <<build, class, obj, handles, lost, twice, orphan>>

\* open, create and start of an object that exists: what it holds goes first.
Reopen(o) ==
    /\ ~Running /\ obj[o].made /\ Own.reopens
    /\ Release(o, FALSE) /\ obj' = [obj EXCEPT ![o].handle = nullptr]
    /\ Begin(o)
    /\ UNCHANGED <<build, class>>

Close(o) ==
    /\ ~Running /\ obj[o].made /\ Own.closes
    /\ Release(o, FALSE) /\ obj' = [obj EXCEPT ![o].handle = nullptr]
    /\ UNCHANGED <<build, class, call>>

Destruct(o) ==
    /\ ~Running /\ obj[o].made
    /\ \E failed \in BOOLEAN : Release(o, failed)
    /\ obj' = [obj EXCEPT ![o] = NoObject]
    /\ UNCHANGED <<build, class, call>>

\* Variant: the source keeps its pointer.
MovedKeeping(o, from) ==
    [obj EXCEPT ![o] = obj[from], ![from].joined = (class = "thread")]

\* Variant: the target takes over that the source has nothing left to join.
MovedAsJoined(o, from) ==
    [obj EXCEPT ![o] = [obj[from] EXCEPT !.joined = (class = "thread")],
                ![from].handle = nullptr, ![from].joined = (class = "thread")]

\* The target takes the pointer and joined_ of the source.
Moved(o, from) ==
    [obj EXCEPT ![o] = obj[from],
                ![from].handle = nullptr, ![from].joined = (class = "thread")]

MoveConstruct(o, from) ==
    /\ ~Running /\ ~obj[o].made /\ obj[from].made /\ Own.moves
    /\ obj' = Moved(o, from)
    /\ UNCHANGED <<build, class, handles, call, lost, twice, orphan>>

\* Assigning an object to itself does nothing.
MoveAssign(o, from) ==
    /\ ~Running /\ obj[o].made /\ obj[from].made /\ Own.moves /\ o # from
    /\ \E failed \in BOOLEAN : Release(o, failed)
    /\ obj' = Moved(o, from)
    /\ UNCHANGED <<build, class, call>>

\* thread::join; a join that fails throws and leaves joined_ alone.
join(o) ==
    LET h == obj[o].handle
    IN  /\ ~Running /\ class = "thread" /\ obj[o].made /\ h # nullptr
        /\ ~handles[h].joined /\ ~Runs(handles[h])
        /\ handles' = [handles EXCEPT ![h] = x_thread_join(@)]
        /\ obj' = [obj EXCEPT ![o].joined = TRUE]
        /\ UNCHANGED <<build, class, call, lost, twice, orphan>>

\* thread::entry runs the function and deletes it.
entry(h) ==
    /\ class = "thread" /\ Runs(handles[h])
    /\ handles' = [handles EXCEPT ![h].held = @ \ {"function"}]
    /\ UNCHANGED <<build, class, obj, call, lost, twice, orphan>>

\* directory_iterator::advance at the last entry; anywhere else, and when it
\* throws, the iterator keeps its directory.
advance(o) ==
    /\ ~Running /\ class = "directory_iterator" /\ obj[o].made /\ obj[o].handle # nullptr
    /\ Release(o, FALSE) /\ obj' = [obj EXCEPT ![o].handle = nullptr]
    /\ UNCHANGED <<build, class, call>>

Init ==
    /\ build \in Builds /\ class \in Classes
    /\ obj = [o \in Objects |-> NoObject]
    /\ handles = [h \in Handles |-> NoHandle]
    /\ call = NoCall /\ lost = {} /\ twice = {} /\ orphan = FALSE

Next ==
    \/ Succeed \/ Fail
    \/ \E o \in Objects : \/ Default(o) \/ Construct(o) \/ Reopen(o) \/ Close(o)
                          \/ Destruct(o) \/ join(o) \/ advance(o)
    \/ \E o, from \in Objects : MoveConstruct(o, from) \/ MoveAssign(o, from)
    \/ \E h \in Handles : entry(h)

Spec == Init /\ [][Next]_vars

(***************************************************************************)
(* Properties.                                                             *)
(***************************************************************************)
Owners(h) == {o \in Objects : obj[o].made /\ obj[o].handle = h}

\* No error path of a constructor and no destructor leaves anything behind,
\* whichever call failed.  The one exception is the constructor of
\* directory_iterator, whose directory stays open when advance throws.
NothingLost == class # "directory_iterator" => lost = {}

\* Every handle has exactly one object that will release it, after any sequence
\* of moves, and nothing is released twice.
ReleasedOnce ==
    /\ twice = {}
    /\ \A h \in Handles : Cardinality(Owners(h)) = IF handles[h] = NoHandle THEN 0 ELSE 1

\* On a POSIX system no descriptor of a handle that a constructor has returned
\* is inherited by the child processes of x_process_start.
Sealed == build # "windows" => \A h \in Handles : handles[h].exposed = {}

\* An x_thread_t is freed while its thread runs only if a join has failed,
\* however the thread object was moved.
ThreadsJoined == ~orphan

\* The wrappers are RAII: what an object acquires is released with it, also when
\* its constructor throws.
RaiiReleases == lost = {}

==============================================================================
