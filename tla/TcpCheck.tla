------------------------------ MODULE TcpCheck -------------------------------
(***************************************************************************)
(* run_tcp_check of src/examples/network_example.c: a program above        *)
(* src/src/x_thread.c and src/src/x_network.c.  The main thread starts a   *)
(* server thread, waits under a mutex and a condition until it listens,    *)
(* connects, sends a message and receives the answer.  Any call may fail,  *)
(* and a send or a receive may move fewer bytes than asked for.            *)
(*                                                                         *)
(* The struct server_state the threads share is a local variable of        *)
(* run_tcp_check.  TCP and the pthread calls are external.                 *)
(***************************************************************************)
EXTENDS Naturals

CONSTANTS Size      \* bytes of "ping" and of "pong"

VARIABLES
    main, server,   \* where the threads are
    owner,          \* owner of state.mutex
    signalled,      \* the main thread, waiting for state.condition, is signalled
    state,          \* the other fields of struct server_state
    outcome,        \* what the server is about to publish, then its return value
    objects,        \* what run_tcp_check has created and not destroyed
    sockets,        \* the x_socket_t that are open
    connection,     \* of the client: "none", "pending" or "accepted"
    bytes,          \* on their way to each thread
    received,       \* history: bytes the main thread has received
    result          \* what run_tcp_check returns

thread_vars == <<owner, signalled, state, objects>>
network_vars == <<sockets, connection, bytes, received>>
vars == <<main, server, thread_vars, network_vars, outcome, result>>

None == "none"

Main(from, to) == main = from /\ main' = to
Server(from, to) == server = from /\ server' = to

(***************************************************************************)
(* Threads, mutexes and conditions.                                        *)
(***************************************************************************)
x_mutex_lock(t) == owner = None /\ owner' = t
x_mutex_unlock(t) == owner = t /\ owner' = None

\* pthread_cond_signal wakes a thread that waits, if there is one.
x_condition_signal == signalled' = (main = "wait")

(***************************************************************************)
(* Sockets.                                                                *)
(***************************************************************************)
\* At most as many bytes as asked for, and one at least.
x_socket_send(to, k) ==
    k \in 1 .. Size /\ bytes' = [bytes EXCEPT ![to] = @ + k]

x_socket_receive(at, k) ==
    k \in 1 .. bytes[at] /\ bytes' = [bytes EXCEPT ![at] = @ - k]

\* The main thread will get nothing more: the other end is closed, before it was
\* accepted or after.
ServerGone ==
    IF connection = "accepted" THEN "accepted" \notin sockets ELSE "server" \notin sockets

(***************************************************************************)
(* tcp_server_thread.                                                      *)
(***************************************************************************)
ServerSocket ==
    /\ \/ /\ Server("socket", "listen") /\ sockets' = sockets \cup {"server"}
          /\ UNCHANGED outcome
       \/ Server("socket", "publish") /\ outcome' = 1 /\ UNCHANGED sockets
    /\ UNCHANGED <<main, thread_vars, connection, bytes, received, result>>

\* Resolving, x_socket_bind, x_socket_listen and finding out the port.
ServerListens ==
    /\ Server("listen", "publish")
    /\ \/ outcome' = 0 /\ UNCHANGED sockets
       \/ outcome' = 1 /\ sockets' = sockets \ {"server"}
    /\ UNCHANGED <<main, thread_vars, connection, bytes, received, result>>

PublishLocks ==
    /\ Server("publish", "store") /\ x_mutex_lock("server")
    /\ UNCHANGED <<main, signalled, state, objects, network_vars, outcome, result>>

\* Variant: the main thread is not signalled.
PublishSilently ==
    /\ Server("store", "unlock")
    /\ state' = [ready |-> TRUE, result |-> outcome]
    /\ UNCHANGED <<main, owner, signalled, objects, network_vars, outcome, result>>

publish_server_state ==
    /\ Server("store", "unlock")
    /\ state' = [ready |-> TRUE, result |-> outcome] /\ x_condition_signal
    /\ UNCHANGED <<main, owner, objects, network_vars, outcome, result>>

PublishUnlocks ==
    /\ Server("unlock", IF outcome = 0 THEN "accept" ELSE "exited")
    /\ x_mutex_unlock("server")
    /\ UNCHANGED <<main, signalled, state, objects, network_vars, outcome, result>>

\* Every return of the server closes what it has open.
ServerReturns(value) ==
    /\ server' = "exited" /\ outcome' = value
    /\ sockets' = sockets \ {"server", "accepted"}

x_socket_accept ==
    /\ Server("accept", "receive") /\ connection = "pending"
    /\ connection' = "accepted" /\ sockets' = sockets \cup {"accepted"}
    /\ UNCHANGED <<main, thread_vars, bytes, received, outcome, result>>

\* The message comes in one piece, or the check fails.
ServerReceives ==
    /\ server = "receive"
    /\ \/ x_socket_receive("server", Size) /\ server' = "send" /\ UNCHANGED <<outcome, sockets>>
       \/ (\E k \in 1 .. Size - 1 : x_socket_receive("server", k)) /\ ServerReturns(1)
       \/ bytes.server = 0 /\ "client" \notin sockets /\ ServerReturns(1) /\ UNCHANGED bytes
    /\ UNCHANGED <<main, thread_vars, connection, received, result>>

ServerSends ==
    /\ server = "send"
    /\ \E k \in 1 .. Size : x_socket_send("main", k) /\ ServerReturns(IF k = Size THEN 0 ELSE 1)
    /\ UNCHANGED <<main, thread_vars, connection, received, result>>

\* x_socket_accept, x_socket_receive or x_socket_send returns an error.
ServerFails ==
    /\ server \in {"accept", "receive", "send"} /\ ServerReturns(1)
    /\ UNCHANGED <<main, thread_vars, connection, bytes, received, result>>

(***************************************************************************)
(* run_tcp_check.                                                          *)
(***************************************************************************)
Return(value) == main' = "returned" /\ result' = value

\* A mutex, a condition or a thread that cannot be created takes the others along.
MainCreates ==
    /\ main = "create"
    /\ \/ /\ main' = "lock" /\ server' = "socket" /\ UNCHANGED result
          /\ objects' = {"mutex", "condition", "thread"}
       \/ Return(1) /\ UNCHANGED <<server, objects>>
    /\ UNCHANGED <<owner, signalled, state, network_vars, outcome>>

MainLocks ==
    /\ Main("lock", "test") /\ x_mutex_lock("main")
    /\ UNCHANGED <<server, signalled, state, objects, network_vars, outcome, result>>

\* The test of the loop; x_condition_wait unlocks the mutex as it begins to wait.
x_condition_wait ==
    /\ Main("test", IF state.ready THEN "check" ELSE "wait")
    /\ x_mutex_unlock("main") /\ signalled' = FALSE
    /\ UNCHANGED <<server, state, objects, network_vars, outcome, result>>

\* Variant: the loop is an if.
WakesForGood(reason) ==
    /\ reason /\ Main("wait", "check") /\ owner = None
    /\ UNCHANGED <<server, thread_vars, network_vars, outcome, result>>

\* The mutex is locked again before x_condition_wait returns.
Wakes(reason) ==
    /\ reason /\ Main("wait", "lock")
    /\ UNCHANGED <<server, thread_vars, network_vars, outcome, result>>

\* A server that cannot listen is joined.
MainChecks ==
    /\ main = "check"
    /\ \/ state.result = 0 /\ main' = "socket" /\ UNCHANGED <<objects, result>>
       \/ state.result # 0 /\ server = "exited" /\ Return(1) /\ objects' = {}
    /\ UNCHANGED <<server, owner, signalled, state, network_vars, outcome>>

\* From here on an error returns at once: the thread is not joined, and nothing
\* destroyed but the client socket.
MainFails == Return(1) /\ sockets' = sockets \ {"client"}

MainSocket ==
    /\ main = "socket"
    /\ \/ main' = "connect" /\ sockets' = sockets \cup {"client"} /\ UNCHANGED result
       \/ MainFails
    /\ UNCHANGED <<server, thread_vars, connection, bytes, received, outcome>>

\* The options, resolving and x_socket_connect.
MainConnects ==
    /\ main = "connect"
    /\ \/ "server" \in sockets /\ main' = "send" /\ connection' = "pending"
          /\ UNCHANGED <<sockets, result>>
       \/ MainFails /\ UNCHANGED connection
    /\ UNCHANGED <<server, thread_vars, bytes, received, outcome>>

MainSends ==
    /\ main = "send"
    /\ \/ x_socket_send("server", Size) /\ main' = "receive" /\ UNCHANGED <<sockets, result>>
       \/ (\E k \in 1 .. Size - 1 : x_socket_send("server", k)) /\ MainFails
       \/ MainFails /\ UNCHANGED bytes
    /\ UNCHANGED <<server, thread_vars, connection, received, outcome>>

\* Variant: the number of bytes is not looked at.
MainReceivesSome ==
    /\ main = "receive"
    /\ \/ /\ \E k \in 1 .. Size : x_socket_receive("main", k) /\ received' = k
          /\ main' = "join" /\ sockets' = sockets \ {"client"} /\ UNCHANGED result
       \/ ServerGone /\ MainFails /\ UNCHANGED <<bytes, received>>
    /\ UNCHANGED <<server, thread_vars, connection, outcome>>

\* Blocks until there is an answer or the other end is closed.  The client socket
\* is closed in every case.
MainReceives ==
    /\ main = "receive"
    /\ \/ /\ x_socket_receive("main", Size) /\ received' = Size
          /\ main' = "join" /\ sockets' = sockets \ {"client"} /\ UNCHANGED result
       \/ (\E k \in 1 .. Size - 1 : x_socket_receive("main", k) /\ received' = k) /\ MainFails
       \/ ServerGone /\ MainFails /\ UNCHANGED <<bytes, received>>
    /\ UNCHANGED <<server, thread_vars, connection, outcome>>

MainReceiveFails ==
    /\ main = "receive" /\ MainFails
    /\ UNCHANGED <<server, thread_vars, connection, bytes, received, outcome>>

MainJoins ==
    /\ main = "join" /\ server = "exited"
    /\ Return(IF outcome = 0 THEN 0 ELSE 1)
    /\ objects' = IF outcome = 0 THEN {} ELSE objects \ {"thread"}
    /\ UNCHANGED <<server, owner, signalled, state, network_vars, outcome>>

Init ==
    /\ main = "create" /\ server = "none"
    /\ owner = None /\ signalled = FALSE /\ state = [ready |-> FALSE, result |-> 0]
    /\ outcome = 0 /\ objects = {} /\ sockets = {} /\ connection = "none"
    /\ bytes = [main |-> 0, server |-> 0] /\ received = 0 /\ result = 1

MainThread ==
    \/ MainCreates \/ MainLocks \/ x_condition_wait \/ Wakes(signalled) \/ MainChecks
    \/ MainSocket \/ MainConnects \/ MainSends \/ MainReceives \/ MainJoins

ServerThread ==
    \/ ServerSocket \/ ServerListens \/ PublishLocks \/ publish_server_state
    \/ PublishUnlocks \/ x_socket_accept \/ ServerReceives \/ ServerSends

\* Besides the two threads: a blocked call that fails, a wake-up without a signal,
\* and the end.
Next ==
    \/ MainThread \/ ServerThread
    \/ ServerFails \/ MainReceiveFails \/ Wakes(TRUE)
    \/ main = "returned" /\ UNCHANGED vars

(***************************************************************************)
(* Properties.                                                             *)
(***************************************************************************)
\* The server never uses the shared state, a local variable of run_tcp_check, nor
\* its mutex and condition, after run_tcp_check has returned or destroyed them,
\* although most errors return without joining the thread.
StateOutlivesServer ==
    server \in {"socket", "listen", "publish", "store", "unlock"} =>
        main # "returned" /\ {"mutex", "condition"} \subseteq objects

\* The check succeeds only if the whole answer has come back and the server has
\* succeeded too; then nothing is left open or undestroyed.
SuccessIsEcho ==
    main = "returned" /\ result = 0 =>
        /\ received = Size /\ server = "exited" /\ outcome = 0
        /\ objects = {} /\ sockets = {}

\* run_tcp_check returns, whatever call fails in either thread.
RunEnds == <>(main = "returned")

==============================================================================
