------------------------------- MODULE Process -------------------------------
(***************************************************************************)
(* The life of a child process of src/src/x_process.c.  A client starts a  *)
(* child whose standard output is a pipe, closes its own write end, reads  *)
(* until the end of the stream, and polls, waits for, terminates and       *)
(* destroys the process in any order a single thread can.  The child       *)
(* writes, ends by itself or is killed.  Once a POSIX child is reaped its  *)
(* pid belongs to nobody, or to another process.                           *)
(***************************************************************************)
EXTENDS Integers

CONSTANTS
    Codes,          \* exit codes of the child
    MaxBytes,       \* bound on what the child writes
    Capacity        \* of the pipe

VARIABLES
    build,          \* "posix" or "windows"
    client,         \* what the client does
    handle,         \* the x_process_t
    child,          \* "none", "running", "ended" or "reaped"
    status,         \* how the child ended
    pid,            \* POSIX: who has the child's pid
    writers,        \* who holds the write end of the pipe
    held,           \* bytes in the pipe
    sent,           \* history: bytes the child has written
    got,            \* history: bytes the client has read
    eof,            \* history: the client was told that the stream ended
    answers,        \* history: the exit codes the client was given
    struck          \* history: whom a signal hit, and whether the child was waited for

vars == <<build, client, handle, child, status, pid, writers, held, sent, got, eof,
          answers, struck>>

SIGTERM == 15
Exited(c) == [kind |-> "exited", value |-> c]
Killed == [kind |-> "signaled", value |-> SIGTERM]
Unknown == [kind |-> "none", value |-> 0]

NoHandle == [live |-> FALSE, waited |-> FALSE, exit_code |-> 0]

\* Variant: a signal's number is taken for an exit code.
StatusUnshifted(s) == s.value

\* x_process_set_exit_status; on Windows the exit code itself, which is 1 for a
\* terminated process.
x_process_set_exit_status(s) ==
    IF s.kind = "exited" THEN s.value
    ELSE IF s.kind = "signaled" THEN 128 + s.value ELSE -1

(***************************************************************************)
(* The client.                                                             *)
(***************************************************************************)
x_process_start ==
    /\ client = "start"
    /\ handle' = [NoHandle EXCEPT !.live = TRUE]
    /\ child' = "running" /\ pid' = "child" /\ writers' = {"client", "child"}
    /\ client' = "close"
    /\ UNCHANGED <<build, status, held, sent, got, eof, answers, struck>>

x_pipe_close ==
    /\ client = "close"
    /\ writers' = writers \ {"client"} /\ client' = "read"
    /\ UNCHANGED <<build, handle, child, status, pid, held, sent, got, eof, answers, struck>>

\* Variant: every error of the read is the end of the stream.
PipeReadHidingErrors ==
    /\ client = "read"
    /\ \/ \E n \in 1 .. held : /\ held' = held - n /\ got' = got + n
                               /\ UNCHANGED <<client, eof>>
       \/ /\ eof' = TRUE /\ client' = "idle"
          /\ UNCHANGED <<held, got>>
    /\ UNCHANGED <<build, handle, child, status, pid, writers, sent, answers, struck>>

\* Any part of what the pipe holds is read.  Zero bytes, or a broken pipe on
\* Windows, say that the stream has ended; an interrupted read is an error.
x_pipe_read ==
    /\ client = "read"
    /\ \/ \E n \in 1 .. held : /\ held' = held - n /\ got' = got + n
                               /\ UNCHANGED <<client, eof>>
       \/ /\ held = 0 /\ writers = {}
          /\ eof' = TRUE /\ client' = "idle"
          /\ UNCHANGED <<held, got>>
       \/ /\ build = "posix" /\ client' = "idle"
          /\ UNCHANGED <<held, got, eof>>
    /\ UNCHANGED <<build, handle, child, status, pid, writers, sent, answers, struck>>

\* The child is reaped; on POSIX its pid is free from then on.
Reap ==
    /\ child = "ended" /\ child' = "reaped"
    /\ pid' = IF build = "posix" THEN "nobody" ELSE pid
    /\ handle' = [handle EXCEPT !.waited = TRUE,
                                !.exit_code = x_process_set_exit_status(status)]
    /\ answers' = answers \cup {handle'.exit_code}

Recall == answers' = answers \cup {handle.exit_code} /\ UNCHANGED <<handle, child, pid>>

\* Blocks until the child has ended; waitpid is repeated after a signal.
x_process_wait ==
    /\ client = "idle" /\ handle.live
    /\ IF handle.waited THEN Recall ELSE Reap
    /\ UNCHANGED <<build, client, status, writers, held, sent, got, eof, struck>>

\* Variant: the handle does not remember that the child was reaped.
PollForgetting ==
    /\ client = "idle" /\ handle.live
    /\ \/ handle.waited /\ Recall
       \/ ~handle.waited /\ child = "running" /\ UNCHANGED <<handle, child, pid, answers>>
       \/ /\ ~handle.waited /\ child = "ended" /\ child' = "reaped"
          /\ pid' = IF build = "posix" THEN "nobody" ELSE pid
          /\ handle' = [handle EXCEPT !.exit_code = x_process_set_exit_status(status)]
          /\ answers' = answers \cup {handle'.exit_code}
    /\ UNCHANGED <<build, client, status, writers, held, sent, got, eof, struck>>

x_process_poll ==
    /\ client = "idle" /\ handle.live
    /\ \/ handle.waited /\ Recall
       \/ ~handle.waited /\ child = "running" /\ UNCHANGED <<handle, child, pid, answers>>
       \/ ~handle.waited /\ Reap
    /\ UNCHANGED <<build, client, status, writers, held, sent, got, eof, struck>>

\* The pid is used whether or not the child was waited for.  A POSIX child may
\* ignore the signal; Windows refuses to terminate a process that has ended.
x_process_terminate ==
    /\ client = "idle" /\ handle.live
    /\ LET hit == IF build = "posix" THEN pid ELSE "child"
       IN  /\ struck' = struck \cup {[whom |-> hit, waited |-> handle.waited]}
           /\ \/ /\ hit = "child" /\ child = "running"
                 /\ child' = "ended" /\ writers' = writers \ {"child"}
                 /\ status' = IF build = "posix" THEN Killed ELSE Exited(1)
              \/ /\ build = "posix" \/ child # "running"
                 /\ UNCHANGED <<child, writers, status>>
    /\ UNCHANGED <<build, client, handle, pid, held, sent, got, eof, answers>>

\* The handle goes; a POSIX child nobody waited for stays a zombie.
x_process_destroy ==
    /\ client = "idle" /\ handle.live
    /\ handle' = NoHandle /\ client' = "done"
    /\ UNCHANGED <<build, child, status, pid, writers, held, sent, got, eof, answers, struck>>

(***************************************************************************)
(* The child and the system.                                               *)
(***************************************************************************)
ChildWrites ==
    /\ child = "running" /\ "child" \in writers /\ held < Capacity /\ sent < MaxBytes
    /\ held' = held + 1 /\ sent' = sent + 1
    /\ UNCHANGED <<build, client, handle, child, status, pid, writers, got, eof, answers, struck>>

ChildEnds ==
    /\ child = "running"
    /\ child' = "ended" /\ writers' = writers \ {"child"}
    /\ \E c \in Codes : status' = Exited(c)
    /\ UNCHANGED <<build, client, handle, pid, held, sent, got, eof, answers, struck>>

PidReused ==
    /\ pid = "nobody" /\ pid' = "other"
    /\ UNCHANGED <<build, client, handle, child, status, writers, held, sent, got, eof,
                   answers, struck>>

Init ==
    /\ build \in {"posix", "windows"} /\ client = "start"
    /\ handle = NoHandle /\ child = "none" /\ status = Unknown /\ pid = "nobody"
    /\ writers = {} /\ held = 0 /\ sent = 0 /\ got = 0 /\ eof = FALSE
    /\ answers = {} /\ struck = {}

Client ==
    \/ x_process_start \/ x_pipe_close \/ x_pipe_read
    \/ x_process_wait \/ x_process_poll \/ x_process_terminate \/ x_process_destroy

Next == Client \/ ChildWrites \/ ChildEnds \/ PidReused

Spec == Init /\ [][Next]_vars

(***************************************************************************)
(* Properties.                                                             *)
(***************************************************************************)
TrueCode == IF status.kind = "signaled" THEN 128 + status.value ELSE status.value

\* However often and in whatever order the client polls and waits, and whatever
\* it terminates, it is given one exit code, that of the way the child ended.
OneTrueExitCode == answers \subseteq (IF child = "reaped" THEN {TrueCode} ELSE {})

\* The client is told that the stream has ended only after it has read every
\* byte the child wrote, and the child has ended: a child of this model keeps its
\* output open as long as it runs.
EofMeansAll == eof => got = sent /\ child # "running"

\* A signal of x_process_terminate reaches no process but the child, unless the
\* client had already been told that the child was gone.
SignalsOwnChild == \A s \in struck : s.whom # "child" => s.waited

==============================================================================
