------------------------------- MODULE Pipeline -------------------------------
(***************************************************************************)
(* x_process_run_pipeline of src/src/x_process.c on a POSIX system: the    *)
(* parent makes a pipe, starts two stages with it, closes its own ends and *)
(* waits for both.  Modelled with it are the anonymous pipes and           *)
(* x_process_start, _terminate and _wait, as far as a pipeline uses them.  *)
(*                                                                         *)
(* The kernel is external: tables of descriptors copied by fork and thinned *)
(* by exec, a pipe of bounded capacity, exit statuses kept until waitpid.  *)
(* So are the programs: the first stage writes its items and ends, the     *)
(* second reads to the end of the input and ends; each may end earlier.    *)
(* Another thread of the parent may start a program of its own.            *)
(***************************************************************************)
EXTENDS Naturals

CONSTANTS
    MaxFd,      \* descriptors are 0 .. MaxFd
    StdOpen,    \* those of 0, 1, 2 that are open in the parent
    Files,      \* those of 0, 1, 2 that options redirects to a file
    Capacity,   \* items the pipe holds
    Items,      \* items the first stage writes
    OtherThread, \* another thread starts a process
    Faults      \* calls that may fail

VARIABLES
    pc,       \* where x_process_run_pipeline is
    fds,      \* table of descriptors of each process
    state,    \* the life of each child
    status,   \* how each child ended
    buffer,   \* items in the pipe
    written,  \* items the first stage has written
    r, w,     \* pipe_read->fd and pipe_write->fd
    codes,    \* first_exit and second_exit
    error     \* the local variable error is not 0

kernel == <<fds, state, status, buffer, written>>
vars == <<pc, kernel, r, w, codes, error>>

Stages == {"first", "second"}
Children == Stages \cup {"other"}
Fds == 0 .. MaxFd
Closed == [end |-> "none", cloexec |-> FALSE]
SIGPIPE == 13
SIGTERM == 15

Exited(code) == [by |-> "exit", value |-> code]
Signalled(signal) == [by |-> "signal", value |-> signal]

x_process_set_exit_status(s) == IF s.by = "exit" THEN s.value ELSE 128 + s.value

Alive(p) == p = "parent" \/ state[p] \in {"forked", "running"}

\* Some process holds this end of the pipe.
Held(end) == \E p \in Children \cup {"parent"}, f \in Fds :
                 Alive(p) /\ fds[p][f].end = end

(***************************************************************************)
(* Tables of descriptors.                                                  *)
(***************************************************************************)
Least(S) == CHOOSE f \in S : \A g \in S : f <= g
LowestFree(t) == Least({f \in Fds : t[f].end = "none"})

Dup2(t, from, to) ==
    IF from = to THEN t ELSE [t EXCEPT ![to] = [t[from] EXCEPT !.cloexec = FALSE]]

x_process_redirect_fd(t, target) ==
    LET fd == LowestFree(t)
        opened == [t EXCEPT ![fd] = [end |-> "file", cloexec |-> TRUE]]
    IN  IF target \notin Files THEN t
        ELSE [Dup2(opened, fd, target) EXCEPT ![fd] = Closed]

Exec(t) == [f \in Fds |-> IF t[f].cloexec THEN Closed ELSE t[f]]

\* What a stage's program finds: files first, then the pipe, then exec.  The
\* options of the first stage leave out stdout, those of the second stdin.
Redirected(p) ==
    LET t == fds[p] IN
    IF p = "first"
    THEN Dup2(x_process_redirect_fd(x_process_redirect_fd(t, 0), 2), w, 1)
    ELSE Dup2(x_process_redirect_fd(x_process_redirect_fd(t, 1), 2), r, 0)

(***************************************************************************)
(* The parent.                                                             *)
(***************************************************************************)
Goto(from, to) == pc = from /\ pc' = to

\* x_pipe_create: pipe takes the two lowest free descriptors ...
x_pipe_create ==
    LET free == {f \in Fds : fds["parent"][f].end = "none"}
        low == Least(free)
        next == Least(free \ {low})
    IN  /\ \/ /\ Goto("pipe", "cloexec_read")
              /\ r' = low /\ w' = next
              /\ fds' = [fds EXCEPT !["parent"] =
                             [@ EXCEPT ![low] = [end |-> "read", cloexec |-> FALSE],
                                       ![next] = [end |-> "write", cloexec |-> FALSE]]]
              /\ UNCHANGED error
           \/ /\ "pipe" \in Faults
              /\ Goto("pipe", "done")
              /\ error' = TRUE
              /\ UNCHANGED <<fds, r, w>>
        /\ UNCHANGED <<state, status, buffer, written, codes>>

\* Variant: the descriptors are left to be inherited.
LeaveInherited ==
    /\ \/ Goto("cloexec_read", "cloexec_write")
       \/ Goto("cloexec_write", "start_first")
    /\ UNCHANGED <<kernel, r, w, codes, error>>

\* ... and only then are they kept from other programs, one after the other.
SetCloexec ==
    /\ \/ /\ Goto("cloexec_read", "cloexec_write")
          /\ fds' = [fds EXCEPT !["parent"][r].cloexec = TRUE]
       \/ /\ Goto("cloexec_write", "start_first")
          /\ fds' = [fds EXCEPT !["parent"][w].cloexec = TRUE]
    /\ UNCHANGED <<state, status, buffer, written, r, w, codes, error>>

Fork(p) ==
    /\ state' = [state EXCEPT ![p] = "forked"]
    /\ fds' = [fds EXCEPT ![p] = fds["parent"]]

\* x_process_start; when the first stage cannot be started the second is not
\* tried.
x_process_start(p) ==
    /\ \/ /\ p = "first" /\ Goto("start_first", "start_second")
          /\ Fork(p) /\ UNCHANGED error
       \/ /\ p = "second" /\ Goto("start_second", "close_write")
          /\ Fork(p) /\ UNCHANGED error
       \/ /\ "start" \in Faults
          /\ \/ p = "first" /\ Goto("start_first", "close_write")
             \/ p = "second" /\ Goto("start_second", "close_write")
          /\ error' = TRUE
          /\ UNCHANGED <<fds, state>>
    /\ UNCHANGED <<status, buffer, written, r, w, codes>>

AfterClose == IF ~error THEN "wait_first"
              ELSE IF state["first"] = "none" THEN "done" ELSE "terminate"

\* Variant: the parent keeps its ends.
KeepOpen ==
    /\ \/ Goto("close_write", "close_read")
       \/ Goto("close_read", AfterClose)
    /\ UNCHANGED <<kernel, r, w, codes, error>>

x_pipe_close ==
    /\ \/ /\ Goto("close_write", "close_read")
          /\ fds' = [fds EXCEPT !["parent"][w] = Closed]
       \/ /\ Goto("close_read", AfterClose)
          /\ fds' = [fds EXCEPT !["parent"][r] = Closed]
    /\ UNCHANGED <<state, status, buffer, written, r, w, codes, error>>

End(p, s) ==
    /\ state' = [state EXCEPT ![p] = "zombie"]
    /\ status' = [status EXCEPT ![p] = s]

\* The second stage could not be started: SIGTERM, which a program may ignore.
x_process_terminate ==
    /\ Goto("terminate", "wait_terminated")
    /\ \/ Alive("first") /\ End("first", Signalled(SIGTERM))
       \/ UNCHANGED <<state, status>>
    /\ UNCHANGED <<fds, buffer, written, r, w, codes, error>>

\* waitpid returns when the child has ended, with ECHILD if its status has
\* been taken by somebody else.
Reap(p) == state[p] = "zombie" /\ state' = [state EXCEPT ![p] = "reaped"]
Taken(p) == state[p] = "taken" /\ UNCHANGED state

\* Variant: the second stage is forgotten if waiting for the first fails.
WaitStopsAtError(p) ==
    /\ \/ /\ p = "first" /\ pc = "wait_first"
          /\ \/ /\ Reap(p) /\ pc' = "wait_second"
                /\ codes' = [codes EXCEPT ![p] = x_process_set_exit_status(status[p])]
                /\ UNCHANGED error
             \/ /\ Taken(p) /\ pc' = "done"
                /\ error' = TRUE /\ UNCHANGED codes
       \/ /\ p = "second" /\ Goto("wait_second", "done")
          /\ \/ /\ Reap(p)
                /\ codes' = [codes EXCEPT ![p] = x_process_set_exit_status(status[p])]
                /\ UNCHANGED error
             \/ Taken(p) /\ error' = TRUE /\ UNCHANGED codes
       \/ /\ p = "first" /\ Goto("wait_terminated", "done")
          /\ (Reap(p) \/ Taken(p))
          /\ UNCHANGED <<codes, error>>
    /\ UNCHANGED <<fds, status, buffer, written, r, w>>

\* x_process_wait for each stage.  The second is waited for even if waiting
\* for the first has failed; after x_process_terminate the outcome is ignored.
x_process_wait(p) ==
    /\ \/ /\ \/ p = "first" /\ Goto("wait_first", "wait_second")
             \/ p = "second" /\ Goto("wait_second", "done")
          /\ \/ /\ Reap(p)
                /\ codes' = [codes EXCEPT ![p] = x_process_set_exit_status(status[p])]
                /\ UNCHANGED error
             \/ /\ Taken(p)
                /\ error' = TRUE /\ UNCHANGED codes
       \/ /\ p = "first" /\ Goto("wait_terminated", "done")
          /\ (Reap(p) \/ Taken(p))
          /\ UNCHANGED <<codes, error>>
    /\ UNCHANGED <<fds, status, buffer, written, r, w>>

\* Variant: only the last stage counts.
LastCode == codes["second"]

\* *exit_code when x_process_run_pipeline returns 0
exit_code == IF codes["second"] # 0 THEN codes["second"] ELSE codes["first"]

(***************************************************************************)
(* The children.                                                           *)
(***************************************************************************)
\* From fork to the program: redirect and exec, or _exit(127).
Setup(p) ==
    /\ state[p] = "forked"
    /\ \/ /\ state' = [state EXCEPT ![p] = "running"]
          /\ \E t \in {IF p = "other" THEN fds[p] ELSE Redirected(p)} :
                 fds' = [fds EXCEPT ![p] = Exec(t)]
          /\ UNCHANGED status
       \/ "setup" \in Faults /\ End(p, Exited(127)) /\ UNCHANGED fds
    /\ UNCHANGED <<pc, buffer, written, r, w, codes, error>>

Write ==
    /\ state["first"] = "running" /\ written < Items
    /\ IF fds["first"][1].end # "write" THEN
            End("first", Exited(1)) /\ UNCHANGED <<buffer, written>>
       ELSE IF ~Held("read") THEN
            End("first", Signalled(SIGPIPE)) /\ UNCHANGED <<buffer, written>>
       ELSE /\ buffer < Capacity
            /\ buffer' = buffer + 1 /\ written' = written + 1
            /\ UNCHANGED <<state, status>>
    /\ UNCHANGED <<pc, fds, r, w, codes, error>>

Read ==
    /\ state["second"] = "running" /\ fds["second"][0].end = "read" /\ buffer > 0
    /\ buffer' = buffer - 1
    /\ UNCHANGED <<pc, fds, state, status, written, r, w, codes, error>>

\* The programs end, with 0 or 1, when their work is done: the second stage at
\* the end of its input, which is when nobody can write to the pipe any more.
Finish(p) ==
    /\ state[p] = "running"
    /\ \/ p = "first" /\ written = Items
       \/ /\ p = "second"
          /\ fds[p][0].end = "read" => buffer = 0 /\ ~Held("write")
    /\ \E code \in {0, 1} : End(p, Exited(code))
    /\ UNCHANGED <<pc, fds, buffer, written, r, w, codes, error>>

\* A program may also end for reasons of its own.
Quit(p) ==
    /\ state[p] = "running"
    /\ \E code \in {0, 1} : End(p, Exited(code))
    /\ UNCHANGED <<pc, fds, buffer, written, r, w, codes, error>>

\* Another part of the program calls waitpid(-1), or SIGCHLD is ignored.
StatusTaken(p) ==
    /\ "waitpid" \in Faults
    /\ state[p] = "zombie"
    /\ state' = [state EXCEPT ![p] = "taken"]
    /\ UNCHANGED <<pc, fds, status, buffer, written, r, w, codes, error>>

OtherStarts ==
    /\ OtherThread
    /\ state["other"] = "none"
    /\ Fork("other")
    /\ UNCHANGED <<pc, status, buffer, written, r, w, codes, error>>

Terminated == pc = "done" /\ UNCHANGED vars

ParentFds == [f \in Fds |-> IF f \in StdOpen THEN [end |-> "std", cloexec |-> FALSE]
                            ELSE Closed]

Init ==
    /\ pc = "pipe"
    /\ fds = [p \in Children \cup {"parent"} |->
                  IF p = "parent" THEN ParentFds ELSE [f \in Fds |-> Closed]]
    /\ state = [p \in Children |-> "none"]
    /\ status = [p \in Children |-> Exited(0)]
    /\ buffer = 0 /\ written = 0
    /\ r = MaxFd /\ w = MaxFd
    /\ codes = [p \in Stages |-> 0]
    /\ error = FALSE

Parent == \/ x_pipe_create \/ SetCloexec \/ x_pipe_close \/ x_process_terminate
          \/ \E p \in Stages : x_process_start(p) \/ x_process_wait(p)

Child(p) == Setup(p) \/ (p = "first" /\ Write) \/ (p = "second" /\ Read) \/ Finish(p)

Next == \/ Parent
        \/ \E p \in Children : Child(p) \/ Quit(p) \/ StatusTaken(p)
        \/ OtherStarts
        \/ Terminated

Spec == Init /\ [][Next]_vars

\* The parent and the stages are scheduled.  Nothing is assumed of a program
\* that another thread has started: it may run for ever.
FairSpec == /\ Spec
            /\ WF_vars(Parent)
            /\ \A p \in Stages : WF_vars(Child(p))
            /\ WF_vars(Setup("other"))

(***************************************************************************)
(* Properties.                                                             *)
(***************************************************************************)
\* "standard input/output/error redirection to files or pipes" (docs/API.md):
\* the program of a stage finds the pipe where it belongs and nowhere else, for
\* a second descriptor would keep it from ever ending.
StagesConnected ==
    /\ state["first"] = "running" =>
           {f \in Fds : fds["first"][f].end \in {"read", "write"}} = {1}
           /\ fds["first"][1].end = "write"
    /\ state["second"] = "running" =>
           {f \in Fds : fds["second"][f].end \in {"read", "write"}} = {0}
           /\ fds["second"][0].end = "read"

\* Whatever fails, x_process_run_pipeline leaves no descriptor open, no stage
\* running, and no ended stage unreaped.
NothingLeft ==
    pc = "done" =>
        /\ fds["parent"] = ParentFds
        /\ \A p \in Stages : state[p] \in {"none", "reaped", "taken"}

\* Success is reported only if both stages have really run and succeeded: no
\* failed start, failed exec or signal hides behind an exit code of 0.
SuccessIsReal ==
    pc = "done" /\ ~error /\ exit_code = 0 =>
        \A p \in Stages : state[p] = "reaped" /\ status[p] = Exited(0)

\* The pipeline ends, however small the pipe is: the parent holds neither end
\* while it waits.  The exception is a process started by another thread before
\* the ends were marked close-on-exec, which may keep the pipe open.
PipelineReturns ==
    pc = "close_write" ~> \/ pc = "done"
                          \/ \E f \in Fds : /\ state["other"] = "running"
                                            /\ fds["other"][f].end \in {"read", "write"}

==============================================================================
