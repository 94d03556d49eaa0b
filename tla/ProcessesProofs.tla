--------------------------- MODULE ProcessesProofs ---------------------------
(***************************************************************************)
(* Proofs about Processes, for any exit codes, any capacity of a pipe, any *)
(* amount of output, and any calls that fail.                              *)
(***************************************************************************)
EXTENDS Processes, WellFoundedInduction, TLAPS

(***************************************************************************)
(* One process and its pipe.                                               *)
(***************************************************************************)
\* A step of Processes is a step of the one process, or leaves it alone.
LEMMA ProcessSteps == [Next]_vars => [P!Next]_(P!vars)
BY Zenon DEF Next, InPipeline, Ended, vars, process_vars, P!vars

\* The handle says waited exactly when the child has been reaped through it, and
\* has the exit code of then.  The pid is the child's until it is reaped.
HandleInv ==
    /\ handle = [live |-> handle.live, waited |-> handle.waited, exit_code |-> handle.exit_code]
    /\ child = "none" <=> client = "start"
    /\ client = "start" => handle = P!NoHandle
    /\ client = "done" => handle = P!NoHandle
    /\ handle.live => (handle.waited <=> child = "reaped")
    /\ handle.live /\ child = "reaped" => handle.exit_code = P!TrueCode
    /\ child \in {"ended", "reaped"} => child_status.kind \in {"exited", "signaled"}
    /\ child \in {"running", "ended"} => pid = "child"
    /\ child \in {"none", "running", "ended", "reaped"}
    /\ P!OneTrueExitCode

\* The child writes only while it runs, and what it wrote is read or in the pipe.
StreamInv ==
    /\ held \in Nat /\ sent \in Nat /\ got \in Nat /\ sent = held + got
    /\ child = "running" => "child" \in writers
    /\ eof => held = 0 /\ child # "running" /\ client # "start"

\* Before the start there is no child, and nothing has been said of it.
LEMMA ProcessInit == P!Init => HandleInv /\ StreamInv /\ P!SignalsOwnChild
<1> SUFFICES ASSUME P!Init
             PROVE  HandleInv /\ StreamInv /\ P!SignalsOwnChild
  OBVIOUS
<1>1. HandleInv
  BY Zenon DEF P!Init, HandleInv, P!OneTrueExitCode, P!NoHandle
<1>2. StreamInv
  BY DEF P!Init, StreamInv
<1>3. P!SignalsOwnChild
  BY Zenon DEF P!Init, P!SignalsOwnChild
<1>4. QED
  BY Zenon, <1>1, <1>2, <1>3

\* The status is fetched once, by the first poll or wait after the end.
LEMMA HandleStep == HandleInv /\ [P!Next]_(P!vars) => HandleInv'
<1> SUFFICES ASSUME HandleInv, [P!Next]_(P!vars)
             PROVE  HandleInv'
  OBVIOUS
<1> USE DEF HandleInv, P!OneTrueExitCode, P!TrueCode, P!NoHandle
<1>1. CASE P!x_process_start
  BY Zenon, <1>1 DEF P!x_process_start
<1>2. CASE P!x_pipe_close \/ P!x_pipe_read \/ P!ChildWrites \/ P!PidReused
  BY ZenonT(60), <1>2 DEF P!x_pipe_close, P!x_pipe_read, P!ChildWrites, P!PidReused
<1>3. ASSUME P!Reap, handle.live, UNCHANGED <<client, child_status>>
      PROVE  HandleInv'
  <2>1. handle' = [live |-> handle.live, waited |-> TRUE,
                   exit_code |-> P!x_process_set_exit_status(child_status)]
    BY Zenon, <1>3 DEF P!Reap
  <2>2. handle'.live = handle.live /\ handle'.waited = TRUE
        /\ handle'.exit_code = P!x_process_set_exit_status(child_status)
    BY Zenon, <2>1
  <2>3. handle'.exit_code = P!TrueCode
    BY Zenon, <1>3, <2>2 DEF P!Reap, P!x_process_set_exit_status
  <2>4. answers' \subseteq {P!TrueCode'} /\ P!TrueCode' = P!TrueCode
    BY <1>3, <2>3 DEF P!Reap
  <2>5. child = "ended" /\ child' = "reaped" /\ client' = client /\ child_status' = child_status
    BY Zenon, <1>3 DEF P!Reap
  <2>6. handle'.live => (handle'.waited <=> child' = "reaped")
    BY Zenon, <2>2, <2>5
  <2>7. client # "start" /\ client # "done"
    BY SMTT(60), SMTT(90), <1>3, <2>5
  <2>8. QED
    BY Zenon, <2>1, <2>2, <2>3, <2>4, <2>5, <2>6, <2>7
<1>4. CASE P!x_process_wait \/ P!x_process_poll
  <2>1. CASE handle.waited /\ P!Recall
    BY ZenonT(60), <1>4, <2>1 DEF P!Recall, P!x_process_wait, P!x_process_poll
  <2>2. CASE UNCHANGED <<handle, child, pid, answers>>
    BY ZenonT(60), <1>4, <2>2 DEF P!x_process_wait, P!x_process_poll
  <2>3. QED
    BY Zenon, <1>3, <1>4, <2>1, <2>2 DEF P!x_process_wait, P!x_process_poll
<1>5. CASE P!x_process_terminate
  BY SMTT(60), SMTT(90), <1>5 DEF P!x_process_terminate, P!Killed, P!Exited
<1>6. CASE P!x_process_destroy
  BY ZenonT(60), <1>6 DEF P!x_process_destroy
<1>7. CASE P!ChildEnds
  BY SMTT(60), SMTT(90), <1>7 DEF P!ChildEnds, P!Exited
<1>8. CASE UNCHANGED P!vars
  BY ZenonT(60), <1>8 DEF P!vars
<1>9. QED
  BY Zenon, <1>1, <1>2, <1>3, <1>4, <1>5, <1>6, <1>7, <1>8 DEF P!Next, P!Client

\* Nothing enters the pipe once the child has ended.
LEMMA StreamStep == HandleInv /\ StreamInv /\ [P!Next]_(P!vars) => StreamInv'
<1> SUFFICES ASSUME HandleInv, StreamInv, [P!Next]_(P!vars)
             PROVE  StreamInv'
  OBVIOUS
<1> USE DEF StreamInv
<1>1. CASE P!x_process_start
  BY Zenon, <1>1 DEF P!x_process_start
<1>2. CASE P!x_pipe_close
  BY Zenon, <1>2 DEF P!x_pipe_close
<1>3. CASE P!x_pipe_read
  <2>1. ASSUME NEW n \in 1 .. held, held' = held - n, got' = got + n, UNCHANGED <<client, eof>>
        PROVE  StreamInv'
    BY <1>3, <2>1 DEF P!x_pipe_read
  <2>2. QED
    BY <1>3, <2>1 DEF P!x_pipe_read
<1>4. CASE P!x_process_wait \/ P!x_process_poll
  BY <1>4 DEF P!x_process_wait, P!x_process_poll, P!Recall, P!Reap
<1>5. CASE P!x_process_terminate
  BY Zenon, <1>5 DEF P!x_process_terminate
<1>6. CASE P!x_process_destroy \/ P!PidReused
  BY <1>6 DEF P!x_process_destroy, P!PidReused, HandleInv
<1>7. CASE P!ChildWrites
  BY SMTT(60), SMTT(90), <1>7 DEF P!ChildWrites
<1>8. CASE P!ChildEnds
  BY Zenon, <1>8 DEF P!ChildEnds
<1>9. CASE UNCHANGED P!vars
  BY Zenon, <1>9 DEF P!vars
<1>10. QED
  BY Zenon, <1>1, <1>2, <1>3, <1>4, <1>5, <1>6, <1>7, <1>8, <1>9 DEF P!Next, P!Client

\* A signal that misses the child is sent through a handle that says waited.
LEMMA SignalStep == HandleInv /\ P!SignalsOwnChild /\ [P!Next]_(P!vars) => P!SignalsOwnChild'
<1> SUFFICES ASSUME HandleInv, P!SignalsOwnChild, [P!Next]_(P!vars)
             PROVE  P!SignalsOwnChild'
  OBVIOUS
<1> USE DEF P!SignalsOwnChild
<1>1. CASE P!x_process_terminate
  <2> DEFINE hit == IF build = "posix" THEN pid ELSE "child"
  <2>1. struck' = struck \cup {[whom |-> hit, waited |-> handle.waited]}
    BY Zenon, <1>1 DEF P!x_process_terminate
  <2>2. hit # "child" => handle.waited
    BY Zenon, <1>1 DEF P!x_process_terminate, HandleInv
  <2>3. QED
    BY SMTT(60), SMTT(90), <2>1, <2>2
<1>2. CASE UNCHANGED struck
  BY Zenon, <1>2
<1>3. QED
  BY Zenon, <1>1, <1>2
       DEF P!Next, P!Client, P!vars, P!x_process_start, P!x_pipe_close, P!x_pipe_read,
     P!x_process_wait, P!x_process_poll, P!x_process_destroy, P!ChildWrites, P!ChildEnds, P!PidReused

\* In whatever order the client polls, waits and terminates, every exit code it is
\* given is the one with which the child ended.
THEOREM ExitCodeIsTrue == FairSpec => []OneTrueExitCode
<1>1. Init => HandleInv
  BY Zenon, ProcessInit DEF Init
<1>2. HandleInv /\ [Next]_vars => HandleInv'
  BY Zenon, HandleStep, ProcessSteps
<1>3. HandleInv => OneTrueExitCode
  BY Zenon DEF HandleInv, OneTrueExitCode
<1>4. QED
  BY <1>1, <1>2, <1>3, PTL DEF FairSpec

\* x_pipe_read reports the end of the stream only when all of the child's output
\* has been read and no more can come.
THEOREM NothingAfterEof == FairSpec => []EofMeansAll
<1> DEFINE Inv == HandleInv /\ StreamInv
<1>1. Init => Inv
  BY Zenon, ProcessInit DEF Init
<1>2. Inv /\ [Next]_vars => Inv'
  BY Zenon, HandleStep, StreamStep, ProcessSteps
<1>3. Inv => EofMeansAll
  BY DEF StreamInv, EofMeansAll, P!EofMeansAll
<1>4. QED
  BY <1>1, <1>2, <1>3, PTL DEF FairSpec

\* x_process_terminate reaches a process other than the child only after the client
\* has been told that the child is gone.
THEOREM SignalReachesChild == FairSpec => []SignalsOwnChild
<1> DEFINE Inv == HandleInv /\ SignalsOwnChild
<1>1. Init => Inv
  BY Zenon, ProcessInit DEF Init, SignalsOwnChild
<1>2. Inv /\ [Next]_vars => Inv'
  BY Zenon, HandleStep, SignalStep, ProcessSteps DEF SignalsOwnChild
<1>3. QED
  BY <1>1, <1>2, PTL DEF FairSpec

(***************************************************************************)
(* The pipeline.                                                           *)
(***************************************************************************)
\* A step of Processes is a step of the pipeline, or leaves it alone.
LEMMA PipelineSteps == [Next]_vars => [L!Next]_(L!vars)
BY Zenon DEF Next, InPipeline, Ended, vars, pipeline_vars, L!vars, L!kernel

WithPipe == {"cloexec_read", "cloexec_write", "start_first", "start_second", "close_write"}
BeforeStages == {"pipe", "cloexec_read", "cloexec_write", "start_first"}
Waiting == {"wait_first", "wait_second", "terminate", "wait_terminated", "done"}

\* Entries of a table of descriptors: kept by exec, or marked close-on-exec.
Kept(end) == [end |-> end, cloexec |-> FALSE]
Marked(end) == [end |-> end, cloexec |-> TRUE]
Ends == {"none", "std", "file", "read", "write"}
Entries == [end : Ends, cloexec : BOOLEAN]

\* The parent's table is what it was before the call, and the ends of the pipe it
\* has open, at descriptors that were free.
TableInv ==
    /\ DOMAIN fds = L!Children \cup {"parent"} /\ fds["parent"] \in [L!Fds -> Entries]
    /\ pc \in WithPipe \cup Waiting \cup {"pipe", "close_read"}
    /\ r \in L!Fds /\ w \in L!Fds
    /\ pc \in WithPipe \cup {"close_read"} =>
           r # w /\ L!ParentFds[r] = L!Closed /\ L!ParentFds[w] = L!Closed
    /\ \A f \in L!Fds \ {r, w} : fds["parent"][f] = L!ParentFds[f]
    /\ pc \in Waiting \cup {"pipe"} => fds["parent"][r] = L!ParentFds[r]
    /\ pc = "cloexec_read" => fds["parent"][r] = Kept("read")
    /\ pc \in (WithPipe \ {"cloexec_read"}) \cup {"close_read"} =>
           fds["parent"][r] = Marked("read")
    /\ pc \in {"cloexec_read", "cloexec_write"} => fds["parent"][w] = Kept("write")
    /\ pc \in {"start_first", "start_second", "close_write"} =>
           fds["parent"][w] = Marked("write")
    /\ pc \in Waiting \cup {"pipe", "close_read"} => fds["parent"][w] = L!ParentFds[w]

Unwaited == {"forked", "running", "zombie", "taken"}
Statuses == [by : {"exit", "signal"}, value : Nat]

\* The stage has been waited for and its exit code is known.
CodeKnown(p) == state[p] = "reaped" /\ codes[p] = L!x_process_set_exit_status(status[p])

\* How far each stage is when the parent is where it is.
StagesInv ==
    /\ state \in [L!Children -> Unwaited \cup {"none", "reaped"}]
    /\ status \in [L!Children -> Statuses]
    /\ codes \in [L!Stages -> Nat]
    /\ error \in BOOLEAN
    /\ pc \in BeforeStages => error = FALSE /\ \A p \in L!Stages : state[p] = "none"
    /\ pc = "start_second" =>
           error = FALSE /\ state["first"] \in Unwaited /\ state["second"] = "none"
    /\ pc \in {"close_write", "close_read"} =>
           IF error THEN state["first"] \in Unwaited \cup {"none"} /\ state["second"] = "none"
           ELSE \A p \in L!Stages : state[p] \in Unwaited
    /\ pc = "wait_first" => error = FALSE /\ \A p \in L!Stages : state[p] \in Unwaited
    /\ pc \in {"terminate", "wait_terminated"} =>
           error = TRUE /\ state["first"] \in Unwaited /\ state["second"] = "none"
    /\ pc = "wait_second" =>
           /\ state["first"] \in {"reaped", "taken"} /\ state["second"] \in Unwaited
           /\ error = FALSE => CodeKnown("first")
    /\ pc = "done" =>
           /\ \A p \in L!Stages : state[p] \in {"none", "reaped", "taken"}
           /\ error = FALSE => \A p \in L!Stages : CodeKnown(p)

\* Of the standard descriptors none is free; each end of the pipe has one
\* descriptor, which no program inherits; and there is room for one more.
Ready(t) ==
    /\ t \in [L!Fds -> Entries]
    /\ \A f \in 0 .. 2 : t[f].end \in {"std", "file"} /\ t[f].cloexec = FALSE
    /\ \A f \in L!Fds : /\ t[f].end = "read" <=> f = r
                        /\ t[f].end = "write" <=> f = w
    /\ t[r].cloexec = TRUE /\ t[w].cloexec = TRUE
    /\ \E f \in L!Fds : t[f].end = "none"

\* A stage begins with a copy of the parent's table, which its redirections keep
\* ready, and its program has one end of the pipe.
ConnectedInv ==
    /\ \A p \in L!Stages : state[p] = "forked" =>
           r \in L!Fds /\ w \in L!Fds /\ Ready(fds[p])
    /\ L!StagesConnected

\* A set of numbers that is not empty has a least one.
LEMMA LeastExists ==
    ASSUME NEW T \in SUBSET Nat, T # {}
    PROVE  L!Least(T) \in T /\ \A j \in T : L!Least(T) <= j
<1> DEFINE Less == {ss \in Nat \X Nat : ss[1] < ss[2]}
<1>1. IsWellFoundedOn(Less, Nat)
  BY NatLessThanWellFounded, Zenon DEF OpToRel
<1> HIDE DEF Less
<1>2. PICK k \in T : \A j \in T : ~(<<j, k>> \in Less)
  BY Zenon, <1>1, WFMin
<1>3. ASSUME NEW j \in T
      PROVE  k <= j
  <2>1. j \in Nat /\ k \in Nat
    OBVIOUS
  <2>2. ~(j < k)
    BY Zenon, <1>2, <2>1 DEF Less
  <2>3. QED
    BY SMTT(60), SMTT(90), <2>1, <2>2
<1>4. QED
  BY <1>3, Zenon DEF L!Least

\* Entries, and what dup2 and fcntl make of them.
LEMMA EntryTypes ==
    /\ \A end \in Ends : Kept(end) \in Entries /\ Marked(end) \in Entries
    /\ \A x \in Entries : x.end \in Ends
    /\ L!Closed = Kept("none")
BY Zenon DEF Kept, Marked, Entries, L!Closed

\* What an entry holds.
LEMMA EntryFields ==
    \A end : /\ Kept(end).end = end /\ Kept(end).cloexec = FALSE
             /\ Marked(end).end = end /\ Marked(end).cloexec = TRUE
BY Zenon DEF Kept, Marked

\* Setting the flag of an entry makes it a kept or a marked one.
LEMMA EntryExcept ==
    ASSUME NEW x \in Entries
    PROVE  /\ [x EXCEPT !.cloexec = FALSE] = Kept(x.end)
           /\ [x EXCEPT !.cloexec = TRUE] = Marked(x.end)
<1>1. ASSUME NEW d PROVE [x EXCEPT !.cloexec = d] = [end |-> x.end, cloexec |-> d]
  BY SMT DEF Entries
<1>2. QED
  BY <1>1, Zenon DEF Kept, Marked

\* The parent's own table.
LEMMA ParentTable ==
    /\ L!ParentFds \in [L!Fds -> Entries]
    /\ \A f \in L!Fds : L!ParentFds[f] = IF f \in StdOpen THEN Kept("std") ELSE Kept("none")
<1>1. L!ParentFds = [f \in L!Fds |-> IF f \in StdOpen THEN Kept("std") ELSE Kept("none")]
  BY Zenon DEF L!ParentFds, L!Closed, Kept
<1>2. Kept("std") \in Entries /\ Kept("none") \in Entries
  BY Zenon, EntryTypes DEF Ends
<1>3. QED
  BY Zenon, <1>1, <1>2

\* pipe takes two different descriptors that were free.
LEMMA TwoFree ==
    ASSUME TableInv, pc = "pipe",
           NEW free, free = {f \in L!Fds : fds["parent"][f].end = "none"}
    PROVE  /\ L!Least(free) \in free
           /\ L!Least(free \ {L!Least(free)}) \in free \ {L!Least(free)}
<1>1. 3 \in L!Fds /\ 4 \in L!Fds /\ 3 \notin StdOpen /\ 4 \notin StdOpen /\ L!Fds \subseteq Nat
  BY SMTT(60), SMTT(90), ProcessesAssumption DEF L!Fds
<1>2. fds["parent"][3] = L!ParentFds[3] /\ fds["parent"][4] = L!ParentFds[4]
  BY Zenon, <1>1 DEF TableInv
<1>3. fds["parent"][3].end = "none" /\ fds["parent"][4].end = "none"
  BY ZenonT(60), <1>1, <1>2, ParentTable, EntryFields
<1>4. 3 \in free /\ 4 \in free /\ free \in SUBSET Nat
  BY Zenon, <1>1, <1>3
<1>5. ASSUME NEW T \in SUBSET free, T # {}
      PROVE  L!Least(T) \in T
  <2>1. T \in SUBSET Nat
    BY Zenon, <1>4
  <2>2. QED
    BY <1>5, <2>1, LeastExists, Zenon
<1>6. L!Least(free) \in free
  BY Zenon, <1>4, <1>5
<1>7. ASSUME NEW m PROVE free \ {m} # {}
  BY SMTT(60), SMTT(90), <1>4
<1>8. free \ {L!Least(free)} \in SUBSET free
  OBVIOUS
<1>9. QED
  BY <1>5, <1>6, <1>7, <1>8, Zenon

\* Before the call the parent has its own descriptors and there are no stages.
LEMMA PipelineInit == L!Init => TableInv /\ StagesInv
<1> SUFFICES ASSUME L!Init
             PROVE  TableInv /\ StagesInv
  OBVIOUS
<1>1. fds = [p \in L!Children \cup {"parent"} |->
                 IF p = "parent" THEN L!ParentFds ELSE [f \in L!Fds |-> L!Closed]]
  BY Zenon DEF L!Init
<1>2. DOMAIN fds = L!Children \cup {"parent"} /\ fds["parent"] = L!ParentFds
  BY <1>1, Zenon
<1>3. pc = "pipe" /\ r \in L!Fds /\ w \in L!Fds
  BY ProcessesAssumption DEF L!Init, L!Fds
<1>4. TableInv
  BY Zenon, <1>2, <1>3, ParentTable DEF TableInv, WithPipe, Waiting
<1>5. L!Exited(0) \in Statuses
  BY Zenon DEF L!Exited, Statuses
<1>6. StagesInv
  BY Zenon, <1>5 DEF L!Init, StagesInv, BeforeStages, L!Children, L!Stages
<1>7. QED
  BY Zenon, <1>4, <1>6

\* Steps that leave the parent's table and place alone, and the descriptors.
LEMMA TableKept ==
    ASSUME TableInv, UNCHANGED <<pc, r, w>>, DOMAIN fds' = DOMAIN fds,
           fds'["parent"] = fds["parent"]
    PROVE  TableInv'
BY ZenonT(60) DEF TableInv, L!ParentFds, L!Closed, L!Fds, L!Children, L!Stages

\* Steps that leave all tables alone and let the parent go on.
LEMMA TableGoesOn ==
    ASSUME TableInv, UNCHANGED <<fds, r, w>>,
           \/ pc \in Waiting \cup {"pipe"} /\ pc' \in Waiting
           \/ pc \in {"start_first", "start_second"} /\ pc' \in {"start_second", "close_write"}
    PROVE  TableInv'
BY Zenon DEF TableInv, WithPipe, Waiting, L!ParentFds, L!Closed, L!Fds, L!Children, L!Stages

\* What a fork copies is the child's; the parent's table is as before.
LEMMA ForkKeeps ==
    ASSUME TableInv, NEW p \in L!Children, L!Fork(p)
    PROVE  DOMAIN fds' = DOMAIN fds /\ fds'["parent"] = fds["parent"]
BY Zenon DEF TableInv, L!Fork, L!Children, L!Stages

\* x_pipe_create opens two descriptors in the parent.
LEMMA CreateTable ==
    ASSUME TableInv, L!x_pipe_create
    PROVE  TableInv'
<1>1. CASE pc' = "done"
  <2>1. UNCHANGED <<fds, r, w>> /\ pc = "pipe"
    BY Zenon, <1>1 DEF L!x_pipe_create, L!Goto
  <2>2. QED
    BY Zenon, <1>1, <2>1, TableGoesOn DEF Waiting
<1>2. CASE pc' # "done"
  <2> DEFINE free == {f \in L!Fds : fds["parent"][f].end = "none"}
             low == L!Least(free)
             next == L!Least(free \ {low})
  <2>1. pc = "pipe" /\ pc' = "cloexec_read" /\ r' = low /\ w' = next
        /\ fds' = [fds EXCEPT !["parent"] =
                       [fds["parent"] EXCEPT ![low] = [end |-> "read", cloexec |-> FALSE],
                                             ![next] = [end |-> "write", cloexec |-> FALSE]]]
    BY Zenon, <1>2 DEF L!x_pipe_create, L!Goto
  <2>2. low \in free /\ next \in free \ {low}
    BY Zenon, <2>1, TwoFree
  <2>3. /\ low \in L!Fds /\ next \in L!Fds /\ low # next
        /\ fds["parent"][low].end = "none" /\ fds["parent"][next].end = "none"
    BY Zenon, <2>2
  <2> HIDE DEF free, low, next
  <2>4. DOMAIN fds' = DOMAIN fds
        /\ fds'["parent"] = [fds["parent"] EXCEPT ![low] = Kept("read"), ![next] = Kept("write")]
    BY Zenon, <2>1 DEF TableInv, Kept
  <2>5. Kept("read") \in Entries /\ Kept("write") \in Entries
    BY Zenon, EntryTypes DEF Ends
  <2>6. /\ fds'["parent"] \in [L!Fds -> Entries]
        /\ fds'["parent"][low] = Kept("read") /\ fds'["parent"][next] = Kept("write")
        /\ \A f \in L!Fds \ {low, next} : fds'["parent"][f] = fds["parent"][f]
    BY ZenonT(60), <2>3, <2>4, <2>5 DEF TableInv
  <2>7. \A f \in L!Fds : fds["parent"][f] = L!ParentFds[f]
    BY Zenon, <2>1 DEF TableInv, Waiting
  <2>8. L!ParentFds[low] = L!Closed /\ L!ParentFds[next] = L!Closed
    BY ZenonT(60), <2>3, <2>7, ParentTable, EntryFields, EntryTypes
  <2>9. UNCHANGED <<L!ParentFds, L!Closed, L!Fds>>
    BY Zenon DEF L!ParentFds, L!Closed, L!Fds
  <2>10. QED
    BY ZenonT(60), <2>1, <2>3, <2>4, <2>6, <2>7, <2>8, <2>9 DEF TableInv, WithPipe, Waiting
<1>3. QED
  BY Zenon, <1>1, <1>2

\* One entry of the parent's table changes.
LEMMA OneEntry ==
    ASSUME TableInv, NEW f \in L!Fds, NEW e \in Entries,
           fds' = [fds EXCEPT !["parent"] = [fds["parent"] EXCEPT ![f] = e]]
    PROVE  /\ DOMAIN fds' = DOMAIN fds
           /\ fds'["parent"] \in [L!Fds -> Entries]
           /\ fds'["parent"][f] = e
           /\ \A g \in L!Fds \ {f} : fds'["parent"][g] = fds["parent"][g]
BY Zenon DEF TableInv

\* The ends are kept from other programs one after the other.
LEMMA CloexecTable ==
    ASSUME TableInv, L!SetCloexec
    PROVE  TableInv'
<1>1. UNCHANGED <<r, w, L!ParentFds, L!Closed, L!Fds>>
  BY Zenon DEF L!SetCloexec, L!ParentFds, L!Closed, L!Fds
<1>2. /\ Marked("read") \in Entries /\ Marked("write") \in Entries
      /\ Kept("read") \in Entries /\ Kept("write") \in Entries
  BY Zenon, EntryTypes DEF Ends
<1>3. /\ [Kept("read") EXCEPT !.cloexec = TRUE] = Marked("read")
      /\ [Kept("write") EXCEPT !.cloexec = TRUE] = Marked("write")
  BY ZenonT(60), <1>2, EntryExcept, EntryFields
<1>4. CASE pc = "cloexec_read"
  <2>1. pc' = "cloexec_write" /\ fds["parent"][r] = Kept("read") /\ r \in L!Fds
    BY Zenon, <1>4 DEF L!SetCloexec, L!Goto, TableInv
  <2>2. fds' = [fds EXCEPT !["parent"][r].cloexec = TRUE]
    BY Zenon, <1>4 DEF L!SetCloexec, L!Goto
  <2>3. fds' = [fds EXCEPT !["parent"] = [fds["parent"] EXCEPT ![r] = Marked("read")]]
    BY Zenon, <1>3, <2>1, <2>2
  <2>4. /\ DOMAIN fds' = DOMAIN fds
        /\ fds'["parent"] \in [L!Fds -> Entries]
        /\ fds'["parent"][r] = Marked("read")
        /\ \A g \in L!Fds \ {r} : fds'["parent"][g] = fds["parent"][g]
    BY ZenonT(60), <1>2, <2>1, <2>3, OneEntry
  <2>5. QED
    BY Zenon, <1>1, <1>4, <2>1, <2>4 DEF TableInv, WithPipe, Waiting
<1>5. CASE pc = "cloexec_write"
  <2>1. pc' = "start_first" /\ fds["parent"][w] = Kept("write") /\ w \in L!Fds
    BY Zenon, <1>5 DEF L!SetCloexec, L!Goto, TableInv
  <2>2. fds' = [fds EXCEPT !["parent"][w].cloexec = TRUE]
    BY Zenon, <1>5 DEF L!SetCloexec, L!Goto
  <2>3. fds' = [fds EXCEPT !["parent"] = [fds["parent"] EXCEPT ![w] = Marked("write")]]
    BY Zenon, <1>3, <2>1, <2>2
  <2>4. /\ DOMAIN fds' = DOMAIN fds
        /\ fds'["parent"] \in [L!Fds -> Entries]
        /\ fds'["parent"][w] = Marked("write")
        /\ \A g \in L!Fds \ {w} : fds'["parent"][g] = fds["parent"][g]
    BY ZenonT(60), <1>2, <2>1, <2>3, OneEntry
  <2>5. QED
    BY Zenon, <1>1, <1>5, <2>1, <2>4 DEF TableInv, WithPipe, Waiting
<1>6. QED
  BY Zenon, <1>4, <1>5 DEF L!SetCloexec, L!Goto

\* The parent closes the write end, then the read end.
LEMMA CloseTable ==
    ASSUME TableInv, L!x_pipe_close
    PROVE  TableInv'
<1>1. UNCHANGED <<r, w, L!ParentFds, L!Closed, L!Fds>>
  BY Zenon DEF L!x_pipe_close, L!ParentFds, L!Closed, L!Fds
<1>2. L!Closed \in Entries
  BY Zenon, EntryTypes DEF Ends
<1>3. CASE pc = "close_write"
  <2>1. pc' = "close_read" /\ L!ParentFds[w] = L!Closed /\ w \in L!Fds /\ r # w
    BY Zenon, <1>3 DEF L!x_pipe_close, L!Goto, TableInv, WithPipe
  <2>2. fds' = [fds EXCEPT !["parent"][w] = L!Closed]
    BY Zenon, <1>3 DEF L!x_pipe_close, L!Goto
  <2>3. fds' = [fds EXCEPT !["parent"] = [fds["parent"] EXCEPT ![w] = L!Closed]]
    BY Zenon, <2>2
  <2>4. /\ DOMAIN fds' = DOMAIN fds
        /\ fds'["parent"] \in [L!Fds -> Entries]
        /\ fds'["parent"][w] = L!Closed
        /\ \A g \in L!Fds \ {w} : fds'["parent"][g] = fds["parent"][g]
    BY ZenonT(60), <1>2, <2>1, <2>3, OneEntry
  <2>5. QED
    BY Zenon, <1>1, <1>3, <2>1, <2>4 DEF TableInv, WithPipe, Waiting
<1>4. CASE pc = "close_read"
  <2>1. pc' \in Waiting /\ L!ParentFds[r] = L!Closed /\ r \in L!Fds /\ r # w
    BY Zenon, <1>4 DEF L!x_pipe_close, L!Goto, L!AfterClose, TableInv, Waiting
  <2>2. fds' = [fds EXCEPT !["parent"][r] = L!Closed]
    BY Zenon, <1>4 DEF L!x_pipe_close, L!Goto
  <2>3. fds' = [fds EXCEPT !["parent"] = [fds["parent"] EXCEPT ![r] = L!Closed]]
    BY <2>2
  <2>4. /\ DOMAIN fds' = DOMAIN fds
        /\ fds'["parent"] \in [L!Fds -> Entries]
        /\ fds'["parent"][r] = L!Closed
        /\ \A g \in L!Fds \ {r} : fds'["parent"][g] = fds["parent"][g]
    BY ZenonT(60), <1>2, <2>1, <2>3, OneEntry
  <2>5. QED
    BY Zenon, <1>1, <1>4, <2>1, <2>4 DEF TableInv, WithPipe, Waiting
<1>5. QED
  BY Zenon, <1>3, <1>4 DEF L!x_pipe_close, L!Goto

\* Every step leaves the parent with its own descriptors and the ends it has open.
LEMMA TableStep == TableInv /\ [L!Next]_(L!vars) => TableInv'
<1> SUFFICES ASSUME TableInv, [L!Next]_(L!vars)
             PROVE  TableInv'
  OBVIOUS
<1>1. CASE L!x_pipe_create \/ L!SetCloexec \/ L!x_pipe_close
  BY Zenon, <1>1, CreateTable, CloexecTable, CloseTable
<1>2. CASE L!x_process_terminate
  BY Zenon, <1>2, TableGoesOn DEF L!x_process_terminate, L!Goto, Waiting
<1>3. ASSUME NEW p \in L!Stages, L!x_process_start(p)
      PROVE  TableInv'
  <2>1. UNCHANGED <<r, w, L!ParentFds, L!Closed, L!Fds>>
    BY Zenon, <1>3 DEF L!x_process_start, L!ParentFds, L!Closed, L!Fds
  <2>2. pc \in {"start_first", "start_second"} /\ pc' \in {"start_second", "close_write"}
    BY Zenon, <1>3 DEF L!x_process_start, L!Goto
  <2>3. DOMAIN fds' = DOMAIN fds /\ fds'["parent"] = fds["parent"]
    BY Zenon, <1>3, ForkKeeps DEF L!x_process_start, L!Children
  <2>4. QED
    BY Zenon, <2>1, <2>2, <2>3 DEF TableInv, WithPipe, Waiting, L!Children, L!Stages
<1>4. ASSUME NEW p \in L!Stages, L!x_process_wait(p)
      PROVE  TableInv'
  BY Zenon, <1>4, TableGoesOn DEF L!x_process_wait, L!Goto, Waiting
<1>5. ASSUME NEW p \in L!Children, L!Setup(p)
      PROVE  TableInv'
  <2>1. DOMAIN fds' = DOMAIN fds /\ fds'["parent"] = fds["parent"]
    BY Zenon, <1>5 DEF L!Setup, L!Children, L!Stages, TableInv
  <2>2. QED
    BY Zenon, <1>5, <2>1, TableKept DEF L!Setup
<1>6. ASSUME NEW p \in L!Children, L!Write \/ L!Read \/ L!Finish(p) \/ L!Quit(p) \/ L!StatusTaken(p)
      PROVE  TableInv'
  BY Zenon, <1>6, TableKept DEF L!Write, L!Read, L!Finish, L!Quit, L!StatusTaken
<1>7. CASE L!OtherStarts
  <2>1. DOMAIN fds' = DOMAIN fds /\ fds'["parent"] = fds["parent"]
    BY Zenon, <1>7, ForkKeeps DEF L!OtherStarts, L!Children
  <2>2. QED
    BY Zenon, <1>7, <2>1, TableKept DEF L!OtherStarts
<1>8. CASE L!Terminated \/ UNCHANGED L!vars
  BY Zenon, <1>8, TableKept DEF L!Terminated, L!vars, L!kernel
<1>9. QED
  BY Zenon, <1>1, <1>2, <1>3, <1>4, <1>5, <1>6, <1>7, <1>8 DEF L!Next, L!Parent, L!Child

\* One child goes on, and it is no stage that has been waited for.
LEMMA ChildGoesOn ==
    ASSUME StagesInv, UNCHANGED <<pc, codes, error>>,
           NEW p \in L!Children, NEW x \in Unwaited,
           p = "other" \/ state[p] \in Unwaited \ {"taken"},
           state' = [state EXCEPT ![p] = x],
           status' \in [L!Children -> Statuses],
           \A q \in L!Children \ {p} : status'[q] = status[q]
    PROVE  StagesInv'
<1>1. /\ state' \in [L!Children -> Unwaited \cup {"none", "reaped"}]
      /\ state'[p] \in Unwaited
      /\ \A q \in L!Children \ {p} : state'[q] = state[q]
  BY Zenon DEF StagesInv, Unwaited
<1>2. \A q \in L!Stages : CodeKnown(q) => CodeKnown(q)'
  BY ZenonT(60), <1>1 DEF CodeKnown, L!x_process_set_exit_status, L!Children, L!Stages, Unwaited
<1>3. "first" \in L!Children /\ "second" \in L!Children /\ L!Stages = {"first", "second"}
  BY Zenon DEF L!Children, L!Stages
<1>4. state'["first"] = state["first"] \/ (state["first"] \in Unwaited \ {"taken"} /\ state'["first"] \in Unwaited)
  BY Zenon, <1>1, <1>3
<1>5. state'["second"] = state["second"] \/ (state["second"] \in Unwaited \ {"taken"} /\ state'["second"] \in Unwaited)
  BY Zenon, <1>1, <1>3
<1>6. QED
  BY ZenonT(60), <1>1, <1>2, <1>3, <1>4, <1>5 DEF StagesInv, Unwaited

\* A child that has been forked ends.
LEMMA EndKeeps ==
    ASSUME StagesInv, NEW p \in L!Children, state[p] \in {"forked", "running"},
           NEW s \in Statuses, L!End(p, s), UNCHANGED <<pc, codes, error>>
    PROVE  StagesInv'
<1>1. /\ state' = [state EXCEPT ![p] = "zombie"]
      /\ status' \in [L!Children -> Statuses]
      /\ \A q \in L!Children \ {p} : status'[q] = status[q]
  BY Zenon DEF StagesInv, L!End
<1>2. "zombie" \in Unwaited /\ state[p] \in Unwaited \ {"taken"}
  BY Zenon DEF Unwaited
<1>3. QED
  BY Zenon, <1>1, <1>2, ChildGoesOn

\* The ways in which a child ends.
LEMMA StatusTypes ==
    /\ \A c \in Nat : L!Exited(c) \in Statuses
    /\ L!Signalled(L!SIGPIPE) \in Statuses /\ L!Signalled(L!SIGTERM) \in Statuses
BY Zenon DEF L!Exited, L!Signalled, L!SIGPIPE, L!SIGTERM, Statuses

\* x_process_start: the stage is forked, or there was an error.
LEMMA StartStages ==
    ASSUME StagesInv, NEW p \in L!Stages, L!x_process_start(p)
    PROVE  StagesInv'
<1> USE DEF L!x_process_start, L!Goto
<1>1. UNCHANGED <<status, codes>> /\ "first" \in L!Children /\ "second" \in L!Children
      /\ L!Stages = {"first", "second"}
  BY Zenon DEF L!Children, L!Stages
<1>2. CASE error' = TRUE /\ UNCHANGED state
  <2>1. pc \in {"start_first", "start_second"} /\ pc' = "close_write"
    BY ZenonT(60), <1>2 DEF StagesInv, BeforeStages
  <2>2. QED
    BY Zenon, <1>1, <1>2, <2>1 DEF StagesInv, BeforeStages, Unwaited
<1>3. CASE L!Fork(p) /\ UNCHANGED error
  <2>1. state' = [state EXCEPT ![p] = "forked"]
    BY Zenon, <1>3 DEF L!Fork
  <2>2. CASE p = "first"
    <3>1. pc = "start_first" /\ pc' = "start_second" /\ error = FALSE
      BY Zenon, <1>3, <2>2 DEF StagesInv, BeforeStages
    <3>2. QED
      BY Zenon, <1>1, <1>3, <2>1, <2>2, <3>1 DEF StagesInv, BeforeStages, Unwaited
  <2>3. CASE p = "second"
    <3>1. pc = "start_second" /\ pc' = "close_write" /\ error = FALSE
      BY Zenon, <1>3, <2>3 DEF StagesInv, BeforeStages
    <3>2. QED
      BY ZenonT(60), <1>1, <1>3, <2>1, <2>3, <3>1 DEF StagesInv, BeforeStages, Unwaited
  <2>4. QED
    BY Zenon, <1>1, <2>2, <2>3
<1>4. QED
  BY ZenonT(60), <1>2, <1>3

\* An exit code is a number.
LEMMA CodeType == \A s \in Statuses : L!x_process_set_exit_status(s) \in Nat
BY DEF L!x_process_set_exit_status, Statuses

\* x_process_wait: the stage is reaped and its code known, or its status was taken.
LEMMA WaitStages ==
    ASSUME StagesInv, NEW p \in L!Stages, L!x_process_wait(p)
    PROVE  StagesInv'
<1>1. /\ UNCHANGED status /\ "first" \in L!Children /\ "second" \in L!Children
      /\ L!Stages = {"first", "second"} /\ L!Stages \subseteq L!Children
  BY Zenon DEF L!x_process_wait, L!Children, L!Stages
<1>3. \/ p = "first" /\ pc = "wait_first" /\ pc' = "wait_second"
      \/ p = "second" /\ pc = "wait_second" /\ pc' = "done"
      \/ p = "first" /\ pc = "wait_terminated" /\ pc' = "done"
  BY Zenon DEF L!x_process_wait, L!Goto
<1>4. CASE pc = "wait_terminated"
  <2>1. UNCHANGED <<codes, error>> /\ pc' = "done" /\ p = "first"
        /\ (L!Reap(p) \/ L!Taken(p))
    BY Zenon, <1>4 DEF L!x_process_wait, L!Goto
  <2>2. /\ state' \in [L!Children -> Unwaited \cup {"none", "reaped"}]
        /\ state'["first"] \in {"reaped", "taken"} /\ state'["second"] = state["second"]
    BY ZenonT(60), <1>1, <2>1 DEF L!Reap, L!Taken, StagesInv, Unwaited
  <2>3. QED
    BY Zenon, <1>1, <1>4, <2>1, <2>2 DEF StagesInv, BeforeStages
<1>5. CASE pc # "wait_terminated" /\ L!Taken(p) /\ error' = TRUE /\ UNCHANGED codes
  <2>1. UNCHANGED state /\ state[p] = "taken"
    BY Zenon, <1>5 DEF L!Taken
  <2>2. CASE pc = "wait_first" /\ pc' = "wait_second" /\ p = "first"
    BY Zenon, <1>1, <1>5, <2>1, <2>2 DEF StagesInv, BeforeStages
  <2>3. CASE pc = "wait_second" /\ pc' = "done" /\ p = "second"
    BY Zenon, <1>1, <1>5, <2>1, <2>3 DEF StagesInv, BeforeStages
  <2>4. QED
    BY Zenon, <1>3, <1>5, <2>2, <2>3
<1>6. CASE /\ pc # "wait_terminated" /\ L!Reap(p) /\ UNCHANGED error
           /\ codes' = [codes EXCEPT ![p] = L!x_process_set_exit_status(status[p])]
  <2>1. /\ state' \in [L!Children -> Unwaited \cup {"none", "reaped"}]
        /\ state'[p] = "reaped" /\ \A q \in L!Stages \ {p} : state'[q] = state[q]
    BY Zenon, <1>1, <1>6 DEF L!Reap, StagesInv
  <2>2. /\ codes' \in [L!Stages -> Nat]
        /\ codes'[p] = L!x_process_set_exit_status(status[p])
        /\ \A q \in L!Stages \ {p} : codes'[q] = codes[q]
    BY Zenon, <1>1, <1>6, CodeType DEF StagesInv
  <2>3. CodeKnown(p)' /\ \A q \in L!Stages \ {p} : CodeKnown(q) => CodeKnown(q)'
    BY ZenonT(60), <1>1, <2>1, <2>2 DEF CodeKnown, L!x_process_set_exit_status
  <2>4. CASE pc = "wait_first" /\ pc' = "wait_second" /\ p = "first"
    BY Zenon, <1>1, <1>6, <2>1, <2>2, <2>3, <2>4 DEF StagesInv, BeforeStages
  <2>5. CASE pc = "wait_second" /\ pc' = "done" /\ p = "second"
    BY ZenonT(60), <1>1, <1>6, <2>1, <2>2, <2>3, <2>5 DEF StagesInv, BeforeStages
  <2>6. QED
    BY Zenon, <1>3, <1>6, <2>4, <2>5
<1>7. QED
  BY ZenonT(60), <1>4, <1>5, <1>6 DEF L!x_process_wait, L!Goto

\* x_process_terminate: the first stage may ignore the signal.
LEMMA TerminateStages ==
    ASSUME StagesInv, L!x_process_terminate
    PROVE  StagesInv'
<1>1. /\ pc = "terminate" /\ pc' = "wait_terminated" /\ UNCHANGED <<codes, error>>
      /\ "first" \in L!Children /\ "second" \in L!Children /\ L!Stages = {"first", "second"}
  BY Zenon DEF L!x_process_terminate, L!Goto, L!Children, L!Stages
<1>2. CASE UNCHANGED <<state, status>>
  BY Zenon, <1>1, <1>2 DEF StagesInv, BeforeStages
<1>3. CASE L!End("first", L!Signalled(L!SIGTERM))
  <2>1. /\ state' = [state EXCEPT !["first"] = "zombie"]
        /\ status' \in [L!Children -> Statuses]
    BY Zenon, <1>1, <1>3, StatusTypes DEF L!End, StagesInv
  <2>2. QED
    BY Zenon, <1>1, <2>1 DEF StagesInv, BeforeStages, Unwaited
<1>4. QED
  BY Zenon, <1>2, <1>3 DEF L!x_process_terminate

\* Every step leaves the stages as far as the parent believes.
LEMMA StagesStep == StagesInv /\ [L!Next]_(L!vars) => StagesInv'
<1> SUFFICES ASSUME StagesInv, [L!Next]_(L!vars)
             PROVE  StagesInv'
  OBVIOUS
<1>1. CASE L!x_pipe_create
  <2>1. /\ pc = "pipe" /\ UNCHANGED <<state, status, codes>>
        /\ \/ pc' = "cloexec_read" /\ UNCHANGED error
           \/ pc' = "done" /\ error' = TRUE
    BY Zenon, <1>1 DEF L!x_pipe_create, L!Goto
  <2>2. CASE pc' = "cloexec_read" /\ UNCHANGED error
    BY Zenon, <2>1, <2>2 DEF StagesInv, BeforeStages
  <2>3. CASE pc' = "done" /\ error' = TRUE
    BY Zenon, <2>1, <2>3 DEF StagesInv, BeforeStages
  <2>4. QED
    BY ZenonT(60), <2>1, <2>2, <2>3
<1>2. CASE L!SetCloexec
  <2>1. /\ pc \in {"cloexec_read", "cloexec_write"} /\ pc' \in {"cloexec_write", "start_first"}
        /\ UNCHANGED <<state, status, codes, error>>
    BY Zenon, <1>2 DEF L!SetCloexec, L!Goto
  <2>2. QED
    BY Zenon, <2>1 DEF StagesInv, BeforeStages, CodeKnown, L!x_process_set_exit_status
<1>3. CASE L!x_pipe_close
  <2>1. UNCHANGED <<state, status, codes, error>>
    BY Zenon, <1>3 DEF L!x_pipe_close
  <2>2. CASE pc = "close_write" /\ pc' = "close_read"
    BY Zenon, <2>1, <2>2 DEF StagesInv, BeforeStages
  <2>3. CASE pc = "close_read" /\ pc' = L!AfterClose
    <3>1. CASE error = FALSE
      BY Zenon, <2>1, <2>3, <3>1 DEF StagesInv, BeforeStages, L!AfterClose
    <3>2. CASE error = TRUE
      BY Zenon, <2>1, <2>3, <3>2 DEF StagesInv, BeforeStages, L!AfterClose, L!Stages
    <3>3. QED
      BY ZenonT(60), <3>1, <3>2 DEF StagesInv
  <2>4. QED
    BY Zenon, <1>3, <2>2, <2>3 DEF L!x_pipe_close, L!Goto
<1>4. CASE L!x_process_terminate
  BY Zenon, <1>4, TerminateStages
<1>5. ASSUME NEW p \in L!Stages, L!x_process_start(p) \/ L!x_process_wait(p)
      PROVE  StagesInv'
  BY Zenon, <1>5, StartStages, WaitStages
<1>6. ASSUME NEW p \in L!Children, L!Setup(p)
      PROVE  StagesInv'
  <2>1. CASE L!End(p, L!Exited(127))
    BY ZenonT(60), <1>6, <2>1, EndKeeps, StatusTypes DEF L!Setup
  <2>2. CASE state' = [state EXCEPT ![p] = "running"] /\ UNCHANGED status
    <3>1. status' \in [L!Children -> Statuses] /\ UNCHANGED <<pc, codes, error>>
          /\ "running" \in Unwaited /\ state[p] \in Unwaited \ {"taken"}
      BY Zenon, <1>6, <2>2 DEF L!Setup, StagesInv, Unwaited
    <3>2. QED
      BY ZenonT(60), <2>2, <3>1, ChildGoesOn
  <2>3. QED
    BY Zenon, <1>6, <2>1, <2>2 DEF L!Setup
<1>7. CASE L!Write
  <2>1. "first" \in L!Children /\ state["first"] = "running" /\ UNCHANGED <<pc, codes, error>>
    BY Zenon, <1>7 DEF L!Write, L!Children, L!Stages
  <2>2. CASE UNCHANGED <<state, status>>
    BY Zenon, <2>1, <2>2 DEF StagesInv, CodeKnown
  <2>3. ASSUME NEW s \in Statuses, L!End("first", s)
        PROVE  StagesInv'
    BY Zenon, <2>1, <2>3, EndKeeps
  <2>4. L!Exited(1) \in Statuses /\ L!Signalled(L!SIGPIPE) \in Statuses
    BY Zenon, StatusTypes
  <2>5. QED
    BY Zenon, <1>7, <2>2, <2>3, <2>4 DEF L!Write
<1>8. CASE L!Read
  BY Zenon, <1>8 DEF L!Read, StagesInv, CodeKnown
<1>9. ASSUME NEW p \in L!Children, L!Finish(p) \/ L!Quit(p)
      PROVE  StagesInv'
  <2>1. PICK code \in {0, 1} : L!End(p, L!Exited(code))
    BY Zenon, <1>9 DEF L!Finish, L!Quit
  <2>2. L!Exited(code) \in Statuses
    BY Zenon, StatusTypes
  <2>3. state[p] \in {"forked", "running"} /\ UNCHANGED <<pc, codes, error>>
    BY Zenon, <1>9 DEF L!Finish, L!Quit
  <2>4. QED
    BY Zenon, <2>1, <2>2, <2>3, EndKeeps
<1>10. ASSUME NEW p \in L!Children, L!StatusTaken(p)
       PROVE  StagesInv'
  <2>1. /\ state' = [state EXCEPT ![p] = "taken"] /\ status' \in [L!Children -> Statuses]
        /\ UNCHANGED <<pc, status, codes, error>>
        /\ "taken" \in Unwaited /\ state[p] \in Unwaited \ {"taken"}
    BY Zenon, <1>10 DEF L!StatusTaken, StagesInv, Unwaited
  <2>2. QED
    BY Zenon, <2>1, ChildGoesOn
<1>11. CASE L!OtherStarts
  <2>1. /\ state' = [state EXCEPT !["other"] = "forked"] /\ status' \in [L!Children -> Statuses]
        /\ UNCHANGED <<pc, status, codes, error>>
        /\ "forked" \in Unwaited /\ "other" \in L!Children
    BY Zenon, <1>11 DEF L!OtherStarts, L!Fork, StagesInv, Unwaited, L!Children
  <2>2. QED
    BY ZenonT(60), <2>1, ChildGoesOn
<1>12. CASE L!Terminated \/ UNCHANGED L!vars
  BY SMTT(60), SMTT(90), <1>12 DEF L!Terminated, L!vars, L!kernel, StagesInv, CodeKnown
<1>13. QED
  BY Zenon, <1>1, <1>2, <1>3, <1>4, <1>5, <1>6, <1>7, <1>8, <1>9, <1>10, <1>11, <1>12
     DEF L!Next, L!Parent, L!Child

\* Whatever fails, and whatever else the parent has open: when x_process_run_pipeline
\* returns, the parent has the descriptors it had before and no stage is left running
\* or unreaped, and 0 is reported only of two stages that exited with 0.
THEOREM PipelineIsSound == FairSpec => []PipelineSound
<1> DEFINE Inv == TableInv /\ StagesInv
<1>1. Init => Inv
  BY Zenon, PipelineInit DEF Init
<1>2. Inv /\ [Next]_vars => Inv'
  BY Zenon, PipelineSteps, TableStep, StagesStep
<1>3. Inv => PipelineSound
  <2> SUFFICES ASSUME TableInv, StagesInv, pc = "done"
               PROVE  L!NothingLeft /\ L!SuccessIsReal
    BY Zenon DEF PipelineSound, L!NothingLeft, L!SuccessIsReal
  <2>1. \A f \in L!Fds : fds["parent"][f] = L!ParentFds[f]
    BY Zenon DEF TableInv, Waiting
  <2>2. fds["parent"] \in [L!Fds -> Entries] /\ L!ParentFds \in [L!Fds -> Entries]
    BY Zenon, ParentTable DEF TableInv
  <2>3. fds["parent"] = L!ParentFds
    BY SMTT(60), SMTT(90), <2>1, <2>2
  <2>4. L!NothingLeft
    BY Zenon, <2>3 DEF L!NothingLeft, StagesInv
  <2>5. ASSUME error = FALSE, L!exit_code = 0, NEW p \in L!Stages
        PROVE  state[p] = "reaped" /\ status[p] = L!Exited(0)
    <3>1. CodeKnown(p) /\ codes[p] = 0 /\ status[p] \in Statuses
      BY Zenon, <2>5 DEF StagesInv, L!exit_code, L!Stages, L!Children
    <3>2. status[p].by = "exit" /\ status[p].value = 0
      BY SMTT(60), SMTT(90), <3>1 DEF CodeKnown, L!x_process_set_exit_status, Statuses
    <3>3. status[p] = [by |-> status[p].by, value |-> status[p].value]
      BY Zenon, <3>1 DEF Statuses
    <3>4. QED
      BY Zenon, <3>1, <3>2, <3>3 DEF CodeKnown, L!Exited
  <2>6. L!SuccessIsReal
    BY ZenonT(60), <2>5 DEF L!SuccessIsReal, StagesInv
  <2>7. QED
    BY Zenon, <2>4, <2>6
<1>4. QED
  BY <1>1, <1>2, <1>3, PTL DEF FairSpec

\* When the parent forks a stage its table is ready.
LEMMA ReadyAtFork ==
    ASSUME StdOpen = 0 .. 2, TableInv, pc \in {"start_first", "start_second"}
    PROVE  r \in L!Fds /\ w \in L!Fds /\ Ready(fds["parent"])
<1> DEFINE t == fds["parent"]
<1>1. /\ r \in L!Fds /\ w \in L!Fds /\ r # w /\ t \in [L!Fds -> Entries]
      /\ t[r] = Marked("read") /\ t[w] = Marked("write")
      /\ L!ParentFds[r] = L!Closed /\ L!ParentFds[w] = L!Closed
      /\ \A f \in L!Fds \ {r, w} : t[f] = L!ParentFds[f]
  BY Zenon DEF TableInv, WithPipe
<1> HIDE DEF t
<1>2. /\ t[r].end = "read" /\ t[r].cloexec = TRUE
      /\ t[w].end = "write" /\ t[w].cloexec = TRUE
  BY Zenon, <1>1, EntryFields
<1>3. /\ 0 .. 2 \subseteq L!Fds
      /\ 3 \in L!Fds /\ 4 \in L!Fds /\ 5 \in L!Fds /\ L!Fds \subseteq Nat
  BY SMTT(60), SMTT(90), ProcessesAssumption DEF L!Fds
<1>4. ASSUME NEW f \in 0 .. 2
      PROVE  f # r /\ f # w /\ t[f].end = "std" /\ t[f].cloexec = FALSE
  <2>1. f \in L!Fds /\ L!ParentFds[f] = Kept("std") /\ L!ParentFds[f].end = "std"
        /\ L!ParentFds[f].cloexec = FALSE
    BY ZenonT(60), <1>3, ParentTable, EntryFields
  <2>2. L!Closed.end = "none"
    BY Zenon DEF L!Closed
  <2>3. f # r /\ f # w
    BY Zenon, <1>1, <2>1, <2>2
  <2>4. QED
    BY Zenon, <1>1, <2>1, <2>3
<1>5. ASSUME NEW f \in L!Fds \ {r, w}
      PROVE  t[f].end \in {"std", "none"} /\ (f \notin 0 .. 2 => t[f].end = "none")
  <2>1. t[f] = L!ParentFds[f] /\ L!ParentFds[f] = (IF f \in 0 .. 2 THEN Kept("std") ELSE Kept("none"))
    BY Zenon, <1>1, ParentTable
  <2>2. CASE f \in 0 .. 2
    BY Zenon, <2>1, <2>2, EntryFields
  <2>3. CASE f \notin 0 .. 2
    BY Zenon, <2>1, <2>3, EntryFields
  <2>4. QED
    BY Zenon, <2>2, <2>3
<1>6. \E f \in L!Fds : t[f].end = "none"
  <2>1. PICK f \in {3, 4, 5} : f # r /\ f # w
    OBVIOUS
  <2>2. f \in L!Fds \ {r, w} /\ f \notin 0 .. 2
    BY SMTT(60), SMTT(90), <1>3, <2>1
  <2>3. QED
    BY Zenon, <1>5, <2>2
<1>7. \A f \in L!Fds : (t[f].end = "read" <=> f = r) /\ (t[f].end = "write" <=> f = w)
  BY Zenon, <1>1, <1>2, <1>5
<1>8. \A f \in 0 .. 2 : t[f].end \in {"std", "file"} /\ t[f].cloexec = FALSE
  BY ZenonT(60), <1>4
<1>9. Ready(t)
  BY Zenon, <1>1, <1>2, <1>6, <1>7, <1>8 DEF Ready
<1>10. QED
  BY Zenon, <1>1, <1>9 DEF t

\* A redirection to a file opens a descriptor, which is neither a standard one nor
\* an end of the pipe, copies it, and closes it.
LEMMA RedirectKeepsReady ==
    ASSUME NEW t, Ready(t), r \in L!Fds, w \in L!Fds, NEW target \in 0 .. 2
    PROVE  Ready(L!x_process_redirect_fd(t, target))
<1> DEFINE fd == L!LowestFree(t)
           u == L!x_process_redirect_fd(t, target)
<1>1. CASE target \notin Files
  BY Zenon, <1>1 DEF L!x_process_redirect_fd
<1>2. CASE target \in Files
  <2>1. 0 .. 2 \subseteq L!Fds /\ L!Fds \subseteq Nat
    BY SMTT(60), SMTT(90), ProcessesAssumption DEF L!Fds
  <2>2. fd \in L!Fds /\ t[fd].end = "none"
    <3>1. {f \in L!Fds : t[f].end = "none"} \in SUBSET Nat
      BY Zenon, <2>1
    <3>2. {f \in L!Fds : t[f].end = "none"} # {}
      BY Zenon DEF Ready
    <3>3. fd \in {f \in L!Fds : t[f].end = "none"}
      BY <3>1, <3>2, LeastExists, Zenon DEF L!LowestFree
    <3>4. QED
      BY Zenon, <3>3
  <2> HIDE DEF fd
  <2>3. fd \notin 0 .. 2 /\ fd # r /\ fd # w /\ target # r /\ target # w
    BY Zenon, <2>1, <2>2 DEF Ready
  <2>4. Marked("file") \in Entries /\ Kept("file") \in Entries /\ L!Closed \in Entries
        /\ Marked("file") = [end |-> "file", cloexec |-> TRUE]
    BY Zenon, EntryTypes DEF Ends, Marked
  <2>5. [Marked("file") EXCEPT !.cloexec = FALSE] = Kept("file")
    BY ZenonT(60), <2>4, EntryExcept, EntryFields
  <2> DEFINE opened == [t EXCEPT ![fd] = Marked("file")]
  <2>6. opened \in [L!Fds -> Entries] /\ opened[fd] = Marked("file")
        /\ \A f \in L!Fds \ {fd} : opened[f] = t[f]
    BY Zenon, <2>2, <2>4 DEF Ready
  <2>7. u = [L!Dup2(opened, fd, target) EXCEPT ![fd] = L!Closed]
    BY Zenon, <1>2, <2>4 DEF L!x_process_redirect_fd, fd
  <2> HIDE DEF opened
  <2>8. L!Dup2(opened, fd, target) = [opened EXCEPT ![target] = Kept("file")]
    BY ZenonT(60), <2>3, <2>5, <2>6 DEF L!Dup2
  <2>9. /\ u \in [L!Fds -> Entries] /\ u[fd] = L!Closed /\ u[target] = Kept("file")
        /\ \A f \in L!Fds \ {fd, target} : u[f] = t[f]
    BY ZenonT(60), <2>1, <2>2, <2>3, <2>4, <2>6, <2>7, <2>8
  <2> HIDE DEF u
  <2>10. u[fd].end = "none" /\ u[target].end = "file" /\ u[target].cloexec = FALSE
    BY ZenonT(60), <2>9, EntryFields, EntryTypes
  <2>11. \A f \in 0 .. 2 : u[f].end \in {"std", "file"} /\ u[f].cloexec = FALSE
    BY ZenonT(60), <2>1, <2>3, <2>9, <2>10 DEF Ready
  <2>12. \A f \in L!Fds : (u[f].end = "read" <=> f = r) /\ (u[f].end = "write" <=> f = w)
    BY ZenonT(60), <2>3, <2>9, <2>10 DEF Ready
  <2>13. u[r].cloexec = TRUE /\ u[w].cloexec = TRUE
    BY Zenon, <2>3, <2>9 DEF Ready
  <2>14. Ready(u)
    BY Zenon, <2>2, <2>9, <2>10, <2>11, <2>12, <2>13 DEF Ready
  <2>15. QED
    BY Zenon, <2>14 DEF u
<1>3. QED
  BY Zenon, <1>1, <1>2

\* What a stage's program has of the pipe is the end that was copied to its standard
\* stream: exec closes the others.
LEMMA ProgramHasOneEnd ==
    ASSUME NEW t, Ready(t), r \in L!Fds, w \in L!Fds,
           NEW from \in {r, w}, NEW to \in 0 .. 2,
           NEW u, u = L!Exec(L!Dup2(t, from, to))
    PROVE  /\ {f \in L!Fds : u[f].end \in {"read", "write"}} = {to}
           /\ u[to].end = t[from].end
<1>1. 0 .. 2 \subseteq L!Fds /\ from \in L!Fds /\ from # to /\ t[from] \in Entries
  BY SMTT(60), SMTT(90), ProcessesAssumption DEF L!Fds, Ready
<1>2. [t[from] EXCEPT !.cloexec = FALSE] = Kept(t[from].end)
  BY Zenon, <1>1, EntryExcept
<1> DEFINE d == L!Dup2(t, from, to)
<1>3. d = [t EXCEPT ![to] = Kept(t[from].end)]
  BY ZenonT(60), <1>1, <1>2 DEF L!Dup2
<1>4. /\ d[to].end = t[from].end /\ d[to].cloexec = FALSE
      /\ \A f \in L!Fds \ {to} : d[f] = t[f]
  BY SMTT(60), SMTT(90), <1>1, <1>3, EntryFields DEF Ready
<1>5. u = L!Exec(d)
  OBVIOUS
<1> HIDE DEF d
<1>6. \A f \in L!Fds : u[f] = IF d[f].cloexec THEN L!Closed ELSE d[f]
  BY Zenon, <1>5 DEF L!Exec
<1>7. u[to] = d[to]
  BY Zenon, <1>1, <1>4, <1>6
<1>8. t[from].end \in {"read", "write"}
  BY Zenon, <1>1 DEF Ready
<1>9. ASSUME NEW f \in L!Fds \ {to}
      PROVE  u[f].end \notin {"read", "write"}
  <2>1. d[f] = t[f] /\ L!Closed.end = "none"
    BY Zenon, <1>4 DEF L!Closed
  <2>2. CASE f \in {r, w}
    <3>1. d[f].cloexec = TRUE
      BY Zenon, <2>1, <2>2 DEF Ready
    <3>2. u[f] = L!Closed
      BY Zenon, <1>6, <3>1
    <3>3. QED
      BY Zenon, <2>1, <3>2
  <2>3. CASE f \notin {r, w}
    <3>1. t[f].end \notin {"read", "write"}
      BY Zenon, <2>3 DEF Ready
    <3>2. u[f] = L!Closed \/ u[f] = t[f]
      BY Zenon, <1>6, <2>1
    <3>3. QED
      BY Zenon, <2>1, <3>1, <3>2
  <2>4. QED
    BY Zenon, <2>2, <2>3
<1>10. QED
  BY Zenon, <1>1, <1>4, <1>7, <1>8, <1>9

\* A table is ready after a step if it equals one that was ready before.
LEMMA ReadyAlike ==
    ASSUME UNCHANGED <<r, w>>, NEW q, NEW t, Ready(t), fds'[q] = t
    PROVE  Ready(fds[q])'
<1>1. r' = r /\ w' = w
  OBVIOUS
<1>2. QED
  BY SMTT(60), SMTT(90), <1>1 DEF Ready, L!Fds, Entries, Ends

\* Steps after which every stage that is forked or runs has the table it had.
LEMMA ConnectedKept ==
    ASSUME ConnectedInv, UNCHANGED <<r, w>>,
           \A p \in L!Stages : state'[p] \in {"forked", "running"} =>
               state'[p] = state[p] /\ fds'[p] = fds[p]
    PROVE  ConnectedInv'
<1>1. \A p \in L!Stages : state'[p] = "forked" =>
          r' \in L!Fds' /\ w' \in L!Fds' /\ Ready(fds[p])'
  BY SMTT(60), SMTT(90) DEF ConnectedInv, Ready, L!Fds, Entries, Ends
<1>2. "first" \in L!Stages /\ "second" \in L!Stages
  BY Zenon DEF L!Stages
<1>3. L!StagesConnected'
  BY Zenon, <1>2 DEF ConnectedInv, L!StagesConnected, L!Fds
<1>4. QED
  BY Zenon, <1>1, <1>3 DEF ConnectedInv

\* x_process_start: a stage starts with the parent's table.
LEMMA ForkConnected ==
    ASSUME StdOpen = 0 .. 2, TableInv, StagesInv, ConnectedInv,
           NEW p \in L!Stages, L!x_process_start(p)
    PROVE  ConnectedInv'
<1>1. UNCHANGED <<r, w>> /\ pc \in {"start_first", "start_second"}
  BY Zenon DEF L!x_process_start, L!Goto
<1>2. CASE UNCHANGED <<fds, state>>
  BY Zenon, <1>1, <1>2, ConnectedKept
<1>3. CASE L!Fork(p)
  <2>1. /\ state'[p] = "forked" /\ fds'[p] = fds["parent"]
        /\ \A q \in L!Stages \ {p} : state'[q] = state[q] /\ fds'[q] = fds[q]
    BY Zenon, <1>3 DEF L!Fork, TableInv, StagesInv, L!Children
  <2>2. r \in L!Fds /\ w \in L!Fds /\ Ready(fds["parent"])
    BY Zenon, <1>1, ReadyAtFork
  <2>3. Ready(fds[p])' /\ r' \in L!Fds' /\ w' \in L!Fds'
    BY ZenonT(60), <1>1, <2>1, <2>2, ReadyAlike DEF L!Fds
  <2>4. ASSUME NEW q \in L!Stages \ {p}, state'[q] = "forked"
        PROVE  Ready(fds[q])'
    BY ZenonT(60), <1>1, <2>1, <2>4, ReadyAlike DEF ConnectedInv
  <2>5. L!StagesConnected'
    BY ZenonT(60), <2>1 DEF ConnectedInv, L!StagesConnected, L!Stages, L!Fds
  <2>6. QED
    BY Zenon, <2>3, <2>4, <2>5 DEF ConnectedInv
<1>4. QED
  BY Zenon, <1>2, <1>3 DEF L!x_process_start

\* A stage's program starts with one end of the pipe.
LEMMA SetupConnected ==
    ASSUME TableInv, StagesInv, ConnectedInv, NEW p \in L!Children, L!Setup(p)
    PROVE  ConnectedInv'
<1>1. UNCHANGED <<r, w>> /\ state[p] = "forked" /\ L!Stages \subseteq L!Children
  BY Zenon DEF L!Setup, L!Children
<1>2. CASE L!End(p, L!Exited(127)) /\ UNCHANGED fds
  <2>1. \A q \in L!Stages : state'[q] \in {"forked", "running"} => state'[q] = state[q]
    BY Zenon, <1>1, <1>2 DEF L!End, StagesInv
  <2>2. QED
    BY Zenon, <1>1, <1>2, <2>1, ConnectedKept
<1>3. CASE p = "other"
  <2>1. \A q \in L!Stages : state'[q] = state[q] /\ fds'[q] = fds[q]
    BY ZenonT(60), <1>3 DEF L!Setup, L!End, L!Stages, L!Children, StagesInv, TableInv
  <2>2. QED
    BY Zenon, <1>1, <2>1, ConnectedKept
<1>4. CASE p \in L!Stages /\ state' = [state EXCEPT ![p] = "running"]
           /\ fds' = [fds EXCEPT ![p] = L!Exec(L!Redirected(p))]
  <2>1. r \in L!Fds /\ w \in L!Fds /\ Ready(fds[p])
    BY Zenon, <1>1, <1>4 DEF ConnectedInv
  <2>2. fds'[p] = L!Exec(L!Redirected(p)) /\ state'[p] = "running"
        /\ \A q \in L!Stages \ {p} : state'[q] = state[q] /\ fds'[q] = fds[q]
    <3> DEFINE e == L!Exec(L!Redirected(p))
    <3>1. fds' = [fds EXCEPT ![p] = e] /\ state' = [state EXCEPT ![p] = "running"]
      BY Zenon, <1>4
    <3>2. L!Stages \subseteq DOMAIN fds /\ L!Stages \subseteq DOMAIN state
      <4>1. DOMAIN fds = L!Children \cup {"parent"}
        BY Zenon DEF TableInv
      <4>2. state \in [L!Children -> Unwaited \cup {"none", "reaped"}]
        BY Zenon DEF StagesInv
      <4>3. QED
        BY Zenon, <1>1, <4>1, <4>2
    <3> HIDE DEF e
    <3>3. fds'[p] = e /\ state'[p] = "running"
          /\ \A q \in L!Stages \ {p} : state'[q] = state[q] /\ fds'[q] = fds[q]
      BY ZenonT(60), <1>4, <3>1, <3>2
    <3>4. QED
      BY Zenon, <3>3 DEF e
  <2>3. ASSUME NEW q \in L!Stages, state'[q] = "forked"
        PROVE  r' \in L!Fds' /\ w' \in L!Fds' /\ Ready(fds[q])'
    <3>1. q # p /\ state[q] = "forked" /\ fds'[q] = fds[q]
      BY Zenon, <2>2, <2>3
    <3>2. QED
      BY SMTT(60), SMTT(90), <1>1, <3>1 DEF ConnectedInv, Ready, L!Fds, Entries, Ends
  <2>4. CASE p = "first"
    <3> DEFINE t == L!x_process_redirect_fd(L!x_process_redirect_fd(fds[p], 0), 2)
    <3>1. Ready(L!x_process_redirect_fd(fds[p], 0))
      BY SMTT(60), SMTT(90), <2>1, RedirectKeepsReady
    <3>2. Ready(t)
      BY SMTT(60), SMTT(90), <2>1, <3>1, RedirectKeepsReady
    <3>3. fds'[p] = L!Exec(L!Dup2(t, w, 1))
      BY Zenon, <2>2, <2>4 DEF L!Redirected
    <3> HIDE DEF t
    <3>4. t[w].end = "write"
      BY Zenon, <2>1, <3>2 DEF Ready
    <3>5. {f \in L!Fds : fds'[p][f].end \in {"read", "write"}} = {1} /\ fds'[p][1].end = "write"
      BY SMTT(60), SMTT(90), <2>1, <3>2, <3>3, <3>4, ProgramHasOneEnd
    <3>6. L!StagesConnected'
      BY ZenonT(60), <2>2, <2>4, <3>5 DEF ConnectedInv, L!StagesConnected, L!Stages, L!Fds
    <3>7. QED
      BY Zenon, <2>3, <3>6 DEF ConnectedInv
  <2>5. CASE p = "second"
    <3> DEFINE t == L!x_process_redirect_fd(L!x_process_redirect_fd(fds[p], 1), 2)
    <3>1. Ready(L!x_process_redirect_fd(fds[p], 1))
      BY SMTT(60), SMTT(90), <2>1, RedirectKeepsReady
    <3>2. Ready(t)
      BY SMTT(60), SMTT(90), <2>1, <3>1, RedirectKeepsReady
    <3>3. fds'[p] = L!Exec(L!Dup2(t, r, 0))
      BY Zenon, <2>2, <2>5 DEF L!Redirected
    <3> HIDE DEF t
    <3>4. t[r].end = "read"
      BY Zenon, <2>1, <3>2 DEF Ready
    <3>5. {f \in L!Fds : fds'[p][f].end \in {"read", "write"}} = {0} /\ fds'[p][0].end = "read"
      BY SMTT(60), SMTT(90), <2>1, <3>2, <3>3, <3>4, ProgramHasOneEnd
    <3>6. L!StagesConnected'
      BY ZenonT(60), <2>2, <2>5, <3>5 DEF ConnectedInv, L!StagesConnected, L!Stages, L!Fds
    <3>7. QED
      BY Zenon, <2>3, <3>6 DEF ConnectedInv
  <2>6. QED
    BY Zenon, <1>4, <2>4, <2>5 DEF L!Stages
<1>5. QED
  BY Zenon, <1>2, <1>3, <1>4 DEF L!Setup, L!Children

\* Every step keeps the stages connected.
LEMMA ConnectedStep ==
    ASSUME StdOpen = 0 .. 2, TableInv, StagesInv, ConnectedInv, [L!Next]_(L!vars)
    PROVE  ConnectedInv'
<1>1. CASE L!x_pipe_create
  <2>1. \A p \in L!Stages : state'[p] = "none"
    BY Zenon, <1>1 DEF L!x_pipe_create, L!Goto, StagesInv, BeforeStages
  <2>2. QED
    BY Zenon, <2>1 DEF ConnectedInv, L!StagesConnected, L!Stages
<1>2. CASE L!SetCloexec \/ L!x_pipe_close
  <2>1. UNCHANGED <<state, r, w>> /\ \A p \in L!Stages : fds'[p] = fds[p]
    BY Zenon, <1>2 DEF L!SetCloexec, L!x_pipe_close, L!Stages, L!Children, TableInv
  <2>2. QED
    BY Zenon, <2>1, ConnectedKept
<1>3. CASE L!x_process_terminate \/ L!Write
  <2>1. UNCHANGED <<fds, r, w>>
    BY Zenon, <1>3 DEF L!x_process_terminate, L!Write
  <2>2. \A p \in L!Stages : state'[p] \in {"forked", "running"} => state'[p] = state[p]
    BY Zenon, <1>3 DEF L!x_process_terminate, L!Write, L!End, StagesInv, L!Stages, L!Children
  <2>3. QED
    BY Zenon, <2>1, <2>2, ConnectedKept
<1>4. ASSUME NEW p \in L!Stages, L!x_process_start(p)
      PROVE  ConnectedInv'
  BY Zenon, <1>4, ForkConnected
<1>5. ASSUME NEW p \in L!Stages, L!x_process_wait(p)
      PROVE  ConnectedInv'
  <2>1. UNCHANGED <<fds, r, w>>
    BY Zenon, <1>5 DEF L!x_process_wait
  <2>2. \A q \in L!Stages : state'[q] \in {"forked", "running"} => state'[q] = state[q]
    BY Zenon, <1>5 DEF L!x_process_wait, L!Reap, L!Taken, StagesInv, L!Stages, L!Children
  <2>3. QED
    BY Zenon, <2>1, <2>2, ConnectedKept
<1>6. ASSUME NEW p \in L!Children, L!Setup(p)
      PROVE  ConnectedInv'
  BY Zenon, <1>6, SetupConnected
<1>7. ASSUME NEW p \in L!Children, L!Finish(p) \/ L!Quit(p) \/ L!StatusTaken(p)
      PROVE  ConnectedInv'
  <2>1. UNCHANGED <<fds, r, w>>
    BY Zenon, <1>7 DEF L!Finish, L!Quit, L!StatusTaken
  <2>2. \A q \in L!Stages : state'[q] \in {"forked", "running"} => state'[q] = state[q]
    BY Zenon, <1>7 DEF L!Finish, L!Quit, L!StatusTaken, L!End, StagesInv, L!Stages,
         L!Children
  <2>3. QED
    BY Zenon, <2>1, <2>2, ConnectedKept
<1>8. CASE L!OtherStarts
  <2>1. UNCHANGED <<r, w>> /\ \A q \in L!Stages : state'[q] = state[q] /\ fds'[q] = fds[q]
    BY Zenon, <1>8 DEF L!OtherStarts, L!Fork, L!Stages, L!Children, StagesInv, TableInv
  <2>2. QED
    BY Zenon, <2>1, ConnectedKept
<1>9. CASE L!Read \/ L!Terminated \/ UNCHANGED L!vars
  BY Zenon, <1>9, ConnectedKept DEF L!Read, L!Terminated, L!vars, L!kernel
<1>10. QED
  BY Zenon, <1>1, <1>2, <1>3, <1>4, <1>5, <1>6, <1>7, <1>8, <1>9 DEF L!Next, L!Parent,
       L!Child

\* If the parent has its three standard descriptors open, then whichever of them the
\* options redirect, the program of the first stage has the write end of the pipe at
\* stdout, that of the second the read end at stdin, and neither has another.
THEOREM StagesAreConnected == StdOpen = 0 .. 2 /\ FairSpec => []StagesConnected
<1> DEFINE Inv == StdOpen = 0 .. 2 /\ TableInv /\ StagesInv /\ ConnectedInv
<1>1. StdOpen = 0 .. 2 /\ Init => Inv
  <2>1. Init => TableInv /\ StagesInv /\ \A p \in L!Stages : state[p] = "none"
    BY Zenon, PipelineInit DEF Init, StagesInv, L!Init, L!Children
  <2>2. (\A p \in L!Stages : state[p] = "none") => ConnectedInv
    BY Zenon DEF ConnectedInv, L!StagesConnected, L!Stages
  <2>3. QED
    BY Zenon, <2>1, <2>2
<1>2. Inv /\ [Next]_vars => Inv'
  BY Zenon, PipelineSteps, TableStep, StagesStep, ConnectedStep
<1>3. Inv => StagesConnected
  BY Zenon DEF ConnectedInv, StagesConnected
<1>4. QED
  BY <1>1, <1>2, <1>3, PTL DEF FairSpec

(***************************************************************************)
(* Induction, as statements about sets: a set of numbers or of sequences   *)
(* that has the first and with each the next has them all.                 *)
(***************************************************************************)
\* A set of numbers that is not empty has a least one.
LEMMA LeastNumber ==
    ASSUME NEW M \in SUBSET Nat, M # {}
    PROVE  \E k \in M : \A j \in M : k <= j
BY LeastExists, Zenon

\* Induction, as a statement about a set.
LEMMA NumbersByStep ==
    ASSUME NEW M, 0 \in M, \A k \in Nat : k \in M => k + 1 \in M
    PROVE  Nat \subseteq M
<1> DEFINE Bad == Nat \ M
<1>1. CASE Bad # {}
  <2>1. PICK k \in Bad : \A j \in Bad : k <= j
    BY <1>1, LeastNumber, Zenon
  <2>2. k \in Nat /\ k # 0 /\ k - 1 \in Nat /\ k - 1 < k /\ (k - 1) + 1 = k
    BY SMTT(60), SMTT(90), <2>1
  <2>3. k - 1 \notin Bad
    BY SMTT(60), SMTT(90), <2>1, <2>2
  <2>4. k \in M
    BY Zenon, <2>2, <2>3
  <2>5. QED
    BY Zenon, <2>1, <2>4
<1>2. CASE Bad = {}
  BY Zenon, <1>2
<1>3. QED
  BY Zenon, <1>1, <1>2

\* The same for sequences, which grow at their end.
LEMMA SequencesByStep ==
    ASSUME NEW S, NEW M, <<>> \in M,
           \A u \in Seq(S), c \in S : u \in M => Append(u, c) \in M
    PROVE  Seq(S) \subseteq M
<1> DEFINE Lengths == {k \in Nat : \A u \in Seq(S) : Len(u) = k => u \in M}
<1>1. 0 \in Lengths
  BY DEF Lengths
<1>2. ASSUME NEW k \in Nat, k \in Lengths
      PROVE  k + 1 \in Lengths
  <2>1. ASSUME NEW u \in Seq(S), Len(u) = k + 1
        PROVE  u \in M
    <3>1. /\ SubSeq(u, 1, k) \in Seq(S) /\ Len(SubSeq(u, 1, k)) = k /\ u[k + 1] \in S
          /\ u = Append(SubSeq(u, 1, k), u[k + 1])
      BY <2>1
    <3>2. SubSeq(u, 1, k) \in M
      BY <1>2, <3>1, Zenon
    <3>3. QED
      BY <3>1, <3>2, Zenon
  <2>2. QED
    BY SMTT(60), SMTT(90), <2>1
<1> HIDE DEF Lengths
<1>3. Nat \subseteq Lengths
  BY Zenon, <1>1, <1>2, NumbersByStep
<1>4. ASSUME NEW u \in Seq(S)
      PROVE  u \in M
  <2>1. Len(u) \in Lengths
    BY <1>3
  <2>2. QED
    BY Zenon, <2>1 DEF Lengths
<1>5. QED
  BY Zenon, <1>4

\* The steps of a loop lead from one state to another.
Trace(f, R, list) ==
    /\ f = [k \in 0 .. Len(list) |-> f[k]]
    /\ \A k \in 1 .. Len(list) : <<f[k - 1], list[k], f[k]>> \in R

\* R leads from start to end along the list.
Runs(R, start, list, end) ==
    \E f : Trace(f, R, list) /\ f[0] = start /\ f[Len(list)] = end

\* Nothing is done along the empty list.
LEMMA RunsNothing ==
    ASSUME NEW R, NEW s
    PROVE  Runs(R, s, <<>>, s)
<1> DEFINE f == [k \in 0 .. 0 |-> s]
<1>1. f[0] = s /\ f = [k \in 0 .. Len(<<>>) |-> f[k]]
  OBVIOUS
<1>2. \A k \in 1 .. Len(<<>>) : <<f[k - 1], <<>>[k], f[k]>> \in R
  OBVIOUS
<1>3. Trace(f, R, <<>>)
  BY Zenon, <1>1, <1>2 DEF Trace
<1> HIDE DEF f
<1>4. Len(<<>>) = 0
  OBVIOUS
<1>5. QED
  BY <1>1, <1>3, <1>4, Zenon DEF Runs

\* A run along one list and a run on from its end along another.
LEMMA RunsTogether ==
    ASSUME NEW R, NEW S, NEW a \in Seq(S), NEW b \in Seq(S), NEW s, NEW t, NEW u,
           Runs(R, s, a, t), Runs(R, t, b, u)
    PROVE  Runs(R, s, a \o b, u)
<1>1. PICK f : Trace(f, R, a) /\ f[0] = s /\ f[Len(a)] = t
  BY Zenon DEF Runs
<1>2. PICK g : Trace(g, R, b) /\ g[0] = t /\ g[Len(b)] = u
  BY Zenon DEF Runs
<1> DEFINE m == Len(a)
           n == Len(b)
           h == [k \in 0 .. m + n |-> IF k <= m THEN f[k] ELSE g[k - m]]
<1>3. /\ m \in Nat /\ n \in Nat /\ Len(a \o b) = m + n
      /\ \A k \in 1 .. m + n : (a \o b)[k] = IF k <= m THEN a[k] ELSE b[k - m]
  OBVIOUS
<1>4. ASSUME NEW k \in 1 .. m + n
      PROVE  <<h[k - 1], (a \o b)[k], h[k]>> \in R
  <2>1. CASE k <= m
    <3>1. h[k - 1] = f[k - 1] /\ h[k] = f[k] /\ (a \o b)[k] = a[k] /\ k \in 1 .. m
      BY SMTT(60), SMTT(90), <1>3, <2>1
    <3>2. QED
      BY <1>1, <3>1, Zenon DEF Trace
  <2>2. CASE k > m
    <3>1. h[k] = g[k - m] /\ (a \o b)[k] = b[k - m] /\ k - m \in 1 .. n
      BY SMTT(60), SMTT(90), <1>3, <2>2
    <3>2. h[k - 1] = g[(k - m) - 1]
      <4>1. CASE k - 1 = m
        BY SMTT(60), SMTT(90), <1>1, <1>2, <1>3, <4>1
      <4>2. CASE k - 1 > m
        BY SMTT(60), SMTT(90), <1>3, <4>2
      <4>3. QED
        BY SMTT(60), SMTT(90), <1>3, <2>2, <4>1, <4>2
    <3>3. QED
      BY <1>2, <3>1, <3>2, Zenon DEF Trace
  <2>3. k <= m \/ k > m
    BY SMTT(60), SMTT(90), <1>3
  <2>4. QED
    BY <2>1, <2>2, <2>3, Zenon
<1>5. h[0] = s /\ h[m + n] = u /\ h = [k \in 0 .. m + n |-> h[k]]
  <2>1. h[0] = s
    BY SMTT(60), SMTT(90), <1>1, <1>3
  <2>2. h[m + n] = u
    <3>1. CASE n = 0
      BY SMTT(60), SMTT(90), <1>1, <1>2, <1>3, <3>1
    <3>2. CASE n # 0
      BY SMTT(60), SMTT(90), <1>2, <1>3, <3>2
    <3>3. QED
      BY Zenon, <3>1, <3>2
  <2>3. QED
    BY Zenon, <2>1, <2>2
<1> HIDE DEF h
<1>6. Trace(h, R, a \o b)
  BY <1>3, <1>4, <1>5, Zenon DEF Trace
<1>7. QED
  BY <1>3, <1>5, <1>6, Zenon DEF Runs, m, n

\* One step is a run.
LEMMA RunsOne ==
    ASSUME NEW R, NEW s, NEW c, NEW t, <<s, c, t>> \in R
    PROVE  Runs(R, s, <<c>>, t)
<1> DEFINE f == [k \in 0 .. 1 |-> IF k = 0 THEN s ELSE t]
<1>1. f[0] = s /\ f[1] = t /\ f = [k \in 0 .. 1 |-> f[k]]
  OBVIOUS
<1> HIDE DEF f
<1>2. Len(<<c>>) = 1 /\ <<c>>[1] = c
  OBVIOUS
<1>3. Trace(f, R, <<c>>)
  BY <1>1, <1>2 DEF Trace
<1>4. QED
  BY <1>1, <1>2, <1>3, Zenon DEF Runs

\* One more element.
LEMMA RunsFurther ==
    ASSUME NEW R, NEW S, NEW a \in Seq(S), NEW c \in S, NEW s, NEW t, NEW u,
           Runs(R, s, a, t), <<t, c, u>> \in R
    PROVE  Runs(R, s, Append(a, c), u)
<1>1. Runs(R, t, <<c>>, u)
  BY RunsOne, Zenon
<1>2. <<c>> \in Seq(S) /\ Append(a, c) = a \o <<c>>
  OBVIOUS
<1>3. QED
  BY <1>1, <1>2, RunsTogether, Zenon

\* Traces that begin alike, and go on alike where they are alike, are the same.
Alike(f, g, n) ==
    /\ f = [k \in 0 .. n |-> f[k]] /\ g = [k \in 0 .. n |-> g[k]] /\ f[0] = g[0]
    /\ \A k \in 1 .. n : f[k - 1] = g[k - 1] => f[k] = g[k]

\* Two traces that begin alike and go on alike are the same.
LEMMA SameTrace ==
    ASSUME NEW n \in Nat, NEW f, NEW g, Alike(f, g, n)
    PROVE  f = g
<1> USE DEF Alike
<1> DEFINE M == {k \in Nat : k <= n => f[k] = g[k]}
<1>1. 0 \in M
  OBVIOUS
<1>2. ASSUME NEW k \in Nat, k \in M
      PROVE  k + 1 \in M
  <2>1. CASE k + 1 <= n
    <3>1. k + 1 \in 1 .. n /\ (k + 1) - 1 = k /\ k <= n
      BY SMTT(60), SMTT(90), <2>1
    <3>2. f[k] = g[k]
      BY Zenon, <1>2, <3>1
    <3>3. f[k + 1] = g[k + 1]
      BY <3>1, <3>2, Zenon
    <3>4. QED
      BY SMTT(60), SMTT(90), <3>3
  <2>2. CASE ~(k + 1 <= n)
    BY SMTT(60), SMTT(90), <2>2
  <2>3. QED
    BY Zenon, <2>1, <2>2
<1> HIDE DEF M
<1>3. Nat \subseteq M
  BY Zenon, <1>1, <1>2, NumbersByStep
<1>4. \A k \in 0 .. n : f[k] = g[k]
  BY <1>3 DEF M
<1>5. QED
  BY Zenon, <1>4

(***************************************************************************)
(* The loops.                                                              *)
(***************************************************************************)
\* The characters a command line is made of, whatever those of an argument are.
Alphabet == Chars \cup PathChars \cup {C!Quote, C!Backslash, C!Space, C!NUL}
Texts == Seq(Alphabet)

\* The steps of the loops, as relations: state, element, next state.
CountRel == {<<s, c, C!CountChar(s, c)>> : s \in [out : Nat, backslashes : Nat], c \in Alphabet}
PutRel == {<<s, c, C!PutChar(s, c)>> : s \in [out : Texts, backslashes : Nat], c \in Alphabet}
TakeRel == {<<s, c, C!TakeChar(s, c)>> :
               s \in [args : Seq(Texts), arg : Texts, backslashes : Nat, some : BOOLEAN,
                      quoted : BOOLEAN],
               c \in Alphabet}
MeasureArgumentRel == {<<n, v, C!MeasureArgument(n, v)>> : n \in Nat, v \in Texts}
PutArgumentRel == {<<u, v, C!PutArgument(u, v)>> : u \in Texts, v \in Texts}
MeasureVariableRel == {<<n, v, C!MeasureVariable(n, v)>> : n \in Nat, v \in Texts}
PutVariableRel == {<<u, v, C!PutVariable(u, v)>> : u \in Texts, v \in Texts}

\* The loop of x_process_quoted_length.
LEMMA CountLoop ==
    ASSUME NEW S, NEW list \in Seq(S), NEW s, NEW t, Runs(CountRel, s, list, t)
    PROVE  C!Loop(C!CountChar, s, list) = t
<1>1. PICK f : Trace(f, CountRel, list) /\ f[0] = s /\ f[Len(list)] = t
  BY Zenon DEF Runs
<1> DEFINE n == Len(list)
           Follows(g) == g = [k \in 0 .. n |->
                                 IF k = 0 THEN s ELSE C!CountChar(g[k - 1], list[k])]
           after == CHOOSE g : Follows(g)
<1>2. n \in Nat
  OBVIOUS
<1>3. \A k \in 1 .. n : f[k] = C!CountChar(f[k - 1], list[k])
  BY <1>1 DEF Trace, CountRel
<1>4. f = [k \in 0 .. n |-> f[k]]
  BY <1>1, Zenon DEF Trace
<1>5. C!Loop(C!CountChar, s, list) = after[n]
  BY Zenon DEF C!Loop
<1> HIDE DEF n
<1>6. Follows(f)
  <2>1. ASSUME NEW k \in 0 .. n
        PROVE  f[k] = IF k = 0 THEN s ELSE C!CountChar(f[k - 1], list[k])
    BY SMTT(60), SMTT(90), <1>1, <1>2, <1>3
  <2>2. QED
    BY <1>4, <2>1, Zenon
<1>7. Follows(after)
  BY <1>6, Zenon
<1> HIDE DEF after
<1>8. /\ after = [k \in 0 .. n |-> after[k]] /\ after[0] = f[0]
      /\ \A k \in 1 .. n : after[k] = C!CountChar(after[k - 1], list[k])
  BY SMTT(60), SMTT(90), <1>1, <1>2, <1>7
<1>9. Alike(after, f, n)
  BY <1>3, <1>4, <1>8, Zenon DEF Alike
<1>10. after = f
  BY <1>2, <1>9, SameTrace, ZenonT(60)
<1>11. QED
  BY <1>1, <1>5, <1>10, Zenon DEF n

\* The loop of x_process_append_quoted.
LEMMA PutLoop ==
    ASSUME NEW S, NEW list \in Seq(S), NEW s, NEW t, Runs(PutRel, s, list, t)
    PROVE  C!Loop(C!PutChar, s, list) = t
<1>1. PICK f : Trace(f, PutRel, list) /\ f[0] = s /\ f[Len(list)] = t
  BY Zenon DEF Runs
<1> DEFINE n == Len(list)
           Follows(g) == g = [k \in 0 .. n |->
                                 IF k = 0 THEN s ELSE C!PutChar(g[k - 1], list[k])]
           after == CHOOSE g : Follows(g)
<1>2. n \in Nat
  OBVIOUS
<1>3. \A k \in 1 .. n : f[k] = C!PutChar(f[k - 1], list[k])
  BY SMTT(60), SMTT(90), <1>1 DEF Trace, PutRel
<1>4. f = [k \in 0 .. n |-> f[k]]
  BY <1>1, Zenon DEF Trace
<1>5. C!Loop(C!PutChar, s, list) = after[n]
  BY Zenon DEF C!Loop
<1> HIDE DEF n
<1>6. Follows(f)
  <2>1. ASSUME NEW k \in 0 .. n
        PROVE  f[k] = IF k = 0 THEN s ELSE C!PutChar(f[k - 1], list[k])
    BY <1>1, <1>2, <1>3
  <2>2. QED
    BY <1>4, <2>1, Zenon
<1>7. Follows(after)
  BY <1>6, Zenon
<1> HIDE DEF after
<1>8. /\ after = [k \in 0 .. n |-> after[k]] /\ after[0] = f[0]
      /\ \A k \in 1 .. n : after[k] = C!PutChar(after[k - 1], list[k])
  BY <1>1, <1>2, <1>7
<1>9. Alike(after, f, n)
  BY <1>3, <1>4, <1>8, Zenon DEF Alike
<1>10. after = f
  BY <1>2, <1>9, SameTrace, Zenon
<1>11. QED
  BY <1>1, <1>5, <1>10, Zenon DEF n

\* The loop of the child's runtime.
LEMMA TakeLoop ==
    ASSUME NEW S, NEW list \in Seq(S), NEW s, NEW t, Runs(TakeRel, s, list, t)
    PROVE  C!Loop(C!TakeChar, s, list) = t
<1>1. PICK f : Trace(f, TakeRel, list) /\ f[0] = s /\ f[Len(list)] = t
  BY Zenon DEF Runs
<1> DEFINE n == Len(list)
           Follows(g) == g = [k \in 0 .. n |->
                                 IF k = 0 THEN s ELSE C!TakeChar(g[k - 1], list[k])]
           after == CHOOSE g : Follows(g)
<1>2. n \in Nat
  OBVIOUS
<1>3. \A k \in 1 .. n : f[k] = C!TakeChar(f[k - 1], list[k])
  BY SMTT(60), SMTT(90), <1>1 DEF Trace, TakeRel
<1>4. f = [k \in 0 .. n |-> f[k]]
  BY <1>1, Zenon DEF Trace
<1>5. C!Loop(C!TakeChar, s, list) = after[n]
  BY Zenon DEF C!Loop
<1> HIDE DEF n
<1>6. Follows(f)
  <2>1. ASSUME NEW k \in 0 .. n
        PROVE  f[k] = IF k = 0 THEN s ELSE C!TakeChar(f[k - 1], list[k])
    BY <1>1, <1>2, <1>3
  <2>2. QED
    BY <1>4, <2>1, Zenon
<1>7. Follows(after)
  BY <1>6, Zenon
<1> HIDE DEF after
<1>8. /\ after = [k \in 0 .. n |-> after[k]] /\ after[0] = f[0]
      /\ \A k \in 1 .. n : after[k] = C!TakeChar(after[k - 1], list[k])
  BY <1>1, <1>2, <1>7
<1>9. Alike(after, f, n)
  BY <1>3, <1>4, <1>8, Zenon DEF Alike
<1>10. after = f
  BY <1>2, <1>9, SameTrace, Zenon
<1>11. QED
  BY <1>1, <1>5, <1>10, Zenon DEF n

\* The loops of x_process_build_command_line, over the arguments.
LEMMA MeasureArgumentLoop ==
    ASSUME NEW S, NEW list \in Seq(S), NEW s, NEW t, Runs(MeasureArgumentRel, s, list, t)
    PROVE  C!Loop(C!MeasureArgument, s, list) = t
<1>1. PICK f : Trace(f, MeasureArgumentRel, list) /\ f[0] = s /\ f[Len(list)] = t
  BY Zenon DEF Runs
<1> DEFINE n == Len(list)
           Follows(g) == g = [k \in 0 .. n |->
                                 IF k = 0 THEN s ELSE C!MeasureArgument(g[k - 1], list[k])]
           after == CHOOSE g : Follows(g)
<1>2. n \in Nat
  OBVIOUS
<1>3. \A k \in 1 .. n : f[k] = C!MeasureArgument(f[k - 1], list[k])
  BY SMTT(60), SMTT(90), <1>1 DEF Trace, MeasureArgumentRel
<1>4. f = [k \in 0 .. n |-> f[k]]
  BY <1>1, Zenon DEF Trace
<1>5. C!Loop(C!MeasureArgument, s, list) = after[n]
  BY Zenon DEF C!Loop
<1> HIDE DEF n
<1>6. Follows(f)
  <2>1. ASSUME NEW k \in 0 .. n
        PROVE  f[k] = IF k = 0 THEN s ELSE C!MeasureArgument(f[k - 1], list[k])
    BY <1>1, <1>2, <1>3
  <2>2. QED
    BY <1>4, <2>1, Zenon
<1>7. Follows(after)
  BY <1>6, Zenon
<1> HIDE DEF after
<1>8. /\ after = [k \in 0 .. n |-> after[k]] /\ after[0] = f[0]
      /\ \A k \in 1 .. n : after[k] = C!MeasureArgument(after[k - 1], list[k])
  BY <1>1, <1>2, <1>7
<1>9. Alike(after, f, n)
  BY <1>3, <1>4, <1>8, Zenon DEF Alike
<1>10. after = f
  BY <1>2, <1>9, SameTrace, Zenon
<1>11. QED
  BY <1>1, <1>5, <1>10, Zenon DEF n

\* The second of them.
LEMMA PutArgumentLoop ==
    ASSUME NEW S, NEW list \in Seq(S), NEW s, NEW t, Runs(PutArgumentRel, s, list, t)
    PROVE  C!Loop(C!PutArgument, s, list) = t
<1>1. PICK f : Trace(f, PutArgumentRel, list) /\ f[0] = s /\ f[Len(list)] = t
  BY Zenon DEF Runs
<1> DEFINE n == Len(list)
           Follows(g) == g = [k \in 0 .. n |->
                                 IF k = 0 THEN s ELSE C!PutArgument(g[k - 1], list[k])]
           after == CHOOSE g : Follows(g)
<1>2. n \in Nat
  OBVIOUS
<1>3. \A k \in 1 .. n : f[k] = C!PutArgument(f[k - 1], list[k])
  BY SMTT(60), SMTT(90), <1>1 DEF Trace, PutArgumentRel
<1>4. f = [k \in 0 .. n |-> f[k]]
  BY <1>1, Zenon DEF Trace
<1>5. C!Loop(C!PutArgument, s, list) = after[n]
  BY Zenon DEF C!Loop
<1> HIDE DEF n
<1>6. Follows(f)
  <2>1. ASSUME NEW k \in 0 .. n
        PROVE  f[k] = IF k = 0 THEN s ELSE C!PutArgument(f[k - 1], list[k])
    BY <1>1, <1>2, <1>3
  <2>2. QED
    BY <1>4, <2>1, Zenon
<1>7. Follows(after)
  BY <1>6, Zenon
<1> HIDE DEF after
<1>8. /\ after = [k \in 0 .. n |-> after[k]] /\ after[0] = f[0]
      /\ \A k \in 1 .. n : after[k] = C!PutArgument(after[k - 1], list[k])
  BY <1>1, <1>2, <1>7
<1>9. Alike(after, f, n)
  BY <1>3, <1>4, <1>8, Zenon DEF Alike
<1>10. after = f
  BY <1>2, <1>9, SameTrace, Zenon
<1>11. QED
  BY <1>1, <1>5, <1>10, Zenon DEF n

\* The loops of x_process_build_environment_block, over the variables.
LEMMA MeasureVariableLoop ==
    ASSUME NEW S, NEW list \in Seq(S), NEW s, NEW t, Runs(MeasureVariableRel, s, list, t)
    PROVE  C!Loop(C!MeasureVariable, s, list) = t
<1>1. PICK f : Trace(f, MeasureVariableRel, list) /\ f[0] = s /\ f[Len(list)] = t
  BY Zenon DEF Runs
<1> DEFINE n == Len(list)
           Follows(g) == g = [k \in 0 .. n |->
                                 IF k = 0 THEN s ELSE C!MeasureVariable(g[k - 1], list[k])]
           after == CHOOSE g : Follows(g)
<1>2. n \in Nat
  OBVIOUS
<1>3. \A k \in 1 .. n : f[k] = C!MeasureVariable(f[k - 1], list[k])
  BY <1>1 DEF Trace, MeasureVariableRel
<1>4. f = [k \in 0 .. n |-> f[k]]
  BY <1>1, Zenon DEF Trace
<1>5. C!Loop(C!MeasureVariable, s, list) = after[n]
  BY Zenon DEF C!Loop
<1> HIDE DEF n
<1>6. Follows(f)
  <2>1. ASSUME NEW k \in 0 .. n
        PROVE  f[k] = IF k = 0 THEN s ELSE C!MeasureVariable(f[k - 1], list[k])
    BY <1>1, <1>2, <1>3
  <2>2. QED
    BY <1>4, <2>1, Zenon
<1>7. Follows(after)
  BY <1>6, Zenon
<1> HIDE DEF after
<1>8. /\ after = [k \in 0 .. n |-> after[k]] /\ after[0] = f[0]
      /\ \A k \in 1 .. n : after[k] = C!MeasureVariable(after[k - 1], list[k])
  BY <1>1, <1>2, <1>7
<1>9. Alike(after, f, n)
  BY <1>3, <1>4, <1>8, Zenon DEF Alike
<1>10. after = f
  BY <1>2, <1>9, SameTrace, Zenon
<1>11. QED
  BY <1>1, <1>5, <1>10, Zenon DEF n

\* The second of them.
LEMMA PutVariableLoop ==
    ASSUME NEW S, NEW list \in Seq(S), NEW s, NEW t, Runs(PutVariableRel, s, list, t)
    PROVE  C!Loop(C!PutVariable, s, list) = t
<1>1. PICK f : Trace(f, PutVariableRel, list) /\ f[0] = s /\ f[Len(list)] = t
  BY Zenon DEF Runs
<1> DEFINE n == Len(list)
           Follows(g) == g = [k \in 0 .. n |->
                                 IF k = 0 THEN s ELSE C!PutVariable(g[k - 1], list[k])]
           after == CHOOSE g : Follows(g)
<1>2. n \in Nat
  OBVIOUS
<1>3. \A k \in 1 .. n : f[k] = C!PutVariable(f[k - 1], list[k])
  BY <1>1 DEF Trace, PutVariableRel
<1>4. f = [k \in 0 .. n |-> f[k]]
  BY <1>1, Zenon DEF Trace
<1>5. C!Loop(C!PutVariable, s, list) = after[n]
  BY Zenon DEF C!Loop
<1> HIDE DEF n
<1>6. Follows(f)
  <2>1. ASSUME NEW k \in 0 .. n
        PROVE  f[k] = IF k = 0 THEN s ELSE C!PutVariable(f[k - 1], list[k])
    BY <1>1, <1>2, <1>3
  <2>2. QED
    BY <1>4, <2>1, Zenon
<1>7. Follows(after)
  BY <1>6, Zenon
<1> HIDE DEF after
<1>8. /\ after = [k \in 0 .. n |-> after[k]] /\ after[0] = f[0]
      /\ \A k \in 1 .. n : after[k] = C!PutVariable(after[k - 1], list[k])
  BY <1>1, <1>2, <1>7
<1>9. Alike(after, f, n)
  BY <1>3, <1>4, <1>8, Zenon DEF Alike
<1>10. after = f
  BY <1>2, <1>9, SameTrace, Zenon
<1>11. QED
  BY <1>1, <1>5, <1>10, Zenon DEF n

(***************************************************************************)
(* One argument.                                                           *)
(***************************************************************************)
LEMMA Repeated ==
    ASSUME NEW n \in Nat
    PROVE  /\ C!Repeat(C!Backslash, n) \in Texts /\ Len(C!Repeat(C!Backslash, n)) = n
           /\ C!Repeat(C!Backslash, 0) = <<>>
           /\ C!Repeat(C!Backslash, n + 1) = Append(C!Repeat(C!Backslash, n), C!Backslash)
<1>1. C!Backslash \in Alphabet
  BY Zenon DEF Alphabet
<1>2. C!Repeat(C!Backslash, n) \in Texts /\ Len(C!Repeat(C!Backslash, n)) = n
  BY SMTT(60), SMTT(90), <1>1 DEF C!Repeat, Texts
<1>3. C!Repeat(C!Backslash, 0) = <<>>
  BY SMTT(60), SMTT(90) DEF C!Repeat
<1>4. C!Repeat(C!Backslash, n + 1) = Append(C!Repeat(C!Backslash, n), C!Backslash)
  BY DEF C!Repeat
<1>5. QED
  BY Zenon, <1>2, <1>3, <1>4

\* The letters that count.
LEMMA Letters ==
    /\ Chars \subseteq Alphabet
    /\ {C!Quote, C!Backslash, C!Space, C!NUL} \subseteq Alphabet
    /\ C!Quote # C!Backslash
    /\ C!Space # C!Quote /\ C!Space # C!Backslash
    /\ C!NUL # C!Quote /\ C!NUL # C!Backslash
BY Zenon DEF Alphabet, C!Quote, C!Backslash, C!Space, C!NUL

\* A step of each of the loops over a string.
LEMMA CountSteps ==
    ASSUME NEW len \in Nat, NEW n \in Nat, NEW c \in Alphabet
    PROVE  /\ c = C!Backslash => <<C!Advance(len, n), c, C!Advance(len + 1, n + 1)>> \in CountRel
           /\ c = C!Quote => <<C!Advance(len, n), c, C!Advance(len + n + 2, 0)>> \in CountRel
           /\ c \notin {C!Backslash, C!Quote} =>
                  <<C!Advance(len, n), c, C!Advance(len + 1, 0)>> \in CountRel
<1> DEFINE s == C!Advance(len, n)
<1>1. s \in [out : Nat, backslashes : Nat] /\ s.out = len /\ s.backslashes = n
  BY Zenon DEF C!Advance
<1> HIDE DEF s
<1>2. <<s, c, C!CountChar(s, c)>> \in CountRel
  BY SMTT(60), SMTT(90), <1>1 DEF CountRel
<1>3. /\ c = C!Backslash => C!CountChar(s, c) = C!Advance(len + 1, n + 1)
      /\ c = C!Quote => C!CountChar(s, c) = C!Advance(len + n + 2, 0)
      /\ c \notin {C!Backslash, C!Quote} => C!CountChar(s, c) = C!Advance(len + 1, 0)
  BY Zenon, <1>1, Letters DEF C!CountChar
<1>4. QED
  BY <1>2, <1>3, Zenon DEF s

\* A step of the loop of x_process_append_quoted.
LEMMA PutSteps ==
    ASSUME NEW u \in Texts, NEW n \in Nat, NEW c \in Alphabet
    PROVE  /\ c = C!Backslash => <<C!Advance(u, n), c, C!Advance(Append(u, c), n + 1)>> \in PutRel
           /\ c = C!Quote =>
                  <<C!Advance(u, n), c,
                    C!Advance(u \o C!Repeat(C!Backslash, n + 1) \o <<C!Quote>>, 0)>> \in PutRel
           /\ c \notin {C!Backslash, C!Quote} =>
                  <<C!Advance(u, n), c, C!Advance(Append(u, c), 0)>> \in PutRel
<1> DEFINE s == C!Advance(u, n)
<1>1. s \in [out : Texts, backslashes : Nat] /\ s.out = u /\ s.backslashes = n
  BY Zenon DEF C!Advance
<1> HIDE DEF s
<1>2. <<s, c, C!PutChar(s, c)>> \in PutRel
  BY <1>1 DEF PutRel
<1>3. /\ c = C!Backslash => C!PutChar(s, c) = C!Advance(Append(u, c), n + 1)
      /\ c = C!Quote =>
             C!PutChar(s, c) = C!Advance(u \o C!Repeat(C!Backslash, n + 1) \o <<C!Quote>>, 0)
      /\ c \notin {C!Backslash, C!Quote} => C!PutChar(s, c) = C!Advance(Append(u, c), 0)
  BY <1>1, Letters, Zenon DEF C!PutChar
<1>4. QED
  BY <1>2, <1>3, Zenon DEF s

\* A step of the child that reads its command line.
LEMMA TakeSteps ==
    ASSUME NEW A \in Seq(Texts), NEW x \in Texts, NEW n \in Nat, NEW some \in BOOLEAN,
           NEW quoted \in BOOLEAN, NEW c \in Alphabet
    PROVE  /\ c = C!Backslash =>
                  <<C!Reading(A, x, n, some, quoted), c,
                    C!Reading(A, x, n + 1, some, quoted)>> \in TakeRel
           /\ c = C!Quote /\ n % 2 = 1 =>
                  <<C!Reading(A, x, n, some, quoted), c,
                    C!Reading(A, Append(x \o C!Repeat(C!Backslash, n \div 2), C!Quote), 0, TRUE, quoted)>>
                        \in TakeRel
           /\ c = C!Quote /\ n % 2 # 1 =>
                  <<C!Reading(A, x, n, some, quoted), c,
                    C!Reading(A, x \o C!Repeat(C!Backslash, n \div 2), 0, TRUE, ~quoted)>>
                        \in TakeRel
           /\ c \notin {C!Backslash, C!Quote} /\ quoted = TRUE =>
                  <<C!Reading(A, x, n, some, quoted), c,
                    C!Reading(A, Append(x \o C!Repeat(C!Backslash, n), c), 0, TRUE, quoted)>>
                        \in TakeRel
           /\ c \in {C!Space, C!NUL} /\ n = 0 /\ quoted = FALSE /\ some = TRUE =>
                  <<C!Reading(A, x, n, some, quoted), c,
                    C!Reading(Append(A, x \o C!Repeat(C!Backslash, 0)), <<>>, 0, FALSE, FALSE)>>
                        \in TakeRel
           /\ c \in {C!Space, C!NUL} /\ n = 0 /\ quoted = FALSE /\ some = FALSE =>
                  <<C!Reading(A, x, n, some, quoted), c,
                    C!Reading(A, <<>>, 0, FALSE, FALSE)>> \in TakeRel
<1> DEFINE s == C!Reading(A, x, n, some, quoted)
<1>1. /\ s \in [args : Seq(Texts), arg : Texts, backslashes : Nat, some : BOOLEAN, quoted : BOOLEAN]
      /\ s.args = A /\ s.arg = x /\ s.backslashes = n /\ s.some = some /\ s.quoted = quoted
  BY Zenon DEF C!Reading
<1> HIDE DEF s
<1>2. <<s, c, C!TakeChar(s, c)>> \in TakeRel
  BY SMTT(60), SMTT(90), <1>1 DEF TakeRel
<1>3. c = C!Backslash => C!TakeChar(s, c) = C!Reading(A, x, n + 1, some, quoted)
  BY <1>1, Letters, Zenon DEF C!TakeChar
<1>4. c = C!Quote /\ n % 2 = 1 =>
          C!TakeChar(s, c) =
              C!Reading(A, Append(x \o C!Repeat(C!Backslash, n \div 2), C!Quote), 0, TRUE, quoted)
  BY <1>1, Letters, Zenon DEF C!TakeChar
<1>5. c = C!Quote /\ n % 2 # 1 =>
          C!TakeChar(s, c) = C!Reading(A, x \o C!Repeat(C!Backslash, n \div 2), 0, TRUE, ~quoted)
  BY <1>1, Letters, Zenon DEF C!TakeChar
<1>6. c \notin {C!Backslash, C!Quote} /\ quoted = TRUE =>
          C!TakeChar(s, c) =
              C!Reading(A, Append(x \o C!Repeat(C!Backslash, n), c), 0, TRUE, quoted)
  BY <1>1, Letters, Zenon DEF C!TakeChar
<1>7. ~(0 > 0)
  OBVIOUS
<1>8. c \in {C!Space, C!NUL} /\ n = 0 /\ quoted = FALSE /\ some = TRUE =>
          C!TakeChar(s, c) =
              C!Reading(Append(A, x \o C!Repeat(C!Backslash, 0)), <<>>, 0, FALSE, FALSE)
  BY <1>1, Letters, Zenon DEF C!TakeChar
<1>9. c \in {C!Space, C!NUL} /\ n = 0 /\ quoted = FALSE /\ some = FALSE =>
          C!TakeChar(s, c) = C!Reading(A, <<>>, 0, FALSE, FALSE)
  BY <1>1, <1>7, Letters, Zenon DEF C!TakeChar
<1>10. QED
  BY <1>2, <1>3, <1>4, <1>5, <1>6, <1>8, <1>9, ZenonT(60) DEF s

\* Backslashes wait for what comes after them.
LEMMA TakeBackslashes ==
    ASSUME NEW A \in Seq(Texts), NEW x \in Texts, NEW n \in Nat, NEW m \in Nat
    PROVE  Runs(TakeRel, C!Reading(A, x, n, TRUE, TRUE), C!Repeat(C!Backslash, m),
                C!Reading(A, x, n + m, TRUE, TRUE))
<1> DEFINE f == [k \in 0 .. m |-> C!Reading(A, x, n + k, TRUE, TRUE)]
           text == C!Repeat(C!Backslash, m)
<1>1. Len(text) = m /\ \A k \in 1 .. m : text[k] = C!Backslash
  BY Zenon, Repeated DEF C!Repeat
<1> HIDE DEF text
<1>2. ASSUME NEW k \in 1 .. m
      PROVE  <<f[k - 1], text[k], f[k]>> \in TakeRel
  <2>1. /\ f[k - 1] = C!Reading(A, x, n + k - 1, TRUE, TRUE)
        /\ f[k] = C!Reading(A, x, n + k - 1 + 1, TRUE, TRUE)
    OBVIOUS
  <2>2. n + k - 1 \in Nat
    OBVIOUS
  <2> HIDE DEF f
  <2>3. <<C!Reading(A, x, n + k - 1, TRUE, TRUE), C!Backslash,
          C!Reading(A, x, n + k - 1 + 1, TRUE, TRUE)>> \in TakeRel
    BY <2>2, TakeSteps, Letters, Zenon
  <2>4. QED
    BY <1>1, <2>1, <2>3, Zenon
<1>3. /\ f = [k \in 0 .. m |-> f[k]] /\ f[0] = C!Reading(A, x, n, TRUE, TRUE)
      /\ f[m] = C!Reading(A, x, n + m, TRUE, TRUE)
  OBVIOUS
<1> HIDE DEF f
<1>4. Trace(f, TakeRel, text)
  BY <1>1, <1>2, <1>3, Zenon DEF Trace
<1>5. QED
  BY <1>1, <1>3, <1>4, Zenon DEF Runs, text

\* Texts put together.
LEMMA TextsJoin ==
    ASSUME NEW a \in Texts, NEW b \in Texts
    PROVE  a \o b \in Texts /\ Len(a \o b) = Len(a) + Len(b)
BY DEF Texts

\* a, b and c may be put together from either side.
Regroups(a, b, c) == (a \o b) \o c = a \o (b \o c)

\* Texts are put together from the left as from the right.
LEMMA TextsRegroup == \A a \in Texts, b \in Texts, c \in Texts : Regroups(a, b, c)
BY SMTT(60), SMTT(90) DEF Texts, Regroups

\* A text and one more character.
LEMMA TextsGrow ==
    ASSUME NEW a \in Texts, NEW c \in Alphabet
    PROVE  /\ Append(a, c) = a \o <<c>> /\ Append(a, c) \in Texts
           /\ <<c>> \in Texts /\ Len(<<c>>) = 1
BY DEF Texts

\* Between the quotes of an argument.
Open(A, x, n) == C!Reading(A, x, n, TRUE, TRUE)

\* The loops over the string v write o and count len; n backslashes are at the end
\* of v, after x; and the child that reads o has read x and still has the n
\* backslashes.
Writes(v, o, len, n, x) ==
    /\ \A u \in Texts : Runs(PutRel, C!Advance(u, 0), v, C!Advance(u \o o, n))
    /\ Runs(CountRel, C!Advance(2, 0), v, C!Advance(len, n))
    /\ len = Len(o) + 2
    /\ v = x \o C!Repeat(C!Backslash, n)
    /\ \A A \in Seq(Texts) : Runs(TakeRel, Open(A, <<>>, 0), o, Open(A, x, n))

\* Of the empty string nothing is written.
LEMMA WritesNothing == Writes(<<>>, <<>>, 2, 0, <<>>)
<1>1. ASSUME NEW u \in Texts
      PROVE  Runs(PutRel, C!Advance(u, 0), <<>>, C!Advance(u \o <<>>, 0))
  <2>1. u \o <<>> = u
    BY DEF Texts
  <2>2. QED
    BY <2>1, RunsNothing, Zenon
<1>2. Runs(CountRel, C!Advance(2, 0), <<>>, C!Advance(2, 0))
  BY RunsNothing, Zenon
<1>3. 2 = Len(<<>>) + 2 /\ 0 \in Nat
  OBVIOUS
<1>4. <<>> = <<>> \o C!Repeat(C!Backslash, 0)
  <2>1. C!Repeat(C!Backslash, 0) = <<>>
    BY <1>3, Repeated, Zenon
  <2>2. QED
    BY <2>1
<1>5. \A A \in Seq(Texts) : Runs(TakeRel, Open(A, <<>>, 0), <<>>, Open(A, <<>>, 0))
  BY RunsNothing, Zenon
<1>6. QED
  BY <1>1, <1>2, <1>3, <1>4, <1>5, Zenon DEF Writes

\* One more character, whatever each loop does with it.
LEMMA WritesFurther ==
    ASSUME NEW v \in Texts, NEW o \in Texts, NEW len \in Nat, NEW n \in Nat, NEW x \in Texts,
           Writes(v, o, len, n, x), NEW c \in Alphabet,
           NEW p \in Texts, NEW l \in Nat, NEW m \in Nat, NEW y \in Texts,
           \A u \in Texts : <<C!Advance(u, n), c, C!Advance(u \o p, m)>> \in PutRel,
           <<C!Advance(len, n), c, C!Advance(l, m)>> \in CountRel,
           l = len + Len(p), Append(v, c) = y \o C!Repeat(C!Backslash, m),
           \A A \in Seq(Texts) : Runs(TakeRel, Open(A, x, n), p, Open(A, y, m))
    PROVE  Writes(Append(v, c), o \o p, l, m, y)
<1>1. ASSUME NEW u \in Texts
      PROVE  Runs(PutRel, C!Advance(u, 0), Append(v, c), C!Advance(u \o (o \o p), m))
  <2>1. u \o o \in Texts /\ Regroups(u, o, p)
    BY TextsJoin, TextsRegroup, Zenon
  <2>2. Runs(PutRel, C!Advance(u, 0), v, C!Advance(u \o o, n))
    BY Zenon DEF Writes
  <2>3. <<C!Advance(u \o o, n), c, C!Advance(u \o (o \o p), m)>> \in PutRel
    BY <2>1, Zenon DEF Regroups
  <2>4. v \in Seq(Alphabet)
    BY Zenon DEF Texts
  <2>5. QED
    BY <2>2, <2>3, <2>4, RunsFurther, Zenon
<1>2. Runs(CountRel, C!Advance(2, 0), Append(v, c), C!Advance(l, m))
  <2>1. Runs(CountRel, C!Advance(2, 0), v, C!Advance(len, n)) /\ v \in Seq(Alphabet)
    BY Zenon DEF Writes, Texts
  <2>2. QED
    BY <2>1, RunsFurther, Zenon
<1>3. l = Len(o \o p) + 2
  <2>1. len = Len(o) + 2
    BY Zenon DEF Writes
  <2>2. Len(o \o p) = Len(o) + Len(p) /\ Len(o) \in Nat /\ Len(p) \in Nat
    BY SMTT(60), SMTT(90) DEF Texts
  <2>3. QED
    BY <2>1, <2>2
<1>4. ASSUME NEW A \in Seq(Texts)
      PROVE  Runs(TakeRel, Open(A, <<>>, 0), o \o p, Open(A, y, m))
  <2>1. /\ Runs(TakeRel, Open(A, <<>>, 0), o, Open(A, x, n))
        /\ o \in Seq(Alphabet) /\ p \in Seq(Alphabet)
    BY Zenon DEF Writes, Texts
  <2>2. QED
    BY <2>1, RunsTogether, Zenon
<1>5. QED
  BY <1>1, <1>2, <1>3, <1>4, Zenon DEF Writes

\* One character of the text, read between quotes.
LEMMA OpenReads ==
    ASSUME NEW x \in Texts, NEW n \in Nat, NEW c \in Alphabet, NEW A \in Seq(Texts)
    PROVE  /\ c = C!Backslash => Runs(TakeRel, Open(A, x, n), <<c>>, Open(A, x, n + 1))
           /\ c \notin {C!Backslash, C!Quote} =>
                  Runs(TakeRel, Open(A, x, n), <<c>>,
                       Open(A, Append(x \o C!Repeat(C!Backslash, n), c), 0))
           /\ c = C!Quote => Runs(TakeRel, Open(A, x, n), C!Repeat(C!Backslash, n + 1) \o <<C!Quote>>,
                                Open(A, Append(x \o C!Repeat(C!Backslash, n), c), 0))
<1>1. TRUE \in BOOLEAN
  OBVIOUS
<1>2. CASE c = C!Backslash
  <2>1. <<Open(A, x, n), c, Open(A, x, n + 1)>> \in TakeRel
    BY <1>1, <1>2, TakeSteps, Zenon DEF Open
  <2>2. QED
    BY <1>2, <2>1, RunsOne, Letters, Zenon
<1>3. CASE c \notin {C!Backslash, C!Quote}
  <2>1. <<Open(A, x, n), c, Open(A, Append(x \o C!Repeat(C!Backslash, n), c), 0)>> \in TakeRel
    BY <1>1, <1>3, TakeSteps, Zenon DEF Open
  <2>2. QED
    BY <1>3, <2>1, RunsOne, Zenon
<1>4. CASE c = C!Quote
  <2>1. /\ n + 1 \in Nat /\ n + (n + 1) \in Nat /\ (n + (n + 1)) % 2 = 1
        /\ (n + (n + 1)) \div 2 = n
    OBVIOUS
  <2>2. Runs(TakeRel, Open(A, x, n), C!Repeat(C!Backslash, n + 1), Open(A, x, n + (n + 1)))
    BY <2>1, TakeBackslashes, Zenon DEF Open
  <2>3. <<Open(A, x, n + (n + 1)), C!Quote,
          Open(A, Append(x \o C!Repeat(C!Backslash, n), c), 0)>> \in TakeRel
    <3> DEFINE k == n + (n + 1)
    <3>1. k \in Nat /\ k % 2 = 1 /\ k \div 2 = n
      BY Zenon, <2>1
    <3> HIDE DEF k
    <3>2. <<Open(A, x, k), C!Quote,
            Open(A, Append(x \o C!Repeat(C!Backslash, k \div 2), C!Quote), 0)>> \in TakeRel
      BY <1>1, <3>1, TakeSteps, Letters, Zenon DEF Open
    <3>3. QED
      BY <1>4, <3>1, <3>2, Zenon DEF k
  <2>4. Runs(TakeRel, Open(A, x, n + (n + 1)), <<C!Quote>>,
             Open(A, Append(x \o C!Repeat(C!Backslash, n), c), 0))
    BY <2>3, RunsOne, Zenon
  <2>5. C!Repeat(C!Backslash, n + 1) \in Seq(Alphabet) /\ <<C!Quote>> \in Seq(Alphabet)
    <3>1. C!Repeat(C!Backslash, n + 1) \in Seq(Alphabet)
      BY <2>1, Repeated, Zenon DEF Texts
    <3>2. <<C!Quote>> \in Seq(Alphabet)
      BY Letters
    <3>3. QED
      BY Zenon, <3>1, <3>2
  <2>6. Runs(TakeRel, Open(A, x, n), C!Repeat(C!Backslash, n + 1) \o <<C!Quote>>,
             Open(A, Append(x \o C!Repeat(C!Backslash, n), c), 0))
    BY <2>2, <2>4, <2>5, RunsTogether, Zenon
  <2>7. QED
    BY <1>4, <2>6, Letters, Zenon
<1>5. QED
  BY <1>2, <1>3, <1>4, Zenon

\* Every string is written so that the child reads it.
LEMMA EveryStringWritten ==
    ASSUME NEW v \in Texts
    PROVE  \E o \in Texts, len \in Nat, n \in Nat, x \in Texts : Writes(v, o, len, n, x)
<1> DEFINE Good(z) == \E o \in Texts, len \in Nat, n \in Nat, x \in Texts : Writes(z, o, len, n, x)
           M == {z \in Texts : Good(z)}
<1>1. <<>> \in M
  <2>1. <<>> \in Texts /\ 2 \in Nat /\ 0 \in Nat
    BY DEF Texts
  <2>2. QED
    BY <2>1, WritesNothing, Zenon
<1>2. ASSUME NEW z \in Seq(Alphabet), NEW c \in Alphabet, z \in M
      PROVE  Append(z, c) \in M
  <2>1. z \in Texts /\ Append(z, c) \in Texts /\ <<c>> \in Texts
    BY DEF Texts
  <2>2. PICK o \in Texts, len \in Nat, n \in Nat, x \in Texts : Writes(z, o, len, n, x)
    BY <1>2, Zenon
  <2>3. z = x \o C!Repeat(C!Backslash, n)
    BY <2>2, Zenon DEF Writes
  <2>4. \A u \in Texts : Append(u, c) = u \o <<c>>
    BY SMTT(60), SMTT(90) DEF Texts
  <2>5. C!Repeat(C!Backslash, 0) = <<>> /\ Append(z, c) \o <<>> = Append(z, c)
    <3>1. 0 \in Nat
      OBVIOUS
    <3>2. C!Repeat(C!Backslash, 0) = <<>>
      BY <3>1, Repeated, Zenon
    <3>3. QED
      BY SMTT(60), SMTT(90), <2>1, <3>2 DEF Texts
  <2>6. /\ n + 1 \in Nat /\ len + 1 \in Nat /\ len + n + 2 \in Nat /\ 0 \in Nat
        /\ len + 1 = len + Len(<<c>>)
    OBVIOUS
  <2>7. CASE c = C!Backslash
    <3>1. \A u \in Texts : <<C!Advance(u, n), c, C!Advance(u \o <<c>>, n + 1)>> \in PutRel
      BY <2>4, <2>7, PutSteps, Zenon
    <3>2. <<C!Advance(len, n), c, C!Advance(len + 1, n + 1)>> \in CountRel
      BY <2>7, CountSteps, Zenon
    <3>3. Append(z, c) = x \o C!Repeat(C!Backslash, n + 1)
      <4>1. /\ C!Repeat(C!Backslash, n + 1) = Append(C!Repeat(C!Backslash, n), c)
            /\ C!Repeat(C!Backslash, n) \in Texts
        BY <2>7, Repeated, Zenon
      <4>2. QED
        <5>1. Append(z, c) = (x \o C!Repeat(C!Backslash, n)) \o <<c>>
          BY <2>1, <2>3, TextsGrow, Zenon
        <5>2. Append(C!Repeat(C!Backslash, n), c) = C!Repeat(C!Backslash, n) \o <<c>>
          BY <4>1, TextsGrow, Zenon
        <5>3. Regroups(x, C!Repeat(C!Backslash, n), <<c>>)
          BY <2>1, <4>1, TextsRegroup, Zenon
        <5>4. QED
          BY <4>1, <5>1, <5>2, <5>3, Zenon DEF Regroups
    <3>4. \A A \in Seq(Texts) : Runs(TakeRel, Open(A, x, n), <<c>>, Open(A, x, n + 1))
      BY <2>7, OpenReads, Zenon
    <3>5. Writes(Append(z, c), o \o <<c>>, len + 1, n + 1, x)
      BY <2>1, <2>2, <2>6, <3>1, <3>2, <3>3, <3>4, WritesFurther, Zenon
    <3>6. o \o <<c>> \in Texts
      BY DEF Texts
    <3>7. QED
      BY <2>1, <2>6, <3>5, <3>6, Zenon
  <2>8. CASE c \notin {C!Backslash, C!Quote}
    <3>1. \A u \in Texts : <<C!Advance(u, n), c, C!Advance(u \o <<c>>, 0)>> \in PutRel
      BY <2>4, <2>8, PutSteps, Zenon
    <3>2. <<C!Advance(len, n), c, C!Advance(len + 1, 0)>> \in CountRel
      BY <2>8, CountSteps, Zenon
    <3>3. Append(z, c) = Append(z, c) \o C!Repeat(C!Backslash, 0)
      BY <2>5, Zenon
    <3>4. \A A \in Seq(Texts) : Runs(TakeRel, Open(A, x, n), <<c>>, Open(A, Append(z, c), 0))
      BY <2>3, <2>8, OpenReads, Zenon
    <3>5. Writes(Append(z, c), o \o <<c>>, len + 1, 0, Append(z, c))
      BY <2>1, <2>2, <2>6, <3>1, <3>2, <3>3, <3>4, WritesFurther, ZenonT(60)
    <3>6. o \o <<c>> \in Texts
      BY DEF Texts
    <3>7. QED
      BY <2>1, <2>6, <3>5, <3>6, Zenon
  <2>9. CASE c = C!Quote
    <3> DEFINE p == C!Repeat(C!Backslash, n + 1) \o <<C!Quote>>
    <3>1. C!Repeat(C!Backslash, n + 1) \in Texts /\ Len(C!Repeat(C!Backslash, n + 1)) = n + 1
      BY <2>6, Repeated, Zenon
    <3>2. /\ p \in Texts /\ Len(p) = n + 2
          /\ \A u \in Texts : u \o C!Repeat(C!Backslash, n + 1) \o <<C!Quote>> = u \o p
      BY SMTT(60), SMTT(90), <2>1, <2>9, <3>1 DEF Texts
    <3>3. \A A \in Seq(Texts) : Runs(TakeRel, Open(A, x, n), p, Open(A, Append(z, c), 0))
      BY <2>3, <2>9, OpenReads, Zenon
    <3>4. \A u \in Texts :
              <<C!Advance(u, n), c,
                C!Advance(u \o C!Repeat(C!Backslash, n + 1) \o <<C!Quote>>, 0)>> \in PutRel
      BY <2>9, PutSteps, Zenon
    <3> HIDE DEF p
    <3>5. \A u \in Texts : <<C!Advance(u, n), c, C!Advance(u \o p, 0)>> \in PutRel
      BY <3>2, <3>4, Zenon
    <3>6. <<C!Advance(len, n), c, C!Advance(len + n + 2, 0)>> \in CountRel
      BY <2>9, CountSteps, Zenon
    <3>7. Append(z, c) = Append(z, c) \o C!Repeat(C!Backslash, 0)
      BY <2>5, Zenon
    <3>8. len + n + 2 = len + Len(p)
      BY SMTT(60), SMTT(90), <3>2
    <3>9. Writes(Append(z, c), o \o p, len + n + 2, 0, Append(z, c))
      BY <2>1, <2>2, <2>6, <3>2, <3>3, <3>5, <3>6, <3>7, <3>8, WritesFurther, ZenonT(60)
    <3>10. o \o p \in Texts
      BY <3>2 DEF Texts
    <3>11. QED
      BY <2>1, <2>6, <3>9, <3>10, Zenon
  <2>10. QED
    BY <2>7, <2>8, <2>9, Zenon
<1> HIDE DEF M
<1>3. Seq(Alphabet) \subseteq M
  BY <1>1, <1>2, SequencesByStep, Zenon
<1>4. QED
  BY <1>3, Zenon DEF M, Texts

\* Between arguments, and at the end of one.
Idle(A) == C!Reading(A, <<>>, 0, FALSE, FALSE)
Finished(A, x) == C!Reading(A, x, 0, TRUE, FALSE)

\* q is the string v in quotes: x_process_append_quoted appends it,
\* x_process_quoted_length is one more than its length, and the child reads v.
Quotes(v, q) ==
    /\ \A u \in Texts : C!x_process_append_quoted(u, v) = u \o q
    /\ C!x_process_quoted_length(v) = Len(q) + 1
    /\ \A A \in Seq(Texts) : Runs(TakeRel, Idle(A), q, Finished(A, v))

\* The fields of a loop's state.
LEMMA AdvanceFields ==
    ASSUME NEW u, NEW n
    PROVE  C!Advance(u, n).out = u /\ C!Advance(u, n).backslashes = n
BY Zenon DEF C!Advance

\* q is k, o, b and k again, from the right and from the left.
Quoted(k, o, b, e, f, q) ==
    /\ e = b \o k /\ f = o \o e /\ q = k \o f
    /\ Len(q) = Len(k) + Len(o) + Len(b) + Len(k)
    /\ \A u \in Texts : (((u \o k) \o o) \o b) \o k = u \o q

\* The parts of a quoted string, put together from the left or from the right.
LEMMA TextsInQuotes ==
    ASSUME NEW k \in Texts, NEW o \in Texts, NEW b \in Texts
    PROVE  \E e \in Texts, f \in Texts, q \in Texts : Quoted(k, o, b, e, f, q)
<1>1. PICK e \in Texts : e = b \o k /\ Len(e) = Len(b) + Len(k)
  BY TextsJoin, Zenon
<1>2. PICK f \in Texts : f = o \o e /\ Len(f) = Len(o) + Len(e)
  BY TextsJoin, Zenon
<1>3. PICK q \in Texts : q = k \o f /\ Len(q) = Len(k) + Len(f)
  BY TextsJoin, Zenon
<1>4. ASSUME NEW u \in Texts
      PROVE  (((u \o k) \o o) \o b) \o k = u \o q
  <2>1. PICK y \in Texts : y = u \o k
    BY TextsJoin, Zenon
  <2>2. PICK z \in Texts : z = y \o o
    BY TextsJoin, Zenon
  <2>3. Regroups(z, b, k) /\ Regroups(y, o, e) /\ Regroups(u, k, f)
    BY TextsRegroup, Zenon
  <2>4. QED
    BY <1>1, <1>2, <1>3, <2>1, <2>2, <2>3, ZenonT(60) DEF Regroups
<1>5. Len(q) = Len(k) + Len(o) + Len(b) + Len(k)
  <2>1. Len(k) \in Nat /\ Len(o) \in Nat /\ Len(b) \in Nat
    BY DEF Texts
  <2>2. QED
    BY SMTT(60), SMTT(90), <1>1, <1>2, <1>3, <2>1
<1>6. Quoted(k, o, b, e, f, q)
  BY <1>1, <1>2, <1>3, <1>4, <1>5, Zenon DEF Quoted
<1>7. QED
  BY <1>6, Zenon

\* Every string is quoted so that the child reads it back.
LEMMA EveryStringQuoted ==
    ASSUME NEW v \in Texts
    PROVE  \E q \in Texts : Quotes(v, q)
<1>1. PICK o \in Texts, len \in Nat, n \in Nat, x \in Texts : Writes(v, o, len, n, x)
  BY EveryStringWritten, Zenon
<1>2. PICK b \in Texts : b = C!Repeat(C!Backslash, n) /\ Len(b) = n /\ v = x \o b
  BY <1>1, Repeated, Zenon DEF Writes
<1>3. /\ \A u \in Texts : Runs(PutRel, C!Advance(u, 0), v, C!Advance(u \o o, n))
      /\ Runs(CountRel, C!Advance(2, 0), v, C!Advance(len, n)) /\ len = Len(o) + 2
      /\ \A A \in Seq(Texts) : Runs(TakeRel, Open(A, <<>>, 0), o, Open(A, x, n))
      /\ v \in Seq(Alphabet)
  BY <1>1, Zenon DEF Writes, Texts
<1>4. PICK k \in Texts : k = <<C!Quote>> /\ Len(k) = 1
  BY Letters, TextsGrow, Zenon
<1>5. PICK e \in Texts, f \in Texts, q \in Texts : Quoted(k, o, b, e, f, q)
  BY TextsInQuotes, Zenon
<1>6. ASSUME NEW u \in Texts
      PROVE  C!x_process_append_quoted(u, v) = u \o q
  <2>1. PICK y \in Texts : y = Append(u, C!Quote) /\ y = u \o <<C!Quote>>
    BY TextsGrow, Letters, Zenon
  <2> DEFINE end == C!Loop(C!PutChar, C!Advance(y, 0), v)
  <2>2. end = C!Advance(y \o o, n)
    BY <1>3, PutLoop, Zenon
  <2>3. C!x_process_append_quoted(u, v)
            = Append(end.out \o C!Repeat(C!Backslash, end.backslashes), C!Quote)
    BY <2>1, Zenon DEF C!x_process_append_quoted
  <2> HIDE DEF end
  <2>4. end.out = y \o o /\ end.backslashes = n
    BY <2>2, AdvanceFields, Zenon
  <2>5. C!x_process_append_quoted(u, v) = Append((y \o o) \o b, C!Quote)
    BY <1>2, <2>3, <2>4, Zenon
  <2>6. y \o o \in Texts /\ (y \o o) \o b \in Texts
    BY TextsJoin, Zenon
  <2>7. Append((y \o o) \o b, C!Quote) = ((y \o o) \o b) \o <<C!Quote>>
    BY <2>6, TextsGrow, Letters, Zenon
  <2>8. QED
    BY <1>4, <1>5, <2>1, <2>5, <2>7, Zenon DEF Quoted
<1>7. C!x_process_quoted_length(v) = Len(q) + 1
  <2> DEFINE end == C!Loop(C!CountChar, C!Advance(2, 0), v)
  <2>1. end = C!Advance(len, n)
    BY <1>3, CountLoop, Zenon
  <2>2. C!x_process_quoted_length(v) = end.out + end.backslashes + 1
    BY Zenon DEF C!x_process_quoted_length
  <2> HIDE DEF end
  <2>3. end.out = len /\ end.backslashes = n
    BY <2>1, AdvanceFields, Zenon
  <2>4. Len(o) \in Nat
    BY DEF Texts
  <2>5. Len(q) = Len(k) + Len(o) + Len(b) + Len(k)
    BY <1>5, Zenon DEF Quoted
  <2>6. len = Len(o) + 2 /\ Len(b) = n /\ Len(k) = 1
    BY <1>2, <1>3, <1>4, Zenon
  <2>7. QED
    BY SMTT(60), SMTT(90), <2>2, <2>3, <2>4, <2>5, <2>6
<1>9. ASSUME NEW A \in Seq(Texts)
      PROVE  Runs(TakeRel, Idle(A), q, Finished(A, v))
  <2>1. <<>> \in Texts /\ 0 \in Nat /\ 0 % 2 # 1 /\ 0 \div 2 = 0
    BY DEF Texts
  <2>2. Runs(TakeRel, Idle(A), <<C!Quote>>, Open(A, <<>>, 0))
    <3>1. <<Idle(A), C!Quote,
            C!Reading(A, <<>> \o C!Repeat(C!Backslash, 0 \div 2), 0, TRUE, ~FALSE)>> \in TakeRel
      BY <2>1, TakeSteps, Letters, Zenon DEF Idle
    <3>2. <<>> \o C!Repeat(C!Backslash, 0 \div 2) = <<>>
      <4>1. C!Repeat(C!Backslash, 0) = <<>>
        BY <2>1, Repeated, Zenon
      <4>2. <<>> \o <<>> = <<>>
        OBVIOUS
      <4>3. QED
        BY <2>1, <4>1, <4>2, Zenon
    <3>3. (~FALSE) = TRUE
      OBVIOUS
    <3>4. <<Idle(A), C!Quote, Open(A, <<>>, 0)>> \in TakeRel
      BY <3>1, <3>2, <3>3, Zenon DEF Open
    <3>5. QED
      BY <3>4, RunsOne, Zenon
  <2>3. Runs(TakeRel, Open(A, <<>>, 0), o, Open(A, x, n))
    BY <1>3, Zenon
  <2>4. Runs(TakeRel, Open(A, x, n), b, Open(A, x, n + n))
    BY TakeBackslashes, <1>2, Zenon DEF Open
  <2>5. PICK m \in Nat : m = n + n /\ m % 2 # 1 /\ m \div 2 = n
    OBVIOUS
  <2>6. Runs(TakeRel, Open(A, x, m), <<C!Quote>>, Finished(A, v))
    <3>1. <<Open(A, x, m), C!Quote,
            C!Reading(A, x \o C!Repeat(C!Backslash, m \div 2), 0, TRUE, ~TRUE)>> \in TakeRel
      BY <2>5, TakeSteps, Letters, Zenon DEF Open
    <3>2. (~TRUE) = FALSE
      OBVIOUS
    <3>3. <<Open(A, x, m), C!Quote, Finished(A, v)>> \in TakeRel
      BY <1>2, <2>5, <3>1, <3>2, Zenon DEF Finished
    <3>4. QED
      BY <3>3, RunsOne, Zenon
  <2>7. /\ k \in Seq(Alphabet) /\ b \in Seq(Alphabet) /\ o \in Seq(Alphabet)
        /\ e \in Seq(Alphabet) /\ f \in Seq(Alphabet)
    BY Zenon DEF Texts
  <2>8. Runs(TakeRel, Open(A, x, n), e, Finished(A, v))
    BY <1>4, <1>5, <2>4, <2>5, <2>6, <2>7, RunsTogether, Zenon DEF Quoted
  <2>9. Runs(TakeRel, Open(A, <<>>, 0), f, Finished(A, v))
    BY <1>5, <2>3, <2>7, <2>8, RunsTogether, Zenon DEF Quoted
  <2>10. QED
    BY <1>4, <1>5, <2>2, <2>7, <2>9, RunsTogether, ZenonT(60) DEF Quoted
<1>10. QED
  BY <1>6, <1>7, <1>9, Zenon DEF Quotes

\* The loops over the arguments l append rest to the command line and measure len,
\* which is enough; and the child that reads rest, and the end of the line or
\* another argument's space, has read l.
Passes(l, rest, len) ==
    /\ \A u \in Texts : Runs(PutArgumentRel, u, l, u \o rest)
    /\ \A m \in Nat : Runs(MeasureArgumentRel, m, l, m + len)
    /\ Len(rest) <= len
    /\ \A A \in Seq(Texts), c \in {C!Space, C!NUL} :
           Runs(TakeRel, Idle(A), rest \o <<c>>, Idle(A \o l))

\* A character that ends an argument.
LEMMA SeparatorRead ==
    ASSUME NEW A \in Seq(Texts), NEW v \in Texts, NEW c \in {C!Space, C!NUL}
    PROVE  /\ Runs(TakeRel, Idle(A), <<c>>, Idle(A))
           /\ Runs(TakeRel, Finished(A, v), <<c>>, Idle(Append(A, v)))
<1>1. c \in Alphabet /\ <<>> \in Texts /\ 0 \in Nat
  BY SMTT(60), SMTT(90), Letters DEF Texts
<1>2. <<Idle(A), c, Idle(A)>> \in TakeRel
  BY <1>1, TakeSteps, Zenon DEF Idle
<1>3. <<Finished(A, v), c, Idle(Append(A, v \o C!Repeat(C!Backslash, 0)))>> \in TakeRel
  BY <1>1, TakeSteps, Zenon DEF Idle, Finished
<1>4. v \o C!Repeat(C!Backslash, 0) = v
  <2>1. C!Repeat(C!Backslash, 0) = <<>>
    BY <1>1, Repeated, Zenon
  <2>2. v \o <<>> = v
    BY DEF Texts
  <2>3. QED
    BY <2>1, <2>2, Zenon
<1>5. <<Finished(A, v), c, Idle(Append(A, v))>> \in TakeRel
  BY <1>3, <1>4, Zenon
<1>6. QED
  BY <1>2, <1>5, RunsOne, Zenon

\* No arguments.
LEMMA PassesNothing == Passes(<<>>, <<>>, 0)
<1>1. \A u \in Texts : u \o <<>> = u
  BY DEF Texts
<1>2. \A m \in Nat : m + 0 = m
  OBVIOUS
<1>3. Len(<<>>) <= 0
  OBVIOUS
<1>4. ASSUME NEW A \in Seq(Texts), NEW c \in {C!Space, C!NUL}
      PROVE  Runs(TakeRel, Idle(A), <<>> \o <<c>>, Idle(A \o <<>>))
  <2>1. A \o <<>> = A /\ <<>> \o <<c>> = <<c>> /\ <<>> \in Texts
    BY DEF Texts
  <2>2. QED
    BY <2>1, SeparatorRead, Zenon
<1>5. QED
  BY <1>1, <1>2, <1>3, <1>4, RunsNothing, Zenon DEF Passes

\* One more argument.
LEMMA PassesFurther ==
    ASSUME NEW l \in Seq(Texts), NEW rest \in Texts, NEW len \in Nat, Passes(l, rest, len),
           NEW v \in Texts
    PROVE  \E more \in Texts, m \in Nat : Passes(Append(l, v), more, m)
<1>1. PICK q \in Texts : Quotes(v, q)
  BY EveryStringQuoted, Zenon
<1>2. PICK space \in Texts : space = <<C!Space>> /\ Len(space) = 1
  BY Letters, TextsGrow, Zenon
<1>3. PICK tail \in Texts : tail = space \o q /\ Len(tail) = Len(space) + Len(q)
  BY TextsJoin, Zenon
<1>4. PICK more \in Texts : more = rest \o tail /\ Len(more) = Len(rest) + Len(tail)
  BY TextsJoin, Zenon
<1>5. Len(rest) \in Nat /\ Len(q) \in Nat /\ len + (Len(q) + 2) \in Nat
  BY DEF Texts
<1>6. ASSUME NEW u \in Texts
      PROVE  Runs(PutArgumentRel, u, Append(l, v), u \o more)
  <2>1. PICK t \in Texts : t = u \o rest
    BY TextsJoin, Zenon
  <2>2. PICK y \in Texts : y = Append(t, C!Space) /\ y = t \o space
    BY <1>2, TextsGrow, Letters, Zenon
  <2>3. C!PutArgument(t, v) = y \o q
    BY <1>1, <2>2, Zenon DEF C!PutArgument, Quotes
  <2>4. <<t, v, C!PutArgument(t, v)>> \in PutArgumentRel
    BY DEF PutArgumentRel
  <2>5. Regroups(t, space, q) /\ Regroups(u, rest, tail)
    BY TextsRegroup, Zenon
  <2>6. C!PutArgument(t, v) = u \o more
    BY <1>3, <1>4, <2>1, <2>2, <2>3, <2>5, Zenon DEF Regroups
  <2>7. Runs(PutArgumentRel, u, l, t)
    BY <2>1, Zenon DEF Passes
  <2>8. QED
    BY <2>4, <2>6, <2>7, RunsFurther, Zenon
<1>7. ASSUME NEW m \in Nat
      PROVE  Runs(MeasureArgumentRel, m, Append(l, v), m + (len + (Len(q) + 2)))
  <2>1. PICK n \in Nat : n = m + len
    OBVIOUS
  <2>2. <<n, v, C!MeasureArgument(n, v)>> \in MeasureArgumentRel
    BY DEF MeasureArgumentRel
  <2>3. C!x_process_quoted_length(v) = Len(q) + 1
    BY <1>1, Zenon DEF Quotes
  <2>4. C!MeasureArgument(n, v) = n + 1 + (Len(q) + 1)
    BY <2>3, Zenon DEF C!MeasureArgument
  <2>5. n + 1 + (Len(q) + 1) = m + (len + (Len(q) + 2))
    BY SMTT(60), SMTT(90), <1>5, <2>1
  <2>6. Runs(MeasureArgumentRel, m, l, n)
    BY <2>1, Zenon DEF Passes
  <2>7. QED
    BY <2>2, <2>4, <2>5, <2>6, RunsFurther, Zenon
<1>8. Len(more) <= len + (Len(q) + 2)
  <2>1. Len(rest) <= len
    BY Zenon DEF Passes
  <2>2. QED
    BY SMTT(60), SMTT(90), <1>2, <1>3, <1>4, <1>5, <2>1
<1>9. ASSUME NEW A \in Seq(Texts), NEW c \in {C!Space, C!NUL}
      PROVE  Runs(TakeRel, Idle(A), more \o <<c>>, Idle(A \o Append(l, v)))
  <2> DEFINE B == A \o l
  <2>1. B \in Seq(Texts) /\ B = A \o l
    OBVIOUS
  <2> HIDE DEF B
  <2>2. A \o Append(l, v) = Append(B, v)
    BY SMTT(60), SMTT(90), <2>1
  <2>3. PICK end \in Texts : end = <<c>>
    BY Letters, TextsGrow, Zenon
  <2>4. C!Space \in {C!Space, C!NUL}
    OBVIOUS
  <2>5. Runs(TakeRel, Idle(A), rest \o space, Idle(B))
    BY <1>2, <2>1, <2>4, Zenon DEF Passes
  <2>6. Runs(TakeRel, Idle(B), q, Finished(B, v))
    BY <1>1, <2>1, Zenon DEF Quotes
  <2>7. Runs(TakeRel, Finished(B, v), end, Idle(Append(B, v)))
    BY <2>1, <2>3, SeparatorRead, Zenon
  <2>8. PICK a \in Texts : a = rest \o space
    BY TextsJoin, Zenon
  <2>9. a \in Seq(Alphabet) /\ q \in Seq(Alphabet) /\ end \in Seq(Alphabet)
    BY Zenon DEF Texts
  <2>10. Regroups(rest, space, q)
    BY TextsRegroup, Zenon
  <2>11. more = a \o q
    BY <1>3, <1>4, <2>8, <2>10, Zenon DEF Regroups
  <2>12. Runs(TakeRel, Idle(A), more, Finished(B, v))
    BY <2>5, <2>6, <2>8, <2>9, <2>11, RunsTogether, Zenon
  <2>13. more \in Seq(Alphabet)
    BY Zenon DEF Texts
  <2>14. Runs(TakeRel, Idle(A), more \o end, Idle(Append(B, v)))
    BY <2>7, <2>9, <2>12, <2>13, RunsTogether, Zenon
  <2>15. QED
    BY <2>2, <2>3, <2>14, Zenon
<1>10. Passes(Append(l, v), more, len + (Len(q) + 2))
  BY <1>6, <1>7, <1>8, <1>9, Zenon DEF Passes
<1>11. QED
  BY <1>5, <1>10, Zenon

\* All the arguments.
LEMMA EveryListPassed ==
    ASSUME NEW l \in Seq(Texts)
    PROVE  \E rest \in Texts, len \in Nat : Passes(l, rest, len)
<1> DEFINE Good(z) == \E rest \in Texts, len \in Nat : Passes(z, rest, len)
           M == {z \in Seq(Texts) : Good(z)}
<1>1. <<>> \in Seq(Texts) /\ <<>> \in Texts /\ 0 \in Nat
  BY DEF Texts
<1>2. <<>> \in M
  BY <1>1, PassesNothing, Zenon
<1>3. ASSUME NEW z \in Seq(Texts), NEW v \in Texts, z \in M
      PROVE  Append(z, v) \in M
  <2>1. PICK rest \in Texts, len \in Nat : Passes(z, rest, len)
    BY <1>3, Zenon
  <2>2. \E more \in Texts, m \in Nat : Passes(Append(z, v), more, m)
    BY <2>1, PassesFurther, Zenon
  <2>3. Append(z, v) \in Seq(Texts)
    OBVIOUS
  <2>4. QED
    BY <2>2, <2>3, Zenon
<1> HIDE DEF M
<1>4. Seq(Texts) \subseteq M
  BY <1>2, <1>3, SequencesByStep, Zenon
<1>5. QED
  BY <1>4, Zenon DEF M

\* The paths of a program: no file name has a quote, and a directory is no program.
Plain == Alphabet \ {C!Quote}
Names == {p \in Seq(Plain) : p # <<>> /\ p[Len(p)] # C!Backslash}

\* A string between two quotes.
InQuotes(p) == (<<C!Quote>> \o p) \o <<C!Quote>>

\* The last character of a text is that of its last part.
LEMMA TextsLast ==
    ASSUME NEW u \in Texts, NEW z \in Texts, NEW c \in Alphabet
    PROVE  Append(u \o z, c) = u \o Append(z, c)
<1>1. /\ u \o z \in Texts
      /\ Append(z, c) = z \o <<c>> /\ <<c>> \in Texts
  BY TextsJoin, TextsGrow, Zenon
<1>2. Append(u \o z, c) = (u \o z) \o <<c>>
  BY <1>1, TextsGrow, Zenon
<1>3. Regroups(u, z, <<c>>)
  BY <1>1, TextsRegroup, Zenon
<1>4. QED
  BY <1>1, <1>2, <1>3, Zenon DEF Regroups

\* A string without quotes is written as it is.
LEMMA PlainWritten ==
    ASSUME NEW u \in Texts, NEW p \in Seq(Plain)
    PROVE  \E n \in Nat : Runs(PutRel, C!Advance(u, 0), p, C!Advance(u \o p, n))
<1> DEFINE Good(z) == \E n \in Nat : Runs(PutRel, C!Advance(u, 0), z, C!Advance(u \o z, n))
           M == {z \in Seq(Plain) : Good(z)}
<1>1. <<>> \in M
  <2>1. <<>> \in Seq(Plain) /\ u \o <<>> = u /\ 0 \in Nat
    BY DEF Texts
  <2>2. QED
    BY <2>1, RunsNothing, Zenon
<1>2. ASSUME NEW z \in Seq(Plain), NEW c \in Plain, z \in M
      PROVE  Append(z, c) \in M
  <2>1. PICK n \in Nat : Runs(PutRel, C!Advance(u, 0), z, C!Advance(u \o z, n))
    BY <1>2, Zenon
  <2>2. /\ z \in Texts /\ c \in Alphabet /\ c # C!Quote /\ z \in Seq(Alphabet)
        /\ Append(z, c) \in Seq(Plain)
    BY DEF Texts, Plain
  <2>3. PICK y \in Texts : y = u \o z
    BY <2>2, TextsJoin, Zenon
  <2>4. Append(y, c) = u \o Append(z, c)
    BY <2>2, <2>3, TextsLast, Zenon
  <2>5. \E m \in Nat : <<C!Advance(y, n), c, C!Advance(Append(y, c), m)>> \in PutRel
    <3>1. n + 1 \in Nat /\ 0 \in Nat
      OBVIOUS
    <3>2. c = C!Backslash \/ c \notin {C!Backslash, C!Quote}
      BY <2>2, Zenon
    <3>3. QED
      BY <2>2, <3>1, <3>2, PutSteps, Zenon
  <2>6. \E m \in Nat : Runs(PutRel, C!Advance(u, 0), Append(z, c), C!Advance(u \o Append(z, c), m))
    BY <2>1, <2>2, <2>3, <2>4, <2>5, RunsFurther, Zenon
  <2>7. QED
    BY <2>2, <2>6, Zenon
<1> HIDE DEF M
<1>3. Seq(Plain) \subseteq M
  BY <1>1, <1>2, SequencesByStep, Zenon
<1>4. QED
  BY <1>3, Zenon DEF M

\* Nor are backslashes doubled at the end of a path, where there are none.
LEMMA PathQuoted ==
    ASSUME NEW p \in Names
    PROVE  /\ p \in Texts /\ \A i \in 1 .. Len(p) : p[i] # C!Quote
           /\ C!x_process_append_quoted(<<>>, p) = InQuotes(p)
           /\ C!x_process_quoted_length(p) = Len(p) + 3
<1>1. p \in Seq(Plain) /\ p # <<>> /\ p[Len(p)] # C!Backslash
  BY Zenon DEF Names
<1>2. p \in Texts /\ \A i \in 1 .. Len(p) : p[i] # C!Quote
  BY SMTT(60), SMTT(90), <1>1 DEF Plain, Texts
<1>3. PICK u \in Texts : u = Append(<<>>, C!Quote) /\ u = <<C!Quote>> /\ Len(u) = 1
  <2>1. <<>> \in Texts /\ Append(<<>>, C!Quote) = <<C!Quote>>
    BY DEF Texts
  <2>2. QED
    BY <2>1, Letters, TextsGrow, Zenon
<1>4. Runs(PutRel, C!Advance(u, 0), p, C!Advance(u \o p, 0))
  <2> DEFINE k == Len(p) - 1
             z == SubSeq(p, 1, k)
             c == p[k + 1]
  <2>1. k \in Nat /\ k + 1 = Len(p)
    BY SMTT(60), SMTT(90), <1>1
  <2>2. z \in Seq(Plain) /\ c \in Plain /\ p = Append(z, c) /\ c = p[Len(p)]
    BY SMTT(60), SMTT(90), <1>1, <2>1
  <2> HIDE DEF k, z, c
  <2>3. z \in Texts /\ z \in Seq(Alphabet) /\ c \in Alphabet /\ c \notin {C!Backslash, C!Quote}
    BY SMTT(60), SMTT(90), <1>1, <2>2 DEF Plain, Texts
  <2>4. PICK n \in Nat : Runs(PutRel, C!Advance(u, 0), z, C!Advance(u \o z, n))
    BY <2>2, PlainWritten, Zenon
  <2>5. PICK y \in Texts : y = u \o z
    BY <2>3, TextsJoin, Zenon
  <2>6. <<C!Advance(y, n), c, C!Advance(Append(y, c), 0)>> \in PutRel
    BY <2>3, PutSteps, Zenon
  <2>7. Append(y, c) = u \o Append(z, c)
    BY <2>3, <2>5, TextsLast, Zenon
  <2>8. Runs(PutRel, C!Advance(u, 0), Append(z, c), C!Advance(Append(y, c), 0))
    BY <2>3, <2>4, <2>5, <2>6, RunsFurther, Zenon
  <2>9. QED
    BY <2>2, <2>7, <2>8, Zenon
<1>5. C!x_process_append_quoted(<<>>, p) = InQuotes(p)
  <2> DEFINE end == C!Loop(C!PutChar, C!Advance(u, 0), p)
  <2>1. end = C!Advance(u \o p, 0)
    BY <1>2, <1>4, PutLoop, Zenon DEF Texts
  <2>2. C!x_process_append_quoted(<<>>, p)
            = Append(end.out \o C!Repeat(C!Backslash, end.backslashes), C!Quote)
    BY <1>3, Zenon DEF C!x_process_append_quoted
  <2> HIDE DEF end
  <2>3. end.out = u \o p /\ end.backslashes = 0
    BY <2>1, AdvanceFields, Zenon
  <2>4. u \o p \in Texts
    BY <1>2, TextsJoin, Zenon
  <2>5. (u \o p) \o C!Repeat(C!Backslash, 0) = u \o p
    <3>1. C!Repeat(C!Backslash, 0) = <<>>
      <4>1. 0 \in Nat
        OBVIOUS
      <4>2. QED
        BY <4>1, Repeated, Zenon
    <3>2. \A t \in Texts : t \o <<>> = t
      BY DEF Texts
    <3>3. QED
      BY <2>4, <3>1, <3>2, Zenon
  <2>6. Append(u \o p, C!Quote) = (u \o p) \o <<C!Quote>>
    BY <2>4, Letters, TextsGrow, Zenon
  <2>7. QED
    BY <1>3, <2>2, <2>3, <2>5, <2>6, Zenon DEF InQuotes
<1>6. C!x_process_quoted_length(p) = Len(p) + 3
  <2>1. PICK q \in Texts : Quotes(p, q)
    BY <1>2, EveryStringQuoted, Zenon
  <2>2. <<>> \in Texts /\ \A t \in Texts : <<>> \o t = t
    BY DEF Texts
  <2>3. q = InQuotes(p) /\ C!x_process_quoted_length(p) = Len(q) + 1
    BY <1>5, <2>1, <2>2, Zenon DEF Quotes
  <2>4. Len(InQuotes(p)) = Len(p) + 2
    BY SMTT(60), SMTT(90), <1>2 DEF InQuotes, Texts
  <2>5. Len(p) \in Nat
    BY SMTT(60), SMTT(90), <1>2 DEF Texts
  <2>6. QED
    BY SMTT(60), SMTT(90), <2>3, <2>4, <2>5
<1>7. QED
  BY <1>2, <1>5, <1>6, Zenon

\* The child takes its name from the first pair of quotes, and reads on after it.
LEMMA SplitAfterName ==
    ASSUME NEW p \in Texts, \A i \in 1 .. Len(p) : p[i] # C!Quote, NEW rest \in Texts
    PROVE  C!Split(InQuotes(p) \o rest) = C!Loop(C!TakeChar, Idle(<<p>>), rest).args
<1> DEFINE line == InQuotes(p) \o rest
           Closes(i) == line[i] = C!Quote /\ \A j \in 2 .. i - 1 : line[j] # C!Quote
           close == CHOOSE i \in 2 .. Len(line) : Closes(i)
<1>1. /\ Len(p) \in Nat /\ Len(rest) \in Nat /\ p \in Seq(Alphabet) /\ rest \in Seq(Alphabet)
      /\ C!Quote \in Alphabet
  BY SMTT(60), SMTT(90), Letters DEF Texts
<1>2. InQuotes(p) \in Seq(Alphabet) /\ Len(InQuotes(p)) = Len(p) + 2
  BY SMTT(60), SMTT(90), <1>1 DEF InQuotes
<1>3. \A i \in 1 .. Len(p) : InQuotes(p)[i + 1] = p[i]
  BY SMTT(60), SMTT(90), <1>1 DEF InQuotes
<1>4. InQuotes(p)[Len(p) + 2] = C!Quote
  BY SMTT(60), SMTT(90), <1>1 DEF InQuotes
<1>5. line \in Seq(Alphabet) /\ Len(line) = Len(p) + 2 + Len(rest)
  BY SMTT(60), SMTT(90), <1>1, <1>2
<1>6. \A i \in 1 .. Len(p) + 2 : line[i] = InQuotes(p)[i]
  BY SMTT(60), SMTT(90), <1>1, <1>2
<1>7. \A i \in 1 .. Len(rest) : line[Len(p) + 2 + i] = rest[i]
  BY SMTT(60), SMTT(90), <1>1, <1>2
<1> HIDE DEF line
<1>8. \A j \in 2 .. Len(p) + 1 : line[j] # C!Quote
  <2> SUFFICES ASSUME NEW j \in 2 .. Len(p) + 1 PROVE line[j] # C!Quote
    OBVIOUS
  <2>1. j - 1 \in 1 .. Len(p) /\ (j - 1) + 1 = j /\ j \in 1 .. Len(p) + 2
    BY SMTT(60), SMTT(90), <1>1
  <2>2. QED
    <3>1. line[j] = p[j - 1]
      BY <1>3, <1>6, <2>1, Zenon
    <3>2. QED
      BY <2>1, <3>1, Zenon
<1>9. line[Len(p) + 2] = C!Quote
  BY SMTT(60), SMTT(90), <1>1, <1>4, <1>6
<1>10. close = Len(p) + 2
  <2>1. Len(p) + 2 \in 2 .. Len(line) /\ (Len(p) + 2) - 1 = Len(p) + 1
    BY SMTT(60), SMTT(90), <1>1, <1>5
  <2>2. Closes(Len(p) + 2)
    BY Zenon, <1>8, <1>9, <2>1
  <2>3. ASSUME NEW i \in 2 .. Len(line), Closes(i)
        PROVE  i = Len(p) + 2
    <3>1. ~(i < Len(p) + 2)
      BY SMTT(60), SMTT(90), <1>1, <1>8, <2>3
    <3>2. ~(Len(p) + 2 < i)
      BY SMTT(60), SMTT(90), <1>1, <1>9, <2>3
    <3>3. QED
      BY SMTT(60), SMTT(90), <1>1, <3>1, <3>2
  <2> HIDE DEF Closes
  <2>4. QED
    BY <2>1, <2>2, <2>3, Zenon
<1>11. SubSeq(line, 2, Len(p) + 1) = p
  <2> DEFINE y == SubSeq(line, 2, Len(p) + 1)
  <2>1. y \in Seq(Alphabet) /\ Len(y) = Len(p) /\ \A i \in 1 .. Len(p) : y[i] = line[i + 1]
    BY SMTT(60), SMTT(90), <1>1, <1>5
  <2>2. \A i \in 1 .. Len(p) : line[i + 1] = p[i]
    BY SMTT(60), SMTT(90), <1>1, <1>3, <1>6
  <2> HIDE DEF y
  <2>3. y = p
    BY SMTT(60), SMTT(90), <1>1, <2>1, <2>2
  <2>4. QED
    BY <2>3, Zenon DEF y
<1>12. SubSeq(line, Len(p) + 3, Len(line)) = rest
  <2> DEFINE y == SubSeq(line, Len(p) + 3, Len(line))
  <2>1. /\ y \in Seq(Alphabet) /\ Len(y) = Len(rest)
        /\ \A i \in 1 .. Len(rest) : y[i] = line[Len(p) + 2 + i]
    BY SMTT(60), SMTT(90), <1>1, <1>5
  <2> HIDE DEF y
  <2>2. y = rest
    BY SMTT(60), SMTT(90), <1>1, <1>7, <2>1
  <2>3. QED
    BY <2>2, ZenonT(60) DEF y
<1>13. (Len(p) + 2) - 1 = Len(p) + 1 /\ (Len(p) + 2) + 1 = Len(p) + 3
  BY SMTT(60), SMTT(90), <1>1
<1>14. C!Split(line)
           = C!Loop(C!TakeChar,
                    C!Reading(<<SubSeq(line, 2, close - 1)>>, <<>>, 0, FALSE, FALSE),
                    SubSeq(line, close + 1, Len(line))).args
  BY Zenon DEF C!Split
<1> HIDE DEF close
<1>15. C!Split(line) = C!Loop(C!TakeChar, Idle(<<p>>), rest).args
  BY <1>10, <1>11, <1>12, <1>13, <1>14, Zenon DEF Idle
<1>16. QED
  BY <1>15, Zenon DEF line

\* The loops over the variables l append rest to the block and add len to its measure.
Fills(l, rest, len) ==
    /\ \A u \in Texts : Runs(PutVariableRel, u, l, u \o rest)
    /\ \A m \in Nat : Runs(MeasureVariableRel, m, l, m + len)
    /\ Len(rest) = len

\* No variables.
LEMMA FillsNothing == Fills(<<>>, <<>>, 0)
<1>1. \A u \in Texts : u \o <<>> = u
  BY DEF Texts
<1>2. (\A m \in Nat : m + 0 = m) /\ Len(<<>>) = 0
  OBVIOUS
<1>3. QED
  BY <1>1, <1>2, RunsNothing, Zenon DEF Fills

\* One more variable.
LEMMA FillsFurther ==
    ASSUME NEW l \in Seq(Texts), NEW rest \in Texts, NEW len \in Nat, Fills(l, rest, len),
           NEW v \in Texts
    PROVE  \E more \in Texts, m \in Nat : Fills(Append(l, v), more, m)
<1>1. PICK end \in Texts : end = <<C!NUL>> /\ Len(end) = 1
  BY Letters, TextsGrow, Zenon
<1>2. PICK tail \in Texts : tail = v \o end /\ Len(tail) = Len(v) + Len(end)
  BY TextsJoin, Zenon
<1>3. PICK more \in Texts : more = rest \o tail /\ Len(more) = Len(rest) + Len(tail)
  BY TextsJoin, Zenon
<1>4. Len(rest) = len /\ Len(v) \in Nat /\ len + (Len(v) + 1) \in Nat
  <2>1. Len(rest) = len
    BY Zenon DEF Fills
  <2>2. Len(v) \in Nat
    BY DEF Texts
  <2>3. QED
    BY SMTT(60), SMTT(90), <2>1, <2>2
<1>5. ASSUME NEW u \in Texts
      PROVE  Runs(PutVariableRel, u, Append(l, v), u \o more)
  <2>1. PICK t \in Texts : t = u \o rest
    BY TextsJoin, Zenon
  <2>2. PICK y \in Texts : y = t \o v
    BY TextsJoin, Zenon
  <2>3. C!PutVariable(t, v) = y \o end
    BY <1>1, <2>2, Letters, TextsGrow, ZenonT(60) DEF C!PutVariable
  <2>4. <<t, v, C!PutVariable(t, v)>> \in PutVariableRel
    BY DEF PutVariableRel
  <2>5. Regroups(t, v, end) /\ Regroups(u, rest, tail)
    BY TextsRegroup, Zenon
  <2>6. C!PutVariable(t, v) = u \o more
    BY <1>2, <1>3, <2>1, <2>2, <2>3, <2>5, Zenon DEF Regroups
  <2>7. Runs(PutVariableRel, u, l, t)
    BY <2>1, Zenon DEF Fills
  <2>8. QED
    BY <2>4, <2>6, <2>7, RunsFurther, Zenon
<1>6. ASSUME NEW m \in Nat
      PROVE  Runs(MeasureVariableRel, m, Append(l, v), m + (len + (Len(v) + 1)))
  <2>1. PICK n \in Nat : n = m + len
    OBVIOUS
  <2>2. <<n, v, C!MeasureVariable(n, v)>> \in MeasureVariableRel
    BY DEF MeasureVariableRel
  <2>3. C!MeasureVariable(n, v) = n + Len(v) + 1
    BY Zenon DEF C!MeasureVariable
  <2>4. n + Len(v) + 1 = m + (len + (Len(v) + 1))
    BY SMTT(60), SMTT(90), <1>4, <2>1
  <2>5. Runs(MeasureVariableRel, m, l, n)
    BY <2>1, Zenon DEF Fills
  <2>6. QED
    BY <2>2, <2>3, <2>4, <2>5, RunsFurther, Zenon
<1>7. Len(more) = len + (Len(v) + 1)
  BY Zenon, <1>1, <1>2, <1>3, <1>4
<1>8. Fills(Append(l, v), more, len + (Len(v) + 1))
  BY <1>5, <1>6, <1>7, ZenonT(60) DEF Fills
<1>9. QED
  BY <1>4, <1>8, Zenon

\* All the variables.
LEMMA EveryListFilled ==
    ASSUME NEW l \in Seq(Texts)
    PROVE  \E rest \in Texts, len \in Nat : Fills(l, rest, len)
<1> DEFINE Good(z) == \E rest \in Texts, len \in Nat : Fills(z, rest, len)
           M == {z \in Seq(Texts) : Good(z)}
<1>1. <<>> \in Seq(Texts) /\ <<>> \in Texts /\ 0 \in Nat
  BY DEF Texts
<1>2. <<>> \in M
  BY <1>1, FillsNothing, Zenon
<1>3. ASSUME NEW z \in Seq(Texts), NEW v \in Texts, z \in M
      PROVE  Append(z, v) \in M
  <2>1. PICK rest \in Texts, len \in Nat : Fills(z, rest, len)
    BY <1>3, Zenon
  <2>2. \E more \in Texts, m \in Nat : Fills(Append(z, v), more, m)
    BY <2>1, FillsFurther, Zenon
  <2>3. Append(z, v) \in Seq(Texts)
    OBVIOUS
  <2>4. QED
    BY <2>2, <2>3, Zenon
<1> HIDE DEF M
<1>4. Seq(Texts) \subseteq M
  BY <1>2, <1>3, SequencesByStep, Zenon
<1>5. QED
  BY <1>4, Zenon DEF M

\* What x_process_build_command_line writes.
LEMMA CommandLineBuilt ==
    ASSUME path \in Names, arguments \in Seq(Texts)
    PROVE  /\ C!Split(C!x_process_build_command_line.text) = <<path>> \o arguments
           /\ Len(C!x_process_build_command_line.text) <= C!x_process_build_command_line.capacity
<1>1. /\ path \in Texts /\ \A i \in 1 .. Len(path) : path[i] # C!Quote
      /\ C!x_process_append_quoted(<<>>, path) = InQuotes(path)
      /\ C!x_process_quoted_length(path) = Len(path) + 3
  BY PathQuoted, Zenon
<1>2. PICK rest \in Texts, len \in Nat : Passes(arguments, rest, len)
  BY EveryListPassed, Zenon
<1>3. PICK name \in Texts : name = InQuotes(path) /\ Len(name) = Len(path) + 2
  <2>1. InQuotes(path) \in Texts /\ Len(InQuotes(path)) = Len(path) + 2
    BY SMTT(60), SMTT(90), <1>1, Letters DEF InQuotes, Texts
  <2>2. QED
    BY <2>1, Zenon
<1>4. PICK n \in Nat : n = Len(path) + 3
  BY SMTT(60), SMTT(90), <1>1 DEF Texts
<1>5. PICK end \in Texts : end = <<C!NUL>> /\ Len(end) = 1
  BY Letters, TextsGrow, Zenon
<1> DEFINE put == C!Loop(C!PutArgument, name, arguments)
           measured == C!Loop(C!MeasureArgument, n, arguments)
<1>6. put = name \o rest /\ measured = n + len
  BY <1>2, MeasureArgumentLoop, PutArgumentLoop, Zenon DEF Passes
<1>7. C!x_process_build_command_line = [capacity |-> measured + 1, text |-> Append(put, C!NUL)]
  BY <1>1, <1>3, <1>4, Zenon DEF C!x_process_build_command_line
<1> HIDE DEF put, measured
<1>8. /\ C!x_process_build_command_line.capacity = measured + 1
      /\ C!x_process_build_command_line.text = Append(put, C!NUL)
  BY Zenon, <1>7
<1>9. PICK tail \in Texts : tail = rest \o end /\ Len(tail) = Len(rest) + Len(end)
  BY TextsJoin, Zenon
<1>10. Append(put, C!NUL) = name \o tail
  <2>1. name \o rest \in Texts
    BY TextsJoin, Zenon
  <2>2. Append(name \o rest, C!NUL) = (name \o rest) \o end
    BY <1>5, <2>1, Letters, TextsGrow, Zenon
  <2>3. Regroups(name, rest, end)
    BY TextsRegroup, Zenon
  <2>4. QED
    BY <1>6, <1>9, <2>2, <2>3, Zenon DEF Regroups
<1>11. C!Split(name \o tail) = <<path>> \o arguments
  <2> DEFINE last == C!Loop(C!TakeChar, Idle(<<path>>), tail)
  <2>1. C!Split(name \o tail) = last.args
    BY <1>1, <1>3, SplitAfterName, Zenon
  <2>2. <<path>> \in Seq(Texts) /\ C!NUL \in {C!Space, C!NUL}
    BY SMTT(60), SMTT(90), <1>1
  <2>3. Runs(TakeRel, Idle(<<path>>), tail, Idle(<<path>> \o arguments))
    BY <1>2, <1>5, <1>9, <2>2, Zenon DEF Passes
  <2>4. last = Idle(<<path>> \o arguments)
    BY <2>3, TakeLoop, Zenon DEF Texts
  <2> HIDE DEF last
  <2>5. Idle(<<path>> \o arguments).args = <<path>> \o arguments
    BY Zenon DEF Idle, C!Reading
  <2>6. QED
    BY <2>1, <2>4, <2>5, Zenon
<1>12. Len(name \o tail) <= measured + 1
  <2>1. Len(name \o tail) = Len(name) + Len(tail)
    BY TextsJoin, Zenon
  <2>2. Len(rest) \in Nat /\ Len(path) \in Nat
    BY SMTT(60), SMTT(90), <1>1 DEF Texts
  <2>3. Len(rest) <= len
    BY <1>2, Zenon DEF Passes
  <2>4. QED
    BY SMTT(60), SMTT(90), <1>3, <1>4, <1>5, <1>6, <1>9, <2>1, <2>2, <2>3
<1>13. QED
  BY <1>8, <1>10, <1>11, <1>12, Zenon

\* What x_process_build_environment_block writes fills its buffer exactly.
LEMMA BlockBuilt ==
    ASSUME environment \in Seq(Texts)
    PROVE  /\ Len(C!x_process_build_environment_block.text)
                  = C!x_process_build_environment_block.capacity
           /\ Len(C!x_process_build_environment_block.text) \in Nat
<1>1. PICK rest \in Texts, len \in Nat : Fills(environment, rest, len)
  BY EveryListFilled, Zenon
<1> DEFINE put == C!Loop(C!PutVariable, <<>>, environment)
           measured == C!Loop(C!MeasureVariable, 1, environment)
<1>2. <<>> \in Texts /\ 1 \in Nat /\ <<>> \o rest = rest
  BY SMTT(60), SMTT(90) DEF Texts
<1>3. put = rest /\ measured = 1 + len
  BY <1>1, <1>2, MeasureVariableLoop, PutVariableLoop, Zenon DEF Fills
<1>4. C!x_process_build_environment_block = [capacity |-> measured, text |-> Append(put, C!NUL)]
  BY Zenon DEF C!x_process_build_environment_block
<1> HIDE DEF put, measured
<1>5. /\ C!x_process_build_environment_block.capacity = measured
      /\ C!x_process_build_environment_block.text = Append(put, C!NUL)
  BY Zenon, <1>4
<1>6. Len(Append(rest, C!NUL)) = Len(rest) + 1
  BY DEF Texts
<1>7. Len(rest) = len
  BY <1>1, Zenon DEF Fills
<1>8. QED
  BY SMTT(60), SMTT(90), <1>3, <1>5, <1>6, <1>7

(***************************************************************************)
(* The command line of a child.                                            *)
(***************************************************************************)
\* The lists of the model are sequences.
LEMMA ListsAreSequences ==
    ASSUME NEW n \in Nat, NEW S, NEW D, S \subseteq D
    PROVE  C!ListsUpTo(n, S) \subseteq Seq(D)
<1>1. ASSUME NEW k \in 0 .. n, NEW l \in [1 .. k -> S]
      PROVE  l \in Seq(D)
  <2>1. k \in Nat /\ l \in [1 .. k -> D]
    OBVIOUS
  <2>2. QED
    BY SMTT(60), SMTT(90), <2>1
<1>2. QED
  BY <1>1, Zenon DEF C!ListsUpTo

\* Path, arguments and variables are texts, and what has been written of them is
\* what they are.
CommandInv ==
    /\ part = "command_line" =>
           path \in Names /\ arguments \in Seq(Texts) /\ environment \in Seq(Texts)
    /\ C!ArgumentsArrive /\ C!BuffersSuffice

\* At first nothing is written.
LEMMA CommandInit == Init => CommandInv
<1> SUFFICES ASSUME Init
             PROVE  CommandInv
  OBVIOUS
<1>1. command_line = C!Unwritten /\ block = C!Unwritten
  BY Zenon DEF Init, C!Init
<1>2. ASSUME part = "command_line"
      PROVE  path \in Names /\ arguments \in Seq(Texts) /\ environment \in Seq(Texts)
  <2>1. MaxLength \in Nat /\ MaxArguments \in Nat /\ MaxPath \in Nat /\ C!Quote \notin PathChars
    BY Zenon, ProcessesAssumption DEF C!Quote
  <2>2. Chars \subseteq Alphabet /\ PathChars \subseteq Plain
    BY Zenon, <2>1 DEF Alphabet, Plain
  <2>3. C!Strings \subseteq Texts
    BY <2>1, <2>2, ListsAreSequences, Zenon DEF C!Strings, Texts
  <2>4. C!ListsUpTo(MaxArguments, C!Strings) \subseteq Seq(Texts) /\ <<>> \in Seq(Texts)
    <3>1. <<>> \in Seq(Texts)
      OBVIOUS
    <3>2. QED
      BY <2>1, <2>3, <3>1, ListsAreSequences, Zenon
  <2>5. C!Programs \subseteq Names
    <3>1. C!ListsUpTo(MaxPath, PathChars) \subseteq Seq(Plain)
      BY <2>1, <2>2, ListsAreSequences, Zenon
    <3>2. QED
      BY <3>1, Zenon DEF C!Programs, Names
  <2>6. /\ path \in C!Programs
        /\ arguments \in C!ListsUpTo(MaxArguments, C!Strings)
        /\ environment \in C!ListsUpTo(MaxArguments, C!Strings) \/ environment = <<>>
    BY <1>2, Zenon DEF Init, C!Init
  <2>7. QED
    BY <2>4, <2>5, <2>6, Zenon
<1>3. C!ArgumentsArrive
  BY <1>1, Zenon DEF C!ArgumentsArrive, C!Written
<1>4. C!BuffersSuffice
  <2>1. Len(C!Unwritten.text) <= C!Unwritten.capacity
    BY DEF C!Unwritten
  <2>2. QED
    BY <1>1, <2>1, Zenon DEF C!BuffersSuffice
<1>5. QED
  BY <1>2, <1>3, <1>4, Zenon DEF CommandInv

\* x_process_start writes both buffers at once.
LEMMA CommandStep == CommandInv /\ [Next]_vars => CommandInv'
<1> SUFFICES ASSUME CommandInv, [Next]_vars
             PROVE  CommandInv'
  OBVIOUS
<1>1. CASE part = "command_line" /\ C!Start /\ part' = part
  <2>1. /\ path' = path /\ arguments' = arguments /\ environment' = environment
        /\ command_line' = C!x_process_build_command_line
        /\ block' = C!x_process_build_environment_block
    BY <1>1, Zenon DEF C!Start
  <2>2. path \in Names /\ arguments \in Seq(Texts) /\ environment \in Seq(Texts)
    BY <1>1, Zenon DEF CommandInv
  <2>3. /\ C!Split(command_line'.text) = <<path>> \o arguments
        /\ Len(command_line'.text) <= command_line'.capacity
    BY <2>1, <2>2, CommandLineBuilt, Zenon
  <2>4. Len(block'.text) <= block'.capacity
    <3>1. Len(block'.text) = block'.capacity /\ Len(block'.text) \in Nat
      BY <2>1, <2>2, BlockBuilt, Zenon
    <3>2. QED
      BY SMTT(60), SMTT(90), <3>1
  <2>5. C!ArgumentsArrive'
    BY <2>1, <2>3, Zenon DEF C!ArgumentsArrive
  <2>6. C!BuffersSuffice'
    BY <2>3, <2>4, Zenon DEF C!BuffersSuffice
  <2>7. QED
    BY <2>1, <2>2, <2>5, <2>6, Zenon DEF CommandInv
<1>2. CASE UNCHANGED <<part, command_vars>>
  <2>1. /\ part' = part /\ path' = path /\ arguments' = arguments /\ environment' = environment
        /\ command_line' = command_line /\ block' = block
    BY <1>2, Zenon DEF command_vars
  <2>2. C!ArgumentsArrive'
    BY <2>1, Zenon DEF CommandInv, C!ArgumentsArrive, C!Written
  <2>3. C!BuffersSuffice'
    BY <2>1, Zenon DEF CommandInv, C!BuffersSuffice
  <2>4. QED
    BY <2>1, <2>2, <2>3, Zenon DEF CommandInv
<1>3. \/ part = "command_line" /\ C!Start /\ part' = part
      \/ UNCHANGED <<part, command_vars>>
  BY Zenon DEF Next, InPipeline, Ended, vars, C!Next
<1>4. QED
  BY <1>1, <1>2, <1>3, Zenon

\* A child's runtime splits the command line that x_process_build_command_line has
\* written into the program's name and exactly the arguments given, however many,
\* however long and whatever their characters; neither it nor the environment block
\* outgrows the buffer measured for it.
THEOREM CommandLineArrives == FairSpec => []CommandLineSound
<1>1. Init => CommandInv
  BY CommandInit, Zenon
<1>2. CommandInv /\ [Next]_vars => CommandInv'
  BY CommandStep, Zenon
<1>3. CommandInv => CommandLineSound
  BY Zenon DEF CommandInv, CommandLineSound
<1>4. QED
  BY <1>1, <1>2, <1>3, PTL DEF FairSpec

==============================================================================
