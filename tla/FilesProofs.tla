----------------------------- MODULE FilesProofs -----------------------------
(***************************************************************************)
(* Proofs about Files: files and a size_t of any size, any names, any      *)
(* number of handles, and any calls that fail.                             *)
(***************************************************************************)
EXTENDS Files, SequenceTheorems, WellFoundedInduction, TLAPS

(***************************************************************************)
(* A step of Files is a step of one part, and the others stutter.          *)
(***************************************************************************)
\* Only the part that a behaviour is about moves: for an asynchronous read every
\* step is its own or none.
LEMMA AsyncReadSteps == [Next]_vars => [A!Next]_(A!vars)
BY Zenon DEF Next, InAsyncRead, Joined, vars, async_vars, A!vars, A!memory, A!locals, A!history

\* The same for the watcher.
LEMMA WatcherSteps == [Next]_vars => [W!Next]_(W!vars)
BY Zenon DEF Next, InAsyncRead, Joined, vars, watcher_vars, W!vars

\* The same for the listing of a directory.
LEMMA DirectorySteps == [Next]_vars => [D!Next]_(D!vars)
BY Zenon DEF Next, InAsyncRead, Joined, vars, directory_vars, D!vars

\* The same for the open files.
LEMMA OpenFileSteps == [Next]_vars => [O!Next]_(O!vars)
BY Zenon DEF Next, InAsyncRead, Joined, vars, open_vars, O!vars

(***************************************************************************)
(* The asynchronous read.                                                  *)
(***************************************************************************)
Started == {"started", "ready", "joining", "joining_to_free", "joined", "freeing"}
BeforeBlock == {"none", "open", "fstat", "malloc"}
AfterClose == {"callback", "entry", "exited"}
Working == {"open", "fstat", "malloc", "read", "close", "callback", "entry"}

\* Client and worker: the operation is freed only after the worker has exited.
LifeInv ==
    /\ client \in Started \cup {"start", "refused", "destroyed"}
    /\ worker \in Working \cup {"none", "exited"}
    /\ live \subseteq A!Block
    /\ client \in {"start", "refused"} => worker = "none" /\ live = {}
    /\ client \in Started => worker # "none" /\ {"operation", "path", "thread"} \subseteq live
    /\ client \in {"joined", "freeing", "destroyed"} => worker = "exited"
    /\ client = "destroyed" => live = {}
    /\ joined = TRUE => worker = "exited"

\* The block: it is there from its allocation to the end, and what has been read
\* fits.
BlockInv ==
    /\ fsize \in Nat /\ file_size \in Nat /\ total \in Nat
    /\ file = TRUE => worker \in {"fstat", "malloc", "read", "close"}
    /\ worker \in BeforeBlock => total = 0 /\ "data" \notin live
    /\ worker = "read" => "data" \in live
    /\ A!WithinBlock

\* Before its first step the client has nothing.
LEMMA LifeInit == A!Init => LifeInv
BY Zenon DEF A!Init, LifeInv, Started, Working

\* pthread_join comes before every free.
LEMMA LifeStep == LifeInv /\ [A!Next]_(A!vars) => LifeInv'
<1> SUFFICES ASSUME LifeInv, [A!Next]_(A!vars)
             PROVE  LifeInv'
  OBVIOUS
<1> USE DEF LifeInv, Started, Working, A!Block, A!memory, A!locals, A!history
<1>1. CASE A!ReadAllFails \/ A!x_async_file_read_all \/ A!ReadAllReturns
  BY Zenon, <1>1 DEF A!ReadAllFails, A!x_async_file_read_all, A!ReadAllReturns
<1>2. CASE A!x_async_file_read_wait \/ A!x_async_file_read_destroy
  BY Zenon, <1>2 DEF A!x_async_file_read_wait, A!x_async_file_read_destroy
<1>3. CASE A!x_thread_join \/ A!WaitReturns \/ A!Free
  BY Zenon, <1>3 DEF A!x_thread_join, A!WaitReturns, A!Free
<1>4. CASE A!Open \/ A!Size \/ A!Close \/ A!Callback \/ A!x_thread_entry
  BY Zenon, <1>4 DEF A!Open, A!Size, A!Close, A!Callback, A!x_thread_entry, A!Advance
<1>5. CASE A!Allocate
  BY Zenon, <1>5 DEF A!Allocate, A!Advance
<1>6. CASE A!Read \/ A!ReadDone
  BY Zenon, <1>6 DEF A!Read, A!ReadDone
<1>7. CASE A!FileChanges \/ A!Terminated \/ UNCHANGED A!vars
  BY ZenonT(60), <1>7 DEF A!FileChanges, A!Terminated, A!vars
<1>8. QED
  BY ZenonT(60), <1>1, <1>2, <1>3, <1>4, <1>5, <1>6, <1>7 DEF A!Next, A!InCall, A!Worker

\* No read passes the block, which no later step frees before the worker has exited.
LEMMA BlockStep ==
    ASSUME SIZE_MAX \in Nat, MaxSize \in Nat, LifeInv, BlockInv, [A!Next]_(A!vars)
    PROVE  BlockInv'
<1> USE DEF BlockInv, A!WithinBlock, BeforeBlock, A!memory, A!locals, A!history
<1>1. CASE A!ReadAllFails \/ A!ReadAllReturns
  BY Zenon, <1>1 DEF A!ReadAllFails, A!ReadAllReturns
<1>2. CASE A!x_async_file_read_all
  BY Zenon, <1>2 DEF A!x_async_file_read_all, LifeInv
<1>3. CASE A!x_async_file_read_wait \/ A!x_async_file_read_destroy \/ A!x_thread_join \/ A!WaitReturns
  BY Zenon, <1>3 DEF A!x_async_file_read_wait, A!x_async_file_read_destroy, A!x_thread_join,
       A!WaitReturns
<1>4. CASE A!Free
  BY Zenon, <1>4 DEF A!Free, LifeInv
<1>5. CASE A!Open
  BY Zenon, <1>5 DEF A!Open, A!Advance
<1>6. CASE A!Size
  BY Zenon, <1>6 DEF A!Size, A!Advance
<1>7. CASE A!Allocate
  BY SMTT(60), SMTT(90), <1>7 DEF A!Allocate, A!Advance
<1>8. CASE A!Read
  <2>1. ASSUME NEW k \in A!Available(file_size - total), total' = total + k
        PROVE  total' \in Nat /\ total' <= file_size
    BY SMTT(60), SMTT(90), <1>8, <2>1 DEF A!Read, A!Available
  <2>2. /\ UNCHANGED <<live, file, fsize, file_size>>
        /\ worker = "read" /\ worker' \in {"read", "close"}
    BY Zenon, <1>8 DEF A!Read
  <2>3. total' \in Nat /\ total' <= file_size
    BY Zenon, <1>8, <2>1 DEF A!Read
  <2>4. QED
    BY Zenon, <2>2, <2>3
<1>9. CASE A!ReadDone \/ A!Close \/ A!Callback \/ A!x_thread_entry
  BY Zenon, <1>9 DEF A!ReadDone, A!Close, A!Callback, A!x_thread_entry, A!Advance
<1>10. CASE A!FileChanges \/ A!Terminated \/ UNCHANGED A!vars
  BY SMTT(60), SMTT(90), <1>10 DEF A!FileChanges, A!Terminated, A!vars
<1>11. QED
  BY ZenonT(60), <1>1, <1>2, <1>3, <1>4, <1>5, <1>6, <1>7, <1>8, <1>9, <1>10 DEF A!Next,
       A!InCall, A!Worker

\* Whatever fails, and whenever the client destroys the operation, the worker works
\* on live memory and within its block, and at the end nothing is left.
THEOREM MemoryIsSafe == FairSpec => []AsyncReadMemory
<1>1. Init => LifeInv /\ BlockInv
  BY SMTT(60), SMTT(90), LifeInit, FilesAssumption DEF Init, A!Init, BlockInv, A!WithinBlock
<1>2. LifeInv /\ BlockInv /\ [Next]_vars => LifeInv' /\ BlockInv'
  BY Zenon, FilesAssumption, AsyncReadSteps, LifeStep, BlockStep
<1>3. LifeInv /\ BlockInv => AsyncReadMemory
  <2> SUFFICES ASSUME LifeInv, BlockInv
               PROVE  AsyncReadMemory
    OBVIOUS
  <2>1. A!NoUseAfterFree
    BY Zenon DEF LifeInv, A!NoUseAfterFree, Started, Working
  <2>2. A!NothingLeft
    BY Zenon DEF LifeInv, BlockInv, A!NothingLeft, Started
  <2>3. QED
    BY Zenon, <2>1, <2>2 DEF BlockInv, AsyncReadMemory, A!AsyncReadMemory
<1>4. QED
  BY <1>1, <1>2, <1>3, PTL DEF FairSpec

\* The result is what the loop has read.  It is of the whole file unless there was
\* an error or the file has changed.
ResultInv ==
    /\ worker \notin {"entry", "exited"} => reports = <<>>
    /\ worker \in {"entry", "exited"} => reports = IF callback THEN <<result>> ELSE <<>>
    /\ answer # {} => worker = "exited"
    /\ \A a \in answer : a = result
    /\ worker \in {"malloc", "read"} /\ changed = FALSE => file_size = fsize
    /\ worker = "close" /\ error = FALSE /\ changed = FALSE => total = fsize
    /\ worker \in AfterClose /\ result.error = FALSE /\ changed = FALSE => result.size = fsize

\* The result is stored once, reported once, and then stays.
LEMMA ResultStep ==
    ASSUME LifeInv, BlockInv, ResultInv, [A!Next]_(A!vars)
    PROVE  ResultInv'
<1> USE DEF ResultInv, AfterClose, A!memory, A!locals, A!history
<1>1. CASE A!ReadAllFails \/ A!ReadAllReturns
  BY SMTT(60), SMTT(90), <1>1 DEF A!ReadAllFails, A!ReadAllReturns
<1>2. CASE A!x_async_file_read_all
  BY Zenon, <1>2 DEF A!x_async_file_read_all, LifeInv
<1>3. CASE A!x_async_file_read_wait \/ A!x_async_file_read_destroy \/ A!x_thread_join \/ A!Free
  BY SMTT(60), SMTT(90), <1>3
       DEF A!x_async_file_read_wait, A!x_async_file_read_destroy, A!x_thread_join, A!Free
<1>4. CASE A!WaitReturns
  BY Zenon, <1>4 DEF A!WaitReturns, LifeInv
<1>5. CASE A!Open
  BY Zenon, <1>5 DEF A!Open, A!Advance, A!Fail
<1>6. CASE A!Size
  BY Zenon, <1>6 DEF A!Size, A!Advance, A!Fail
<1>7. CASE A!Allocate
  BY Zenon, <1>7 DEF A!Allocate, A!Advance, A!Fail
<1>8. CASE A!Read
  <2>1. ASSUME NEW k \in A!Available(file_size - total), total' = total + k, k = 0,
               changed = FALSE
        PROVE  total' = fsize
    BY SMTT(60), SMTT(90), <1>8, <2>1 DEF A!Read, A!Available, BlockInv, A!WithinBlock
  <2>2. QED
    BY ZenonT(60), <1>8, <2>1 DEF A!Read, A!Fail
<1>9. CASE A!ReadDone
  BY Zenon, <1>9 DEF A!ReadDone
<1>10. CASE A!Close
  BY Zenon, <1>10 DEF A!Close, A!Advance
<1>11. CASE A!Callback
  BY SMTT(60), SMTT(90), <1>11 DEF A!Callback, A!Advance
<1>12. CASE A!x_thread_entry
  BY Zenon, <1>12 DEF A!x_thread_entry, A!Advance
<1>13. CASE A!FileChanges \/ A!Terminated \/ UNCHANGED A!vars
  BY SMTT(60), SMTT(90), <1>13 DEF A!FileChanges, A!Terminated, A!vars
<1>14. QED
  BY ZenonT(60), <1>1, <1>2, <1>3, <1>4, <1>5, <1>6, <1>7, <1>8, <1>9, <1>10, <1>11, <1>12,
       <1>13
     DEF A!Next, A!InCall, A!Worker

\* Whoever waits finds the callback called once with the same result; and a result
\* without an error is the whole file, however short the reads were.
THEOREM ResultIsTrue == FairSpec => []AsyncReadResult
<1>1. Init => LifeInv /\ BlockInv /\ ResultInv
  BY SMTT(60), SMTT(90), LifeInit, FilesAssumption
       DEF Init, A!Init, BlockInv, A!WithinBlock, ResultInv, AfterClose
<1>2. LifeInv /\ BlockInv /\ ResultInv /\ [Next]_vars => LifeInv' /\ BlockInv' /\ ResultInv'
  BY ZenonT(60), FilesAssumption, AsyncReadSteps, LifeStep, BlockStep, ResultStep
<1>3. LifeInv /\ ResultInv => AsyncReadResult
  <2> SUFFICES ASSUME LifeInv, ResultInv
               PROVE  AsyncReadResult
    OBVIOUS
  <2>1. reports = <<>> \/ (reports = <<result>> /\ worker \in AfterClose)
    BY Zenon DEF ResultInv, AfterClose
  <2>2. A!CallbackBeforeWaitReturns
    <3>1. CASE reports = <<>>
      BY SMTT(60), SMTT(90), <3>1 DEF ResultInv, A!CallbackBeforeWaitReturns
    <3>2. CASE reports = <<result>>
      BY SMTT(60), SMTT(90), <3>2 DEF ResultInv, A!CallbackBeforeWaitReturns
    <3>3. QED
      BY Zenon, <2>1, <3>1, <3>2
  <2>3. A!WholeFileRead
    BY SMTT(60), SMTT(90), <2>1 DEF ResultInv, A!WholeFileRead
  <2>4. QED
    BY Zenon, <2>2, <2>3 DEF AsyncReadResult, A!AsyncReadResult
<1>4. QED
  BY <1>1, <1>2, <1>3, PTL DEF FairSpec

(***************************************************************************)
(* The file watcher.                                                       *)
(***************************************************************************)
Snapshots == [exists : BOOLEAN, is_directory : BOOLEAN, size : Nat, modified : Nat]

\* No time stamp is of the future: that of the file is not after the clock, that of
\* the last snapshot not after the moment it was taken.
WatcherInv ==
    /\ clock \in Nat /\ taken \in Nat /\ taken <= clock
    /\ watched \in Snapshots /\ watched.modified <= clock
    /\ state \in Snapshots /\ state.modified <= taken
    /\ told \in BOOLEAN /\ told = state.exists

\* A snapshot is a record of the same kind, with the same time and existence.
LEMMA SnapshotTyped ==
    ASSUME watched \in Snapshots
    PROVE  /\ W!x_file_watcher_snapshot \in Snapshots
           /\ W!x_file_watcher_snapshot.exists = watched.exists
           /\ W!x_file_watcher_snapshot.modified = watched.modified
BY Zenon DEF Snapshots, W!x_file_watcher_snapshot

\* CREATED and DELETED tell of a change of existence, and nothing else does.
LEMMA EventsOfExistence ==
    ASSUME NEW old \in Snapshots, NEW new \in Snapshots
    PROVE  /\ "CREATED" \in W!Events(old, new) <=> old.exists = FALSE /\ new.exists = TRUE
           /\ "DELETED" \in W!Events(old, new) <=> old.exists = TRUE /\ new.exists = FALSE
BY Zenon DEF Snapshots, W!Events

\* Polls, changes of the file and the clock keep the time stamps in order.
LEMMA WatcherStep ==
    ASSUME WatcherInv, [W!Next]_(W!vars)
    PROVE  WatcherInv'
<1>1. CASE W!x_file_watcher_poll
  <2>1. /\ UNCHANGED <<clock, watched>>
        /\ taken' = clock /\ state' = W!x_file_watcher_snapshot
    BY Zenon, <1>1 DEF W!x_file_watcher_poll
  <2>2. state' \in Snapshots /\ state'.exists = watched.exists /\ state'.modified = watched.modified
    BY Zenon, <2>1, SnapshotTyped DEF WatcherInv
  <2>3. told' = IF "CREATED" \in W!Events(state, state') THEN TRUE
                ELSE IF "DELETED" \in W!Events(state, state') THEN FALSE ELSE told
    BY <1>1, <2>1, Zenon DEF W!x_file_watcher_poll
  <2>4. /\ state \in Snapshots /\ told = state.exists
        /\ state.exists \in BOOLEAN /\ state'.exists \in BOOLEAN
    BY Zenon, <2>2 DEF WatcherInv, Snapshots
  <2>5. told' = state'.exists
    BY <2>2, <2>3, <2>4, EventsOfExistence, ZenonT(60)
  <2>6. QED
    BY SMTT(60), SMTT(90), <2>1, <2>2, <2>4, <2>5 DEF WatcherInv
<1>2. CASE \E d \in BOOLEAN, s \in Sizes : W!Create(d, s)
  BY SMTT(60), SMTT(90), <1>2, FilesAssumption
       DEF WatcherInv, Snapshots, W!Create, W!Entry, W!Change
<1>3. CASE \E s \in Sizes : W!Write(s)
  BY SMTT(60), SMTT(90), <1>3, FilesAssumption DEF WatcherInv, Snapshots, W!Write, W!Entry, W!Change
<1>4. CASE W!Delete
  BY SMTT(60), SMTT(90), <1>4 DEF WatcherInv, Snapshots, W!Delete, W!Absent, W!Change
<1>5. CASE W!Tick \/ UNCHANGED W!vars
  BY SMTT(60), SMTT(90), <1>5 DEF WatcherInv, Snapshots, W!Tick, W!vars
<1>6. QED
  BY Zenon, <1>1, <1>2, <1>3, <1>4, <1>5 DEF W!Next

\* The events of a watcher tell whether the file exists, and no later change is
\* overlooked, for files of any size and any sequence of changes and polls.
THEOREM WatcherReportsChanges == FairSpec => []ChangesReported
<1>1. Init => WatcherInv
  <2> SUFFICES ASSUME W!Init
               PROVE  WatcherInv
    BY Zenon DEF Init
  <2>1. clock = 0 /\ watched \in Snapshots /\ watched.modified = 0
    <3>1. clock = 0 /\ Sizes \subseteq Nat
      BY Zenon, FilesAssumption DEF W!Init
    <3>2. W!Absent \in Snapshots /\ W!Absent.modified = 0
      BY Zenon DEF W!Absent, Snapshots
    <3>3. ASSUME NEW d \in BOOLEAN, NEW s \in Sizes
          PROVE  W!Entry(d, s) \in Snapshots /\ W!Entry(d, s).modified = 0
      BY Zenon, <3>1 DEF W!Entry, Snapshots
    <3>4. watched = W!Absent \/ \E d \in BOOLEAN, s \in Sizes : watched = W!Entry(d, s)
      BY DEF W!Init
    <3>5. QED
      BY SMTT(60), SMTT(90), <3>1, <3>2, <3>3, <3>4
  <2>2. watched.exists \in BOOLEAN
    BY Zenon, <2>1 DEF Snapshots
  <2>3. QED
    BY SMTT(60), SMTT(90), <2>1, <2>2, SnapshotTyped DEF W!Init, WatcherInv
<1>2. WatcherInv /\ [Next]_vars => WatcherInv'
  BY Zenon, WatcherSteps, WatcherStep
<1>3. WatcherInv => ChangesReported
  <2> SUFFICES ASSUME WatcherInv
               PROVE  ChangesReported
    OBVIOUS
  <2>1. ASSUME watched.exists, state.exists, watched.modified > taken
        PROVE  W!Events(state, W!x_file_watcher_snapshot) # {}
    BY SMTT(60), SMTT(90), <2>1, SnapshotTyped DEF WatcherInv, Snapshots, W!Events
  <2>2. QED
    BY Zenon, <2>1 DEF WatcherInv, ChangesReported, W!EventsTellExistence, W!LaterChangesSeen
<1>4. QED
  BY <1>1, <1>2, <1>3, PTL DEF FairSpec

(***************************************************************************)
(* Open files and a mapping.                                               *)
(***************************************************************************)
Accesses == SUBSET {"READ", "WRITE", "APPEND"}

OpenHandles == [access : Accesses, offset : Nat, sought : BOOLEAN]
Mappings == [at : {"none", "created", "opened", "sized", "mapped"}, size : Nat, writable : BOOLEAN]

OpenTypes ==
    /\ build \in {"posix", "windows"} /\ length \in Nat /\ shrunk \in BOOLEAN
    /\ handle \in [Handles -> OpenHandles]
    /\ mapping \in Mappings

\* The share modes of Windows: a writer is alone, and so is a writable mapping.
Exclusive ==
    build = "windows" =>
        /\ \A g, h \in Handles : g # h /\ O!Writes(handle[g].access) => ~O!IsOpen(h)
        /\ mapping.at # "none" => \A h \in Handles : ~O!Writes(handle[h].access)
        /\ mapping.at # "none" /\ mapping.writable = TRUE => \A h \in Handles : ~O!IsOpen(h)
        /\ mapping.at = "created" => mapping.writable = TRUE

\* So nobody moves the end of the file away from a handle that appends ...
AppendInv ==
    build = "windows" =>
        \A h \in Handles : "APPEND" \in handle[h].access /\ handle[h].sought = FALSE
            => handle[h].offset = length

\* ... and a mapping has its size from the step that takes it.
SizeInv ==
    /\ mapping.at \in {"created", "sized", "mapped"} => mapping.size > 0
    /\ mapping.at \in {"sized", "mapped"} =>
           mapping.size <= length \/ (shrunk = TRUE /\ build = "posix")

OpenInv == OpenTypes /\ Exclusive /\ AppendInv /\ SizeInv

\* A handle is opened: on Windows only where the share modes admit it.
LEMMA OpenKeeps ==
    ASSUME OpenInv, NEW h \in Handles, NEW mode \in O!Modes, O!x_file_open(h, mode)
    PROVE  OpenInv'
<1> DEFINE new == [access |-> mode \cap {"READ", "WRITE", "APPEND"}, sought |-> FALSE,
                   offset |-> IF build = "windows" /\ "APPEND" \in mode
                              THEN length' ELSE 0]
<1>1. /\ handle' = [handle EXCEPT ![h] = new]
      /\ length' = IF "TRUNCATE" \in mode THEN 0 ELSE length
      /\ shrunk' = (shrunk \/ length' < length)
      /\ UNCHANGED <<build, mapping>>
      /\ O!Share(mode) /\ ~O!IsOpen(h)
  BY Zenon DEF O!x_file_open
<1>2. length' \in Nat /\ length' <= length
  BY SMTT(60), SMTT(90), <1>1 DEF OpenInv, OpenTypes, OpenHandles, Mappings
<1>3. new \in OpenHandles
  BY Zenon, <1>2 DEF Accesses, OpenHandles
<1>4. OpenTypes'
  BY Zenon, <1>1, <1>2, <1>3 DEF OpenInv, OpenTypes, OpenHandles, Mappings
<1>5. O!Writes(new.access) <=> O!Writes(mode)
  BY Zenon DEF O!Writes
<1> HIDE DEF new
<1>6. \A g \in Handles : handle'[g] = IF g = h THEN new ELSE handle[g]
  BY Zenon, <1>1 DEF OpenInv, OpenTypes, OpenHandles, Mappings
<1>7. ASSUME build = "windows"
       PROVE  /\ \A g \in Handles : O!IsOpen(g) => ~O!Writes(mode) /\ ~O!Writes(handle[g].access)
              /\ mapping.at # "none" => /\ ~O!Writes(mode) /\ mapping.writable # TRUE
                                       /\ "TRUNCATE" \notin mode
  BY Zenon, <1>1, <1>7 DEF O!Share
<1>8. Exclusive'
  <2> SUFFICES ASSUME build = "windows"
               PROVE  Exclusive'
    BY ZenonT(60), <1>1 DEF Exclusive
  <2>1. ASSUME NEW g \in Handles, NEW k \in Handles, g # k, O!Writes(handle'[g].access)
        PROVE  handle'[k].access = {}
    <3>1. CASE g = h
      BY ZenonT(60), <2>1, <3>1, <1>5, <1>6, <1>7 DEF O!IsOpen
    <3>2. CASE g # h
      <4>1. O!Writes(handle[g].access) /\ O!IsOpen(g)
        BY Zenon, <2>1, <3>2, <1>6 DEF O!Writes, O!IsOpen
      <4>2. QED
        BY Zenon, <4>1, <1>7
    <3>3. QED
      BY Zenon, <3>1, <3>2
  <2>2. ASSUME mapping.at # "none", NEW g \in Handles
        PROVE  ~O!Writes(handle'[g].access)
    <3>1. ~O!Writes(mode) /\ ~O!Writes(handle[g].access)
      BY Zenon, <2>2, <1>7 DEF OpenInv, Exclusive
    <3>2. QED
      BY Zenon, <3>1, <1>5, <1>6
  <2>3. QED
    BY ZenonT(60), <2>1, <2>2, <1>1, <1>7 DEF OpenInv, Exclusive, O!IsOpen
<1>9. AppendInv'
  <2> SUFFICES ASSUME build = "windows", NEW g \in Handles, "APPEND" \in handle'[g].access,
                      handle'[g].sought = FALSE
               PROVE  handle'[g].offset = length'
    BY ZenonT(60), <1>1 DEF AppendInv
  <2>1. CASE g = h
    BY SMTT(60), SMTT(90), <2>1, <1>6 DEF new
  <2>2. CASE g # h
    <3>1. O!Writes(handle[g].access) /\ O!IsOpen(g)
      BY Zenon, <2>2, <1>6 DEF O!Writes, O!IsOpen
    <3>2. QED
      BY Zenon, <3>1, <1>7
  <2>3. QED
    BY Zenon, <2>1, <2>2
<1>10. SizeInv'
  <2>1. shrunk = TRUE \/ length' < length => shrunk' = TRUE
    BY ZenonT(60), <1>1
  <2>2. CASE build = "windows" /\ mapping.at # "none"
    <3>1. length' = length
      BY Zenon, <2>2, <1>1, <1>7
    <3>2. QED
      BY Zenon, <2>1, <3>1, <1>1, <2>2 DEF OpenInv, SizeInv
  <2>3. CASE build = "posix"
    BY SMTT(60), SMTT(90), <2>1, <1>1, <1>2, <2>3
         DEF OpenInv, OpenTypes, OpenHandles, Mappings, SizeInv
  <2>4. QED
    BY Zenon, <2>2, <2>3, <1>1 DEF OpenInv, OpenTypes, OpenHandles, Mappings, SizeInv
<1>11. QED
  BY Zenon, <1>4, <1>8, <1>9, <1>10 DEF OpenInv

\* Reading does not pass the end of the file: a handle that appends cannot read on.
LEMMA ReadKeeps ==
    ASSUME OpenInv, NEW h \in Handles, NEW n \in 1 .. 2, O!x_file_read(h, n)
    PROVE  OpenInv'
<1>1. PICK k \in 1 .. n : /\ handle[h].offset + k <= length
                         /\ handle' = [handle EXCEPT ![h].offset = @ + k]
  BY ZenonT(60) DEF O!x_file_read
<1>2. UNCHANGED <<build, length, mapping, shrunk>>
  BY Zenon DEF O!x_file_read
<1>3. OpenTypes'
  BY SMTT(60), SMTT(90), <1>1, <1>2 DEF OpenInv, OpenTypes, OpenHandles, Mappings
<1>4. \A g \in Handles : /\ handle'[g].access = handle[g].access
                         /\ handle'[g].sought = handle[g].sought
                         /\ g # h => handle'[g] = handle[g]
  BY Zenon, <1>1 DEF OpenInv, OpenTypes, OpenHandles, Mappings
<1>5. Exclusive'
  BY Zenon, <1>2, <1>4 DEF OpenInv, Exclusive, O!IsOpen
<1>6. AppendInv'
  BY SMTT(60), SMTT(90), <1>1, <1>2, <1>4 DEF OpenInv, OpenTypes, OpenHandles, Mappings, AppendInv
<1>7. SizeInv'
  BY Zenon, <1>2 DEF OpenInv, SizeInv
<1>8. QED
  BY Zenon, <1>3, <1>5, <1>6, <1>7 DEF OpenInv

\* A write leaves the handle behind the last byte it has written, and the file at
\* least as long: that is the end of the file for a handle that appends.
LEMMA WriteKeeps ==
    ASSUME OpenInv, NEW h \in Handles, NEW n \in 1 .. 2, O!x_file_write(h, n)
    PROVE  OpenInv'
<1>1. PICK k \in 1 .. n :
          /\ length' = IF O!Position(h) + k > length THEN O!Position(h) + k ELSE length
          /\ handle' = [handle EXCEPT ![h].offset = O!Position(h) + k]
  BY Zenon DEF O!x_file_write
<1>2. UNCHANGED <<build, mapping, shrunk>> /\ O!Writes(handle[h].access)
  BY Zenon DEF O!x_file_write
<1>3. O!Position(h) \in Nat
  BY Zenon DEF OpenInv, OpenTypes, OpenHandles, Mappings, O!Position
<1>4. OpenTypes' /\ length' >= length
  BY SMTT(60), SMTT(90), <1>1, <1>2, <1>3 DEF OpenInv, OpenTypes, OpenHandles, Mappings
<1>5. \A g \in Handles : /\ handle'[g].access = handle[g].access
                         /\ handle'[g].sought = handle[g].sought
                         /\ g # h => handle'[g] = handle[g]
  BY Zenon, <1>1 DEF OpenInv, OpenTypes, OpenHandles, Mappings
<1>6. Exclusive'
  BY Zenon, <1>2, <1>5 DEF OpenInv, Exclusive, O!IsOpen
<1>7. AppendInv'
  <2> SUFFICES ASSUME build = "windows", NEW g \in Handles, "APPEND" \in handle[g].access,
                      handle[g].sought = FALSE
               PROVE  handle'[g].offset = length'
    BY ZenonT(60), <1>2, <1>5 DEF AppendInv
  <2>1. CASE g = h
    <3>1. O!Position(h) = length
      BY Zenon, <2>1 DEF OpenInv, AppendInv, O!Position
    <3>2. QED
      BY SMTT(60), SMTT(90), <2>1, <3>1, <1>1, <1>3 DEF OpenInv, OpenTypes, OpenHandles, Mappings
  <2>2. CASE g # h
    BY Zenon, <2>2, <1>2 DEF OpenInv, Exclusive, O!IsOpen
  <2>3. QED
    BY Zenon, <2>1, <2>2
<1>8. SizeInv'
  BY SMTT(60), SMTT(90), <1>2, <1>4 DEF OpenInv, OpenTypes, OpenHandles, Mappings, SizeInv
<1>9. QED
  BY Zenon, <1>4, <1>6, <1>7, <1>8 DEF OpenInv

\* Seeking and closing free a handle from what is promised of one that appends.
LEMMA SeekCloseKeep ==
    ASSUME OpenInv, NEW h \in Handles,
           handle' \in [Handles -> OpenHandles],
           \A g \in Handles \ {h} : handle'[g] = handle[g],
           handle'[h].access \in {{}, handle[h].access},
           handle'[h].access = {} \/ handle'[h].sought = TRUE,
           UNCHANGED <<build, length, mapping, shrunk>>
    PROVE  OpenInv'
<1>1. OpenTypes'
  BY Zenon DEF OpenInv, OpenTypes
<1>2. \A g \in Handles : g # h => handle'[g] = handle[g]
  OBVIOUS
<1>3. \A g \in Handles : handle'[g].access \in {{}, handle[g].access}
  BY Zenon, <1>2
<1>4. ~O!Writes({})
  BY Zenon DEF O!Writes
<1>5. Exclusive'
  BY Zenon, <1>3, <1>4 DEF OpenInv, Exclusive, O!IsOpen
<1>6. AppendInv'
  BY Zenon, <1>2 DEF OpenInv, AppendInv
<1>7. SizeInv'
  BY Zenon DEF OpenInv, SizeInv
<1>8. QED
  BY Zenon, <1>1, <1>5, <1>6, <1>7 DEF OpenInv

\* What a mapping does: it truncates the file only when it is created, and then
\* nobody else has it open on Windows.
LEMMA MappingKeeps ==
    ASSUME OpenInv,
           \/ \E n \in 1 .. 2 : O!x_mapped_file_create(n)
           \/ \E writable \in BOOLEAN : O!x_mapped_file_open(writable)
           \/ O!CreateSetsLength \/ O!OpenTakesLength \/ O!Mmap \/ O!x_mapped_file_destroy
    PROVE  OpenInv'
<1>1. ASSUME NEW n \in 1 .. 2, O!x_mapped_file_create(n)
      PROVE  OpenInv'
  <2>1. OpenTypes' /\ SizeInv'
    BY SMTT(60), SMTT(90), <1>1
         DEF O!x_mapped_file_create, OpenInv, OpenTypes, OpenHandles, Mappings, SizeInv
  <2>2. ~O!Writes({})
    BY Zenon DEF O!Writes
  <2>3. Exclusive' /\ AppendInv'
    BY ZenonT(60), <1>1, <2>2 DEF O!x_mapped_file_create, OpenInv, Exclusive, AppendInv,
         O!IsOpen
  <2>4. QED
    BY Zenon, <2>1, <2>3 DEF OpenInv
<1>2. ASSUME NEW writable \in BOOLEAN, O!x_mapped_file_open(writable)
      PROVE  OpenInv'
  <2>1. OpenTypes' /\ SizeInv' /\ AppendInv'
    BY Zenon, <1>2 DEF O!x_mapped_file_open, OpenInv, OpenTypes, OpenHandles, Mappings,
         SizeInv, AppendInv
  <2>2. \A h \in Handles : O!Writes(handle[h].access) => O!IsOpen(h)
    BY Zenon DEF O!Writes, O!IsOpen
  <2>3. Exclusive'
    BY Zenon, <1>2, <2>2 DEF O!x_mapped_file_open, OpenInv, Exclusive, O!IsOpen
  <2>4. QED
    BY Zenon, <2>1, <2>3 DEF OpenInv
<1>3. CASE O!CreateSetsLength
  <2> DEFINE new == [mapping EXCEPT !.at = "sized", !.size = mapping.size]
  <2>1. /\ mapping.at = "created" /\ mapping' = new /\ length' = mapping.size
        /\ UNCHANGED <<build, handle>> /\ shrunk' = FALSE
    BY Zenon, <1>3 DEF O!CreateSetsLength, O!Map
  <2>5. new.at = "sized" /\ new.size = mapping.size /\ new.writable = mapping.writable
    BY Zenon DEF OpenInv, OpenTypes, OpenHandles, Mappings
  <2>6. OpenTypes'
    BY ZenonT(60), <2>1 DEF OpenInv, OpenTypes, OpenHandles, Mappings
  <2> HIDE DEF new
  <2>7. SizeInv'
    BY SMTT(60), SMTT(90), <2>1, <2>5 DEF OpenInv, OpenTypes, OpenHandles, Mappings, SizeInv
  <2>8. Exclusive'
    BY ZenonT(60), <2>1, <2>5 DEF OpenInv, Exclusive, O!IsOpen
  <2>2. build = "windows" => \A h \in Handles : handle[h].access = {}
    BY Zenon, <1>3 DEF O!CreateSetsLength, OpenInv, Exclusive, O!IsOpen
  <2>3. AppendInv'
    BY ZenonT(60), <2>1, <2>2 DEF AppendInv
  <2>4. QED
    BY ZenonT(60), <2>3, <2>6, <2>7, <2>8 DEF OpenInv
<1>4. CASE O!OpenTakesLength
  <2> DEFINE new == [mapping EXCEPT !.at = "sized", !.size = length]
  <2>1. /\ mapping.at = "opened" /\ shrunk' = FALSE /\ UNCHANGED <<build, length, handle>>
        /\ mapping' = O!Unmapped \/ (length # 0 /\ mapping' = new)
    BY Zenon, <1>4 DEF O!OpenTakesLength, O!Map
  <2>2. new.at = "sized" /\ new.size = length /\ new.writable = mapping.writable
    BY Zenon DEF OpenInv, OpenTypes, OpenHandles, Mappings
  <2>7. O!Unmapped.at = "none"
    BY Zenon DEF O!Unmapped
  <2>3. OpenTypes'
    <3>1. O!Unmapped \in Mappings /\ new \in Mappings
      BY ZenonT(60) DEF OpenInv, OpenTypes, Mappings, O!Unmapped
    <3>2. QED
      BY <2>1, <3>1, Zenon DEF OpenInv, OpenTypes
  <2> HIDE DEF new
  <2>4. SizeInv'
    BY SMTT(60), SMTT(90), <2>1, <2>2, <2>7 DEF OpenInv, OpenTypes, OpenHandles, Mappings, SizeInv
  <2>5. Exclusive' /\ AppendInv'
    BY ZenonT(60), <2>1, <2>2, <2>7 DEF OpenInv, Exclusive, AppendInv, O!IsOpen
  <2>6. QED
    BY ZenonT(60), <2>3, <2>4, <2>5 DEF OpenInv
<1>5. CASE O!Mmap
  BY ZenonT(60), <1>5 DEF O!Mmap, O!Map, OpenInv, OpenTypes, OpenHandles, Mappings, SizeInv,
       AppendInv, Exclusive, O!IsOpen
<1>6. CASE O!x_mapped_file_destroy
  BY Zenon, <1>6 DEF O!x_mapped_file_destroy, O!Unmapped, OpenInv, OpenTypes, OpenHandles, Mappings,
       SizeInv, AppendInv,
              Exclusive, O!IsOpen
<1>7. QED
  BY ZenonT(60), <1>1, <1>2, <1>3, <1>4, <1>5, <1>6

\* Every step of the handles and the mapping keeps the invariant.
LEMMA OpenStep ==
    ASSUME OpenInv, [O!Next]_(O!vars)
    PROVE  OpenInv'
<1>1. ASSUME NEW h \in Handles, NEW mode \in O!Modes, O!x_file_open(h, mode)
      PROVE  OpenInv'
  BY Zenon, <1>1, OpenKeeps
<1>2. ASSUME NEW h \in Handles, NEW n \in 1 .. 2, O!x_file_read(h, n) \/ O!x_file_write(h, n)
      PROVE  OpenInv'
  BY ZenonT(60), <1>2, ReadKeeps, WriteKeeps
<1>3. ASSUME NEW h \in Handles, NEW offset, NEW origin, O!x_file_seek(h, offset, origin)
      PROVE  OpenInv'
  <2> DEFINE to == O!Origin(h, origin) + offset
  <2>1. to \in Nat
    BY SMTT(60), SMTT(90), <1>3, FilesAssumption DEF O!x_file_seek
  <2>2. /\ handle' = [handle EXCEPT ![h].offset = to, ![h].sought = TRUE]
        /\ UNCHANGED <<build, length, mapping, shrunk>>
    BY Zenon, <1>3 DEF O!x_file_seek
  <2> HIDE DEF to
  <2>3. handle' \in [Handles -> OpenHandles]
    BY Zenon, <2>1, <2>2 DEF OpenInv, OpenTypes, OpenHandles
  <2>4. /\ \A g \in Handles \ {h} : handle'[g] = handle[g]
        /\ handle'[h].access = handle[h].access /\ handle'[h].sought = TRUE
    BY Zenon, <2>2 DEF OpenInv, OpenTypes, OpenHandles
  <2>5. QED
    BY Zenon, <2>2, <2>3, <2>4, SeekCloseKeep
<1>4. ASSUME NEW h \in Handles, O!x_file_close(h)
      PROVE  OpenInv'
  <2>1. O!Closed \in OpenHandles /\ O!Closed.access = {}
    BY Zenon DEF O!Closed, Accesses, OpenHandles
  <2>2. /\ handle' \in [Handles -> OpenHandles] /\ handle'[h].access = {}
        /\ \A g \in Handles \ {h} : handle'[g] = handle[g]
        /\ UNCHANGED <<build, length, mapping, shrunk>>
    BY Zenon, <1>4, <2>1 DEF O!x_file_close, OpenInv, OpenTypes
  <2>3. QED
    BY Zenon, <2>2, SeekCloseKeep
<1>5. CASE UNCHANGED O!vars
  BY ZenonT(60), <1>5 DEF O!vars, OpenInv, OpenTypes, OpenHandles, Mappings, SizeInv, AppendInv,
       Exclusive, O!IsOpen
<1>6. QED
  BY ZenonT(60), <1>1, <1>2, <1>3, <1>4, <1>5, MappingKeeps DEF O!Next

\* A handle that appends writes at the end, and a mapping is covered by its file,
\* for any number of handles and files of any length: on Windows by the share
\* modes, which leave no other writer and no one who truncates.
THEOREM OpenFilesAreSafe == FairSpec => []OpenFilesSafe
<1>1. Init => OpenInv
  <2> SUFFICES ASSUME O!Init
               PROVE  OpenInv
    BY Zenon DEF Init
  <2>1. \A h \in Handles : handle[h].access = {}
    BY Zenon DEF O!Init, O!Closed
  <2>2. OpenTypes
    BY Zenon DEF O!Init, O!Closed, O!Unmapped, OpenTypes, OpenHandles, Mappings, Accesses
  <2>3. QED
    BY Zenon, <2>1, <2>2 DEF O!Init, O!Unmapped, OpenInv, SizeInv, AppendInv, Exclusive,
         O!IsOpen, O!Writes
<1>2. OpenInv /\ [Next]_vars => OpenInv'
  BY OpenFileSteps, OpenStep
<1>3. OpenInv => OpenFilesSafe
  <2>1. OpenInv => O!AppendsAtEnd
    BY Zenon DEF OpenInv, OpenTypes, OpenHandles, Mappings, AppendInv, O!AppendsAtEnd, O!Position
  <2>2. OpenInv => O!MappingCovered
    BY Zenon DEF OpenInv, OpenTypes, OpenHandles, Mappings, SizeInv, O!MappingCovered
  <2>3. QED
    BY Zenon, <2>1, <2>2 DEF OpenFilesSafe
<1>4. QED
  BY <1>1, <1>2, <1>3, PTL DEF FairSpec

(***************************************************************************)
(* Listing a directory.                                                    *)
(***************************************************************************)
Returned == {listed[k] : k \in DOMAIN listed}
Seen == Returned \cup failed

\* A name is in one place: still to come, fetched, returned or refused; and a name
\* that was there all the time is in one of them.
PlacesInv ==
    /\ listed \in Seq(Names) /\ \A k, j \in DOMAIN listed : listed[k] = listed[j] => k = j
    /\ failed \subseteq Names /\ stable \subseteq Names /\ stream \subseteq Names \cup D!Dots
    /\ current \in Names \cup D!Dots \cup {D!None}
    /\ current \notin Seen \cup stream
    /\ Returned \cap failed = {} /\ stream \cap Seen = {}
    /\ stable \subseteq stream \cup Seen \cup {current}

\* Where nothing is fetched any more nothing is missing, or the listing broke off
\* and the client was or will be told.  An error that is kept when the loop ends
\* was met in the same call, after a dot entry.
ProgressInv ==
    /\ windows = FALSE /\ at # "stat" => current = D!None
    /\ at = "stat" => windows = FALSE /\ current \in Names
    /\ pending_error = TRUE => windows = TRUE
    /\ cut = TRUE => warned = TRUE \/ pending_error = TRUE
    /\ windows = TRUE /\ current = D!None => cut = TRUE \/ stable \subseteq Seen
    /\ at = "ended" => /\ current = D!None
                       /\ \/ warned = TRUE
                          \/ cut = FALSE /\ stable \subseteq Seen
                          \/ windows = TRUE /\ pending_error = TRUE /\ passed = TRUE
    /\ windows = TRUE /\ at = "next" /\ current = D!None /\ pending_error = TRUE => passed = TRUE

DirectoryTypes ==
    /\ windows \in BOOLEAN /\ pending_error \in BOOLEAN /\ passed \in BOOLEAN
    /\ cut \in BOOLEAN /\ warned \in BOOLEAN
    /\ at \in {"rest", "next", "stat", "ended"}

ListingInv == DirectoryTypes /\ PlacesInv /\ ProgressInv

\* The marker None is no name, and no name is a dot entry.
LEMMA NamesApart == D!None \notin Names \cup D!Dots /\ Names \cap D!Dots = {}
BY Zenon, FilesAssumption DEF D!None, D!Dots

\* A call that returns no entry leaves the list as it is.
LEMMA NothingListed ==
    ASSUME listed \in Seq(Names)
    PROVE  listed \o <<>> = listed
OBVIOUS

\* A call that returns an entry puts it at the end of the list.
LEMMA OneListed ==
    ASSUME listed \in Seq(Names), NEW name \in Names, listed' = listed \o <<name>>
    PROVE  /\ listed' \in Seq(Names) /\ Returned' = Returned \cup {name}
           /\ (\A k, j \in DOMAIN listed : listed[k] = listed[j] => k = j) /\ name \notin Returned
                 => \A k, j \in DOMAIN listed' : listed'[k] = listed'[j] => k = j
<1>1. /\ listed' \in Seq(Names) /\ Len(listed') = Len(listed) + 1
      /\ \A k \in 1 .. Len(listed) : listed'[k] = listed[k]
      /\ listed'[Len(listed) + 1] = name
  OBVIOUS
<1>2. DOMAIN listed = 1 .. Len(listed) /\ DOMAIN listed' = 1 .. Len(listed) + 1 /\ Len(listed) \in Nat
  BY SMTT(60), SMTT(90), <1>1
<1>3. \A k \in DOMAIN listed' : k \in DOMAIN listed \/ k = Len(listed) + 1
  BY SMTT(60), SMTT(90), <1>2
<1>4. Returned' = Returned \cup {name}
  BY SMTT(60), SMTT(90), <1>1, <1>2, <1>3 DEF Returned
<1>5. ASSUME \A k, j \in DOMAIN listed : listed[k] = listed[j] => k = j, name \notin Returned,
             NEW k \in DOMAIN listed', NEW j \in DOMAIN listed', listed'[k] = listed'[j]
      PROVE  k = j
  BY SMTT(60), SMTT(90), <1>1, <1>2, <1>3, <1>5 DEF Returned
<1>6. QED
  BY ZenonT(60), <1>1, <1>4, <1>5

\* What is said of the list alone.
ListInv ==
    /\ listed \in Seq(Names) /\ \A k, j \in DOMAIN listed : listed[k] = listed[j] => k = j
    /\ failed \subseteq Names /\ Returned \cap failed = {}

\* A call returns a new name, or an error in its place.
LEMMA NameSeen ==
    ASSUME PlacesInv, NEW name \in Names, name \notin Seen, NEW to,
           D!Return(to, <<name>>, {}) \/ D!Return(to, <<>>, {name})
    PROVE  ListInv' /\ Seen' = Seen \cup {name} /\ at' = to
<1>1. CASE D!Return(to, <<name>>, {})
  <2>1. listed' = listed \o <<name>> /\ failed' = failed /\ at' = to
    BY Zenon, <1>1 DEF D!Return
  <2>2. QED
    BY SMTT(60), SMTT(90), <2>1, OneListed DEF PlacesInv, ListInv, Seen
<1>2. CASE D!Return(to, <<>>, {name})
  <2>1. listed' = listed /\ failed' = failed \cup {name} /\ at' = to
    BY Zenon, <1>2, NothingListed DEF D!Return, PlacesInv
  <2>2. Returned' = Returned
    BY Zenon, <2>1 DEF Returned
  <2>3. QED
    BY Zenon, <2>1, <2>2 DEF PlacesInv, ListInv, Seen
<1>3. QED
  BY ZenonT(60), <1>1, <1>2

\* A call returns neither.
LEMMA NoneSeen ==
    ASSUME PlacesInv, NEW to, D!Return(to, <<>>, {})
    PROVE  ListInv' /\ Seen' = Seen /\ at' = to
<1>1. listed' = listed /\ failed' = failed /\ at' = to
  BY Zenon, NothingListed DEF D!Return, PlacesInv
<1>2. Returned' = Returned
  BY Zenon, <1>1 DEF Returned
<1>3. QED
  BY Zenon, <1>1, <1>2 DEF PlacesInv, ListInv, Seen

\* The list comes out of a step in order, and so do the places.
LEMMA PlacesFromList ==
    ASSUME ListInv', stable' \subseteq Names, stream' \subseteq Names \cup D!Dots,
           current' \in Names \cup D!Dots \cup {D!None},
           current' \notin Seen' \cup stream', stream' \cap Seen' = {},
           stable' \subseteq stream' \cup Seen' \cup {current'}
    PROVE  PlacesInv'
BY Zenon DEF ListInv, PlacesInv

\* readdir: the name read is fetched, refused, or no name at all.
LEMMA ReaddirKeeps ==
    ASSUME ListingInv, D!Readdir
    PROVE  ListingInv'
<1>1. /\ windows = FALSE /\ windows' = windows /\ at = "next" /\ current = D!None
      /\ UNCHANGED <<stable, pending_error, passed>>
  BY Zenon DEF D!Readdir, ListingInv, DirectoryTypes, ProgressInv
<1>2. CASE stream = {} /\ D!Return("ended", <<>>, {}) /\ UNCHANGED <<stream, current, cut, warned>>
  <2>1. ListInv' /\ Seen' = Seen /\ at' = "ended"
    BY Zenon, <1>2, NoneSeen DEF ListingInv
  <2>2. PlacesInv'
    BY ZenonT(60), <2>1, <1>1, <1>2, PlacesFromList DEF ListingInv, PlacesInv
  <2>3. stable \subseteq Seen
    BY ZenonT(60), <1>1, <1>2, NamesApart DEF ListingInv, PlacesInv
  <2>4. ProgressInv' /\ DirectoryTypes'
    BY ZenonT(60), <2>1, <2>3, <1>1, <1>2 DEF ListingInv, ProgressInv, DirectoryTypes
  <2>5. QED
    BY ZenonT(60), <2>2, <2>4 DEF ListingInv
<1>3. ASSUME NEW name \in stream, stream' = stream \ {name}, UNCHANGED <<cut, warned>>,
             D!x_filesystem_is_dot_entry(name), D!Return("next", <<>>, {}), UNCHANGED current
      PROVE  ListingInv'
  <2>1. ListInv' /\ Seen' = Seen /\ at' = "next"
    BY Zenon, <1>3, NoneSeen DEF ListingInv
  <2>2. name \notin stable
    BY Zenon, <1>3, NamesApart DEF ListingInv, PlacesInv, D!x_filesystem_is_dot_entry
  <2>3. PlacesInv'
    BY ZenonT(60), <2>1, <2>2, <1>1, <1>3, PlacesFromList DEF ListingInv, PlacesInv
  <2>4. ProgressInv' /\ DirectoryTypes'
    BY ZenonT(60), <2>1, <1>1, <1>3 DEF ListingInv, ProgressInv, DirectoryTypes
  <2>5. QED
    BY Zenon, <2>3, <2>4 DEF ListingInv
<1>4. ASSUME NEW name \in stream, stream' = stream \ {name}, UNCHANGED <<cut, warned>>,
             name \in TooLong, D!Return("rest", <<>>, {name}), UNCHANGED current
      PROVE  ListingInv'
  <2>1. name \in Names /\ name \notin Seen
    BY ZenonT(60), <1>4, FilesAssumption DEF ListingInv, PlacesInv
  <2>2. ListInv' /\ Seen' = Seen \cup {name} /\ at' = "rest"
    BY ZenonT(60), <1>4, <2>1, NameSeen DEF ListingInv
  <2>3. PlacesInv'
    BY ZenonT(60), <2>1, <2>2, <1>1, <1>4, PlacesFromList, NamesApart DEF ListingInv, PlacesInv
  <2>4. ProgressInv' /\ DirectoryTypes'
    BY ZenonT(60), <2>2, <1>1, <1>4 DEF ListingInv, ProgressInv, DirectoryTypes
  <2>5. QED
    BY Zenon, <2>3, <2>4 DEF ListingInv
<1>5. ASSUME NEW name \in stream, stream' = stream \ {name}, UNCHANGED <<cut, warned>>,
             ~D!x_filesystem_is_dot_entry(name), D!Return("stat", <<>>, {}), current' = name
      PROVE  ListingInv'
  <2>1. name \in Names
    BY Zenon, <1>5 DEF ListingInv, PlacesInv, D!x_filesystem_is_dot_entry
  <2>2. ListInv' /\ Seen' = Seen /\ at' = "stat"
    BY Zenon, <1>5, NoneSeen DEF ListingInv
  <2>3. PlacesInv'
    BY ZenonT(60), <2>1, <2>2, <1>1, <1>5, PlacesFromList, NamesApart DEF ListingInv, PlacesInv
  <2>4. ProgressInv' /\ DirectoryTypes'
    BY ZenonT(60), <2>1, <2>2, <1>1, <1>5 DEF ListingInv, ProgressInv, DirectoryTypes
  <2>5. QED
    BY <2>3, <2>4 DEF ListingInv
<1>6. CASE cut' = TRUE /\ warned' = TRUE /\ D!Return("rest", <<>>, {}) /\ UNCHANGED <<stream, current>>
  <2>1. ListInv' /\ Seen' = Seen /\ at' = "rest"
    BY ZenonT(60), <1>6, NoneSeen DEF ListingInv
  <2>2. PlacesInv'
    BY ZenonT(60), <2>1, <1>1, <1>6, PlacesFromList DEF ListingInv, PlacesInv
  <2>3. ProgressInv' /\ DirectoryTypes'
    BY Zenon, <2>1, <1>1, <1>6 DEF ListingInv, ProgressInv, DirectoryTypes
  <2>4. QED
    BY Zenon, <2>2, <2>3 DEF ListingInv
<1>7. QED
  BY ZenonT(60), <1>2, <1>3, <1>4, <1>5, <1>6 DEF D!Readdir

\* stat: the name fetched is returned, or refused when it has gone.
LEMMA StatKeeps ==
    ASSUME ListingInv, D!Stat
    PROVE  ListingInv'
<1>1. /\ at = "stat" /\ current' = D!None /\ UNCHANGED <<windows, stable, stream, pending_error, passed, cut, warned>>
      /\ D!Return("rest", <<current>>, {}) \/ D!Return("rest", <<>>, {current})
  BY Zenon DEF D!Stat
<1>2. current \in Names /\ current \notin Seen /\ windows = FALSE
  BY Zenon, <1>1 DEF ListingInv, PlacesInv, ProgressInv
<1>3. ListInv' /\ Seen' = Seen \cup {current} /\ at' = "rest"
  BY ZenonT(60), <1>1, <1>2, NameSeen DEF ListingInv
<1>4. PlacesInv'
  <2>1. /\ stable \subseteq stream \cup Seen' /\ stable \subseteq Names
        /\ stream \subseteq Names \cup D!Dots /\ stream \cap Seen' = {} /\ Seen' \subseteq Names
    BY SMTT(60), SMTT(90), <1>2, <1>3 DEF ListingInv, PlacesInv, Seen, Returned
  <2>2. QED
    BY ZenonT(60), <2>1, <1>1, <1>3, PlacesFromList, NamesApart
<1>5. ProgressInv' /\ DirectoryTypes'
  BY Zenon, <1>1, <1>2, <1>3 DEF ListingInv, ProgressInv, DirectoryTypes
<1>6. QED
  BY <1>4, <1>5 DEF ListingInv

\* On Windows the entry fetched before is returned, refused or passed over, while
\* the next one is fetched.
LEMMA PendingEntryKeeps ==
    ASSUME ListingInv, D!PendingEntry
    PROVE  ListingInv'
<1>1. /\ windows = TRUE /\ at = "next" /\ current # D!None /\ D!FindNext
      /\ UNCHANGED <<windows, stable, warned>>
      /\ passed' \in BOOLEAN /\ (at' = "next" => passed' = TRUE)
  <2>1. passed' = (passed \/ at' = "next")
    BY Zenon DEF D!PendingEntry
  <2>2. QED
    BY Zenon, <2>1 DEF D!PendingEntry, ListingInv, DirectoryTypes
<1>2. ListInv' /\ Seen' = Seen \cup ({current} \cap Names) /\ at' \in {"rest", "next"}
  <2>1. CASE current \in TooLong
    <3>1. current \in Names /\ current \notin Seen
      BY Zenon, <2>1, FilesAssumption DEF ListingInv, PlacesInv
    <3>2. D!Return("rest", <<>>, {current})
      BY Zenon, <2>1 DEF D!PendingEntry
    <3>3. QED
      BY ZenonT(60), <3>1, <3>2, NameSeen DEF ListingInv
  <2>2. CASE current \notin TooLong /\ D!x_filesystem_is_dot_entry(current)
    <3>1. current \notin Names
      BY Zenon, <2>2, NamesApart DEF D!x_filesystem_is_dot_entry
    <3>2. D!Return("next", <<>>, {})
      BY Zenon, <2>2 DEF D!PendingEntry
    <3>3. QED
      BY Zenon, <3>1, <3>2, NoneSeen DEF ListingInv
  <2>3. CASE current \notin TooLong /\ ~D!x_filesystem_is_dot_entry(current)
    <3>1. current \in Names /\ current \notin Seen
      BY Zenon, <2>3, <1>1 DEF ListingInv, PlacesInv, D!x_filesystem_is_dot_entry
    <3>2. D!Return("rest", <<current>>, {})
      BY ZenonT(60), <2>3 DEF D!PendingEntry
    <3>3. QED
      BY ZenonT(60), <3>1, <3>2, NameSeen DEF ListingInv
  <2>4. QED
    BY Zenon, <2>1, <2>2, <2>3
<1>3. /\ stable \subseteq stream \cup Seen'
      /\ stream \subseteq Names \cup D!Dots /\ stream \cap Seen' = {} /\ Seen' \subseteq Names
  BY SMTT(60), SMTT(90), <1>2 DEF ListingInv, PlacesInv, Seen, Returned
<1>4. CASE stream = {} /\ current' = D!None /\ UNCHANGED <<stream, pending_error, cut>>
  <2>1. PlacesInv'
    BY ZenonT(60), <1>1, <1>2, <1>3, <1>4, PlacesFromList, NamesApart DEF ListingInv, PlacesInv
  <2>2. ProgressInv' /\ DirectoryTypes'
    BY ZenonT(60), <1>1, <1>2, <1>3, <1>4 DEF ListingInv, ProgressInv, DirectoryTypes
  <2>3. QED
    BY <2>1, <2>2 DEF ListingInv
<1>5. ASSUME NEW name \in stream, current' = name, stream' = stream \ {name},
             UNCHANGED <<pending_error, cut>>
      PROVE  ListingInv'
  <2>1. PlacesInv'
    BY Zenon, <1>1, <1>2, <1>3, <1>5, PlacesFromList DEF ListingInv, PlacesInv
  <2>2. current' # D!None
    BY Zenon, <1>3, <1>5, NamesApart
  <2>3. ProgressInv' /\ DirectoryTypes'
    BY Zenon, <2>2, <1>1, <1>2, <1>5 DEF ListingInv, ProgressInv, DirectoryTypes
  <2>4. QED
    BY <2>1, <2>3 DEF ListingInv
<1>6. CASE current' = D!None /\ cut' = TRUE /\ pending_error' = TRUE /\ UNCHANGED stream
  <2>1. PlacesInv'
    BY Zenon, <1>1, <1>2, <1>3, <1>6, PlacesFromList, NamesApart DEF ListingInv, PlacesInv
  <2>2. ProgressInv' /\ DirectoryTypes'
    BY Zenon, <1>1, <1>2, <1>6 DEF ListingInv, ProgressInv, DirectoryTypes
  <2>3. QED
    BY <2>1, <2>2 DEF ListingInv
<1>7. QED
  BY ZenonT(60), <1>1, <1>4, <1>5, <1>6 DEF D!FindNext

\* Nothing is pending: the error kept from before is told, or the listing ends.
LEMMA PendingEndKeeps ==
    ASSUME ListingInv, D!PendingError \/ D!NothingPending
    PROVE  ListingInv'
<1>1. /\ windows = TRUE /\ current = D!None
      /\ UNCHANGED <<windows, stable, stream, current, cut>>
      /\ \/ /\ D!Return("rest", <<>>, {})
            /\ pending_error' = FALSE /\ warned' = TRUE /\ passed' = FALSE
         \/ /\ D!Return("ended", <<>>, {}) /\ at = "next"
            /\ UNCHANGED <<pending_error, passed, warned>>
  BY Zenon DEF D!PendingError, D!ErrorKept, D!NothingPending, ListingInv, DirectoryTypes
<1>2. ListInv' /\ Seen' = Seen
  BY Zenon, <1>1, NoneSeen DEF ListingInv
<1>3. \/ at' = "rest" /\ pending_error' = FALSE /\ warned' = TRUE /\ passed' = FALSE
      \/ at' = "ended" /\ at = "next" /\ UNCHANGED <<pending_error, passed, warned>>
  BY Zenon, <1>1, NoneSeen DEF ListingInv
<1>4. PlacesInv'
  BY Zenon, <1>1, <1>2, PlacesFromList DEF ListingInv, PlacesInv
<1>5. ProgressInv' /\ DirectoryTypes'
  BY ZenonT(60), <1>1, <1>2, <1>3 DEF ListingInv, ProgressInv, DirectoryTypes
<1>6. QED
  BY Zenon, <1>4, <1>5 DEF ListingInv

\* The others create and delete files while the client goes on.
LEMMA OthersKeep ==
    ASSUME ListingInv,
           \/ D!x_directory_next \/ UNCHANGED D!vars
           \/ \E name \in Names : \/ D!Delete(name)
                                  \/ \E kind \in D!Kinds(~windows) : D!Create(name, kind)
    PROVE  ListingInv'
<1>1. CASE D!x_directory_next \/ UNCHANGED D!vars
  <2>1. /\ UNCHANGED <<windows, stable, stream, current, pending_error, listed, failed, cut,
                       warned>>
        /\ \/ /\ at \in {"rest", "ended"} /\ at' = "next" /\ passed' = FALSE
              /\ ~(windows = TRUE /\ current = D!None /\ pending_error = TRUE)
           \/ at' = at /\ passed' = passed
    BY ZenonT(60), <1>1
       DEF D!x_directory_next, D!Outside, D!ErrorKept, D!vars, ListingInv, DirectoryTypes
  <2>2. Seen' = Seen /\ Returned' = Returned
    BY Zenon, <2>1 DEF Seen, Returned
  <2>3. PlacesInv'
    BY Zenon, <2>1, <2>2 DEF ListingInv, PlacesInv
  <2>4. ProgressInv' /\ DirectoryTypes'
    BY Zenon, <2>1, <2>2 DEF ListingInv, ProgressInv, DirectoryTypes
  <2>5. QED
    BY Zenon, <2>3, <2>4 DEF ListingInv
<1>2. ASSUME UNCHANGED <<windows, at, current, pending_error, passed, listed, failed, cut, warned>>,
             stable' \subseteq stable,
             stream' \subseteq stream \cup (Names \ (Seen \cup {current})),
             stable' \subseteq stream' \cup Seen \cup {current}
      PROVE  ListingInv'
  <2>1. Seen' = Seen /\ Returned' = Returned
    BY Zenon, <1>2 DEF Seen, Returned
  <2>2. PlacesInv'
    BY Zenon, <2>1, <1>2 DEF ListingInv, PlacesInv
  <2>3. ProgressInv' /\ DirectoryTypes'
    BY Zenon, <2>1, <1>2 DEF ListingInv, ProgressInv, DirectoryTypes
  <2>4. QED
    BY <2>2, <2>3 DEF ListingInv
<1>3. ASSUME NEW name \in Names, D!Delete(name)
      PROVE  ListingInv'
  <2>1. /\ UNCHANGED <<windows, at, current, pending_error, passed, listed, failed, cut, warned>>
        /\ stable' = stable \ {name} /\ stream' \in {stream, stream \ {name}}
    BY Zenon, <1>3 DEF D!Delete
  <2>2. stable \subseteq stream \cup Seen \cup {current}
    BY Zenon DEF ListingInv, PlacesInv
  <2>3. QED
    BY Zenon, <2>1, <2>2, <1>2
<1>4. ASSUME NEW name \in Names, NEW kind, D!Create(name, kind)
      PROVE  ListingInv'
  <2>1. /\ UNCHANGED <<windows, stable, at, current, pending_error, passed, listed, failed, cut, warned>>
        /\ \/ stream' = stream
           \/ name \notin D!Given /\ stream' = stream \cup {name}
    BY Zenon, <1>4 DEF D!Create
  <2>2. D!Given = Seen \cup {current} /\ stable \subseteq stream \cup Seen \cup {current}
    <3>1. D!Given = Seen \cup {current}
      BY Zenon DEF Seen, Returned, D!Given
    <3>2. QED
      BY Zenon, <3>1 DEF ListingInv, PlacesInv
  <2>3. QED
    BY Zenon, <2>1, <2>2, <1>2
<1>5. QED
  BY Zenon, <1>1, <1>3, <1>4

\* A listing is complete unless it says otherwise, and lists nothing twice: for any
\* names, while files come and go, and with both builds.
THEOREM ListingIsSound == FairSpec => []ListingSound
<1>1. Init => ListingInv
  <2> SUFFICES ASSUME D!Init
               PROVE  ListingInv
    BY Zenon DEF Init
  <2>1. /\ listed = <<>> /\ failed = {} /\ stable \subseteq Names /\ windows \in BOOLEAN
        /\ at = "rest" /\ pending_error = FALSE /\ passed = FALSE /\ cut = FALSE
        /\ warned = FALSE
    BY Zenon DEF D!Init
  <2>2. Seen = {} /\ Returned = {}
    BY SMTT(60), SMTT(90), <2>1 DEF Seen, Returned
  <2>3. CASE windows = TRUE
    <3>1. PICK name \in stable \cup D!Dots :
              current = name /\ stream = (stable \cup D!Dots) \ {name}
      BY Zenon, <2>3 DEF D!Init
    <3>2. PlacesInv
      BY SMTT(60), SMTT(90), <2>1, <2>2, <3>1 DEF PlacesInv
    <3>3. current # D!None
      BY Zenon, <2>1, <3>1, NamesApart
    <3>4. QED
      BY ZenonT(60), <2>1, <2>3, <3>2, <3>3 DEF ListingInv, ProgressInv, DirectoryTypes
  <2>4. CASE windows = FALSE
    <3>1. current = D!None /\ stream = stable \cup D!Dots
      BY Zenon, <2>4 DEF D!Init
    <3>2. PlacesInv
      BY SMTT(60), SMTT(90), <2>1, <2>2, <3>1, NamesApart DEF PlacesInv
    <3>3. QED
      BY ZenonT(60), <2>1, <2>4, <3>1, <3>2 DEF ListingInv, ProgressInv, DirectoryTypes
  <2>5. QED
    BY Zenon, <2>1, <2>3, <2>4
<1>2. ListingInv /\ [Next]_vars => ListingInv'
  BY Zenon, DirectorySteps, ReaddirKeeps, StatKeeps, PendingEntryKeeps, PendingEndKeeps,
       OthersKeep
     DEF D!Next
<1>3. ListingInv => ListingSound
  <2> SUFFICES ASSUME ListingInv
               PROVE  ListingSound
    OBVIOUS
  <2>1. D!Given = Seen \cup {current}
    BY Zenon DEF Seen, Returned, D!Given
  <2>2. D!ListingComplete
    BY Zenon, <2>1 DEF ListingInv, DirectoryTypes, ProgressInv, D!ErrorKept, D!ListingComplete
  <2>3. D!ListedOnce
    BY DEF ListingInv, PlacesInv, Returned, D!ListedOnce
  <2>4. QED
    BY Zenon, <2>2, <2>3 DEF ListingSound
<1>4. QED
  BY <1>1, <1>2, <1>3, PTL DEF FairSpec

(***************************************************************************)
(* Joining paths.                                                          *)
(***************************************************************************)
\* Where the base name of a path may begin: after any separator, or at the beginning.
Separated(text) == {0} \cup {k \in DOMAIN text : text[k] \in P!Separators}
LastSeparated(text) == CHOOSE k \in Separated(text) : \A j \in Separated(text) : j <= k

\* A set of numbers up to n that is not empty has a greatest one.
LEMMA GreatestExists ==
    ASSUME NEW n \in Nat, NEW T \in SUBSET (0 .. n), 0 \in T
    PROVE  \E k \in T : \A j \in T : j <= k
<1>0. T \subseteq Nat
  OBVIOUS
<1> DEFINE Less == {ss \in Nat \X Nat : ss[1] < ss[2]}
           Rest == {n - k : k \in T}
<1>1. IsWellFoundedOn(Less, Nat)
  BY NatLessThanWellFounded, Zenon DEF OpToRel
<1>2. Rest \subseteq Nat /\ Rest # {}
  OBVIOUS
<1> HIDE DEF Less
<1>3. PICK x \in Rest : \A y \in Rest : ~(<<y, x>> \in Less)
  BY ZenonT(60), <1>1, <1>2, WFMin
<1>4. PICK k \in T : x = n - k
  BY Zenon, <1>3
<1>5. ASSUME NEW j \in T
      PROVE  j <= k
  <2>1. n - j \in Rest /\ n - j \in Nat /\ x \in Nat
    BY Zenon, <1>2
  <2>2. ~(n - j < x)
    BY Zenon, <1>3, <2>1 DEF Less
  <2>3. j \in Nat /\ k \in Nat
    BY Zenon, <1>0
  <2>4. QED
    BY SMTT(60), SMTT(90), <1>4, <2>2, <2>3
<1>6. QED
  BY Zenon, <1>5

\* The base name begins after the last separator.
LEMMA LastSeparatedGreatest ==
    ASSUME NEW S, NEW text \in Seq(S)
    PROVE  /\ LastSeparated(text) \in Separated(text)
           /\ \A j \in Separated(text) : j <= LastSeparated(text)
<1>1. Len(text) \in Nat /\ Separated(text) \in SUBSET (0 .. Len(text)) /\ 0 \in Separated(text)
  BY DEF Separated
<1>2. \E k \in Separated(text) : \A j \in Separated(text) : j <= k
  BY Zenon, <1>1, GreatestExists
<1>3. QED
  BY <1>2, Zenon DEF LastSeparated

\* What comes after a separator has the same base name as the whole.
LEMMA BasenameOfConcat ==
    ASSUME NEW S, NEW a \in Seq(S), NEW b \in Seq(S), a # <<>>, a[Len(a)] \in P!Separators
    PROVE  P!x_path_basename(a \o b) = P!x_path_basename(b)
<1> DEFINE k == LastSeparated(b)
<1>1. /\ a \o b \in Seq(S) /\ Len(a \o b) = Len(a) + Len(b)
      /\ Len(a) \in Nat \ {0} /\ Len(b) \in Nat
      /\ \A i \in 1 .. Len(a) + Len(b) :
             (a \o b)[i] = IF i <= Len(a) THEN a[i] ELSE b[i - Len(a)]
  BY ZenonT(60), ConcatProperties, EmptySeq, LenProperties
<1>2. k \in Separated(b) /\ \A j \in Separated(b) : j <= k
  BY Zenon, LastSeparatedGreatest
<1>3. k \in 0 .. Len(b) /\ (k # 0 => b[k] \in P!Separators)
  BY SMTT(60), SMTT(90), <1>2 DEF Separated
<1> HIDE DEF k
<1>11. Len(a) \in Nat /\ Len(b) \in Nat /\ k \in Nat
  BY SMTT(60), SMTT(90), <1>1, <1>3
<1>4. DOMAIN (a \o b) = 1 .. Len(a) + Len(b) /\ DOMAIN b = 1 .. Len(b)
  BY SMTT(60), SMTT(90), <1>1
<1>5. Len(a) + k \in Separated(a \o b)
  <2>1. Len(a) + k \in 1 .. Len(a) + Len(b)
    BY SMTT(60), SMTT(90), <1>1, <1>3
  <2>2. CASE k = 0
    BY SMTT(60), SMTT(90), <1>1, <1>4, <2>1, <2>2 DEF Separated
  <2>3. CASE k # 0
    BY SMTT(60), SMTT(90), <1>1, <1>3, <1>4, <2>1, <2>3 DEF Separated
  <2>4. QED
    BY Zenon, <2>2, <2>3
<1>6. ASSUME NEW j \in Separated(a \o b)
      PROVE  j <= Len(a) + k
  <2>1. CASE j <= Len(a)
    BY SMTT(60), SMTT(90), <1>1, <1>3, <2>1, <1>4 DEF Separated
  <2>2. CASE j > Len(a)
    <3>1. j - Len(a) \in Separated(b)
      BY SMTT(60), SMTT(90), <1>1, <1>4, <2>2 DEF Separated
    <3>2. QED
      BY SMTT(60), SMTT(90), <1>1, <1>2, <1>3, <1>4, <2>2, <3>1 DEF Separated
  <2>3. QED
    BY SMTT(60), SMTT(90), <2>1, <2>2, <1>1, <1>4 DEF Separated
<1>7. LastSeparated(a \o b) = Len(a) + k
  <2>1. /\ LastSeparated(a \o b) \in Separated(a \o b)
        /\ Len(a) + k <= LastSeparated(a \o b)
    BY ZenonT(60), <1>1, <1>5, LastSeparatedGreatest
  <2>2. LastSeparated(a \o b) <= Len(a) + k /\ LastSeparated(a \o b) \in Int
    <3>1. Separated(a \o b) \subseteq Int
      BY SMTT(60), SMTT(90), <1>4 DEF Separated
    <3>2. QED
      BY Zenon, <2>1, <1>6, <3>1
  <2>3. QED
    BY SMTT(60), SMTT(90), <2>1, <2>2, <1>11
<1>8. SubSeq(a \o b, 1 + (Len(a) + k), Len(a) + Len(b)) = SubSeq(b, 1 + k, Len(b))
  <2>1. CASE k = Len(b)
    BY SMTT(60), SMTT(90), <1>1, <1>3, <2>1, SubSeqEmpty
  <2>2. CASE k < Len(b)
    <3> DEFINE m == 1 + (Len(a) + k)
               n == Len(a) + Len(b)
    <3>1. m \in Len(a) + 1 .. Len(a) + Len(b) /\ n \in Len(a) + 1 .. Len(a) + Len(b)
      BY SMTT(60), SMTT(90), <1>11, <2>2
    <3>2. m - Len(a) = 1 + k /\ n - Len(a) = Len(b)
      BY SMTT(60), SMTT(90), <1>11
    <3> HIDE DEF m, n
    <3>3. SubSeq(a \o b, m, n) = SubSeq(b, m - Len(a), n - Len(a))
      BY <3>1, SubSeqOfConcat2, Zenon
    <3>4. QED
      BY <3>2, <3>3, Zenon DEF m, n
  <2>3. QED
    BY SMTT(60), SMTT(90), <2>1, <2>2, <1>1, <1>3
<1>9. /\ P!x_path_basename(b) = SubSeq(b, 1 + k, Len(b))
      /\ P!x_path_basename(a \o b) = SubSeq(a \o b, 1 + LastSeparated(a \o b), Len(a \o b))
  BY Zenon DEF P!x_path_basename, LastSeparated, Separated, k
<1>10. QED
  BY ZenonT(60), <1>1, <1>7, <1>8, <1>9

\* A path is a suffix of what is joined before it.
LEMMA SuffixOfConcat ==
    ASSUME NEW S, NEW a \in Seq(S), NEW b \in Seq(S)
    PROVE  P!EndsWith(a \o b, b)
<1>1. /\ Len(a \o b) = Len(a) + Len(b) /\ Len(a) \in Nat /\ Len(b) \in Nat
      /\ \A i \in 1 .. Len(a) + Len(b) :
             (a \o b)[i] = IF i <= Len(a) THEN a[i] ELSE b[i - Len(a)]
  BY Zenon, ConcatProperties, LenProperties
<1>2. DOMAIN b = 1 .. Len(b)
  BY Zenon, LenProperties
<1>3. ASSUME NEW i \in 1 .. Len(b)
      PROVE  (a \o b)[Len(a) + Len(b) - Len(b) + i] = b[i]
  <2>1. /\ Len(a) + Len(b) - Len(b) + i = Len(a) + i /\ Len(a) + i - Len(a) = i
        /\ Len(a) + i \in 1 .. Len(a) + Len(b) /\ ~(Len(a) + i <= Len(a))
    BY SMTT(60), SMTT(90), <1>1
  <2>2. QED
    BY SMTT(60), SMTT(90), <1>1, <2>1
<1>4. QED
  BY SMTT(60), SMTT(90), <1>1, <1>2, <1>3 DEF P!EndsWith

\* A path is absolute by its beginning.
LEMMA AbsoluteByBeginning ==
    ASSUME NEW S, NEW a \in Seq(S), NEW b \in Seq(S), P!x_path_is_absolute(a)
    PROVE  P!x_path_is_absolute(a \o b)
<1>1. /\ Len(a \o b) = Len(a) + Len(b) /\ Len(a) \in Nat /\ Len(b) \in Nat
      /\ \A i \in 1 .. Len(a) + Len(b) :
             (a \o b)[i] = IF i <= Len(a) THEN a[i] ELSE b[i - Len(a)]
  BY Zenon, ConcatProperties, LenProperties
<1>2. ASSUME NEW i \in {1, 2, 3}, P!At(a, i) # "0"
      PROVE  P!At(a \o b, i) = P!At(a, i)
  BY SMTT(60), SMTT(90), <1>1, <1>2 DEF P!At
<1>3. "0" \notin Letters /\ "0" \notin P!Separators /\ ~("0" \in {"/", "\\", ":"})
  BY Zenon, FilesAssumption DEF P!Separators
<1>4. QED
  BY Zenon, <1>2, <1>3 DEF P!x_path_is_absolute

\* What x_path_join writes, for paths and buffers of any length.
LEMMA JoinIsInside ==
    ASSUME left \in Seq(P!Characters), right \in Seq(P!Characters), size \in Nat,
           path = P!x_path_join(left, right)
    PROVE  P!JoinedInside
<1> DEFINE C == P!Characters
           separator == IF path_windows THEN "\\" ELSE "/"
           needed == ~P!x_filesystem_has_separator(left) /\ right # <<>>
           middle == IF needed THEN <<separator>> ELSE <<>>
           alone == P!x_path_is_absolute(right) \/ left = <<>>
           text == IF alone THEN right ELSE left \o middle \o right
<1>1. path = IF Len(text) + 1 > size THEN P!ENAMETOOLONG ELSE text
  BY Zenon DEF P!x_path_join
<1>2. separator \in C /\ separator \in P!Separators /\ middle \in Seq(C) /\ Len(middle) <= 1
  <2>1. separator \in C /\ separator \in P!Separators
    BY Zenon DEF P!Characters, P!Separators
  <2> HIDE DEF separator, C
  <2>2. <<separator>> \in Seq(C) /\ Len(<<separator>>) = 1
    BY SMTT(60), SMTT(90), <2>1
  <2>3. <<>> \in Seq(C) /\ Len(<<>>) = 0
    OBVIOUS
  <2>4. QED
    BY SMTT(60), SMTT(90), <2>1, <2>2, <2>3
<1> HIDE DEF separator, needed, C
<1>3. /\ left \in Seq(C) /\ right \in Seq(C) /\ middle \in Seq(C)
      /\ Len(left) \in Nat /\ Len(right) \in Nat /\ Len(middle) \in Nat
  BY Zenon, <1>2, LenProperties DEF C
<1>4. /\ left \o middle \in Seq(C) /\ Len(left \o middle) = Len(left) + Len(middle)
      /\ left \o middle \o right \in Seq(C)
      /\ Len(left \o middle \o right) = Len(left) + Len(middle) + Len(right)
      /\ left \o middle \o right = left \o (middle \o right)
      /\ middle \o right \in Seq(C)
  <2> HIDE DEF middle
  <2>1. left \o middle \in Seq(C) /\ Len(left \o middle) = Len(left) + Len(middle)
    BY Zenon, <1>3, ConcatProperties
  <2>2. /\ (left \o middle) \o right \in Seq(C)
        /\ Len((left \o middle) \o right) = Len(left \o middle) + Len(right)
    BY Zenon, <2>1, <1>3, ConcatProperties
  <2>3. middle \o right \in Seq(C) /\ (left \o middle) \o right = left \o (middle \o right)
    BY SMTT(60), SMTT(90), <1>3, ConcatProperties, ConcatAssociative
  <2>4. QED
    BY Zenon, <2>1, <2>2, <2>3
<1> HIDE DEF middle
<1>5. text \in Seq(C) /\ Len(text) <= Len(left) + Len(right) + 1 /\ Len(text) \in Nat
  BY SMTT(60), SMTT(90), <1>2, <1>3, <1>4
<1>6. text # P!ENAMETOOLONG
  <2>1. "ENAMETOOLONG" \notin C
    BY Zenon, FilesAssumption DEF C, P!Characters
  <2>2. P!ENAMETOOLONG \notin Seq(C)
    BY SMTT(60), SMTT(90), <2>1 DEF P!ENAMETOOLONG
  <2>3. QED
    BY ZenonT(60), <1>5, <2>2
<1>7. path = P!ENAMETOOLONG => Len(left) + Len(right) + 2 > size
  BY SMTT(60), SMTT(90), <1>1, <1>3, <1>5, <1>6
<1>8. path # P!ENAMETOOLONG => path = text /\ Len(path) + 1 <= size
  BY SMTT(60), SMTT(90), <1>1, <1>5
<1>9. right # <<>> => P!x_path_basename(text) = P!x_path_basename(right)
  <2> SUFFICES ASSUME right # <<>>, ~alone
               PROVE  P!x_path_basename(left \o middle \o right) = P!x_path_basename(right)
    OBVIOUS
  <2>1. left \o middle # <<>> /\ (left \o middle)[Len(left \o middle)] \in P!Separators
    <3>1. CASE needed
      <4>1. middle = <<separator>>
        BY Zenon, <3>1 DEF middle
      <4>2. QED
        BY SMTT(60), SMTT(90), <4>1, <1>2, <1>3
    <3>2. CASE ~needed
      <4>1. middle = <<>> /\ left # <<>> /\ left[Len(left)] \in P!Separators
        BY Zenon, <3>2 DEF middle, needed, P!x_filesystem_has_separator
      <4>2. left \o middle = left
        BY Zenon, <4>1, <1>3, ConcatEmptySeq
      <4>3. QED
        BY Zenon, <4>1, <4>2
    <3>3. QED
      BY Zenon, <3>1, <3>2
  <2>2. QED
    BY Zenon, <2>1, <1>3, <1>4, BasenameOfConcat
<1>10. P!EndsWith(text, right)
  <2>1. <<>> \in Seq(C) /\ <<>> \o right = right
    BY SMTT(60), SMTT(90), <1>3, ConcatEmptySeq
  <2>2. P!EndsWith(right, right)
    BY Zenon, <2>1, <1>3, SuffixOfConcat
  <2>3. P!EndsWith(left \o middle \o right, right)
    BY ZenonT(60), <1>3, <1>4, SuffixOfConcat
  <2>4. QED
    BY Zenon, <2>2, <2>3
<1>11. P!x_path_is_absolute(right) \/ P!StartsWith(text, left)
  <2>1. CASE left = <<>>
    <3>1. Len(left) = 0
      BY Zenon, <2>1
    <3> HIDE DEF text, alone
    <3>2. Len(left) <= Len(text) /\ \A i \in 1 .. Len(left) : left[i] = text[i]
      BY SMTT(60), SMTT(90), <3>1, <1>5
    <3>3. DOMAIN left = 1 .. Len(left)
      BY Zenon, <1>3, LenProperties
    <3>4. QED
      BY Zenon, <3>2, <3>3 DEF P!StartsWith
  <2>2. CASE ~alone
    <3>1. \A i \in 1 .. Len(left) : left[i] = (left \o (middle \o right))[i]
      BY SMTT(60), SMTT(90), <1>3, <1>4
    <3>2. text = left \o (middle \o right) /\ Len(left) <= Len(text)
      BY SMTT(60), SMTT(90), <2>2, <1>3, <1>4
    <3> HIDE DEF text
    <3>3. DOMAIN left = 1 .. Len(left)
      BY Zenon, <1>3, LenProperties
    <3>4. QED
      BY Zenon, <3>1, <3>2, <3>3 DEF P!StartsWith
  <2>3. QED
    BY Zenon, <2>1, <2>2
<1>12. P!x_path_is_absolute(left) \/ P!x_path_is_absolute(right) => P!x_path_is_absolute(text)
  <2>1. CASE alone
    <3>1. ~P!x_path_is_absolute(<<>>)
      BY SMTT(60), SMTT(90), FilesAssumption DEF P!x_path_is_absolute, P!At
    <3>2. QED
      BY Zenon, <2>1, <3>1
  <2>2. CASE ~alone
    BY ZenonT(60), <2>2, <1>3, <1>4, AbsoluteByBeginning
  <2>3. QED
    BY Zenon, <2>1, <2>2
<1> HIDE DEF text
<1>13. QED
  BY Zenon, <1>7, <1>8, <1>9, <1>10, <1>11, <1>12 DEF P!JoinedInside

\* x_path_join stays within its buffer and below its left path, for paths and
\* buffers of any length and with both builds.
THEOREM JoinStaysInside == FairSpec => []JoinedInside
<1> DEFINE I == /\ left \in Seq(P!Characters) /\ right \in Seq(P!Characters) /\ size \in Nat
                /\ path \in {P!Unjoined, P!x_path_join(left, right)}
<1>1. Init => I
  <2>1. ASSUME NEW n \in Nat, NEW s \in P!PathsUpTo(n)
        PROVE  s \in Seq(P!Characters)
    BY SMTT(60), SMTT(90), <2>1 DEF P!PathsUpTo
  <2>2. <<>> \in Seq(P!Characters)
    BY SMTT(60), SMTT(90)
  <2>3. QED
    <3>1. ASSUME P!Init
          PROVE  I
      BY SMTT(60), SMTT(90), <3>1, <2>1, FilesAssumption DEF P!Init
    <3>2. ASSUME left = <<>>, right = <<>>, size = 1, path = P!Unjoined
          PROVE  I
      BY Zenon, <3>2, <2>2
    <3>3. QED
      BY Zenon, <3>1, <3>2 DEF Init
<1>2. I /\ [Next]_vars => I'
  <2> SUFFICES ASSUME I, [Next]_vars
               PROVE  I'
    BY Zenon
  <2>4. ASSUME UNCHANGED <<path_windows, left, right, size>>
        PROVE  P!x_path_join(left, right)' = P!x_path_join(left, right)
    BY Zenon, <2>4 DEF P!x_path_join, P!x_filesystem_has_separator, P!x_path_is_absolute,
         P!Separators
  <2>1. CASE P!Join
    BY Zenon, <2>1, <2>4 DEF P!Join
  <2>2. CASE UNCHANGED path_vars
    BY Zenon, <2>2, <2>4 DEF path_vars
  <2>3. QED
    BY Zenon, <2>1, <2>2 DEF Next, InAsyncRead, Joined, vars
<1>3. I => JoinedInside
  BY Zenon, JoinIsInside DEF JoinedInside, P!JoinedInside
<1>4. QED
  BY <1>1, <1>2, <1>3, PTL DEF FairSpec

==============================================================================
