------------------------------ MODULE AsyncRead ------------------------------
(***************************************************************************)
(* The asynchronous read of a whole file (src/src/x_filesystem.c) above the *)
(* threads of src/src/x_thread.c: a client starts an operation, waits for   *)
(* it and destroys it, while a worker thread reads the file and calls the   *)
(* client back.  Others change the file meanwhile.                          *)
(*                                                                         *)
(* The pthread calls and the file system are external.  A callback that     *)
(* waits for its own operation is refused by pthread_join and changes       *)
(* nothing; a callback must not destroy its own operation.                  *)
(***************************************************************************)
EXTENDS Naturals, Sequences

CONSTANTS
    MaxSize,    \* greatest size of the file
    SIZE_MAX,   \* greatest size_t
    Faults      \* calls that may fail

VARIABLES
    client,     \* where the client is
    worker,     \* where the worker thread is
    live,       \* memory allocated and not freed
    file,       \* the worker holds an open descriptor
    fsize,      \* size of the file
    changed,    \* history: the file has changed since its size was taken
    file_size,  \* local variable of the worker
    total,      \* local variable of the worker
    error,      \* local variable of the worker: an error has happened
    result,     \* operation->error and operation->size
    joined,     \* operation->joined, and thread->joined which follows it
    callback,   \* operation->callback is not NULL
    reports,    \* history: the arguments of each call of the callback
    answer      \* history: what x_async_file_read_wait returned last

memory == <<live, joined, callback>>
locals == <<file, file_size, total, error>>
history == <<reports, answer>>
vars == <<client, worker, memory, fsize, changed, locals, result, history>>

Results == [error : BOOLEAN, size : 0 .. MaxSize]
NoResult == [error |-> FALSE, size |-> 0]           \* as calloc leaves it
Block == {"operation", "path", "thread", "data"}

(***************************************************************************)
(* The client.                                                             *)
(***************************************************************************)
\* What was allocated before the failing call is freed again.
ReadAllFails ==
    /\ client = "start"
    /\ Faults \cap {"calloc", "strdup", "thread"} # {}
    /\ client' = "refused"
    /\ UNCHANGED <<worker, memory, fsize, changed, locals, result, history>>

\* The worker runs as soon as pthread_create has made it: the callback may be
\* called before x_async_file_read_all returns.
x_async_file_read_all ==
    /\ client = "start"
    /\ client' = "started" /\ worker' = "open"
    /\ live' = live \cup {"operation", "path", "thread"}
    /\ UNCHANGED <<joined, callback, fsize, changed, locals, result, history>>

ReadAllReturns ==
    /\ client = "started"
    /\ client' = "ready"
    /\ UNCHANGED <<worker, memory, fsize, changed, locals, result, history>>

\* Variant: the result is returned without waiting.
WaitAtOnce ==
    /\ client = "ready"
    /\ client' = "joined"
    /\ UNCHANGED <<worker, memory, fsize, changed, locals, result, history>>

\* x_async_file_read_wait and x_async_file_read_destroy block in pthread_join
\* unless the thread has been joined.
x_async_file_read_wait ==
    /\ client = "ready"
    /\ client' = IF joined THEN "joined" ELSE "joining"
    /\ UNCHANGED <<worker, memory, fsize, changed, locals, result, history>>

x_async_file_read_destroy ==
    /\ client = "ready"
    /\ client' = IF joined THEN "freeing" ELSE "joining_to_free"
    /\ UNCHANGED <<worker, memory, fsize, changed, locals, result, history>>

\* Variant: the thread is not waited for.
JoinAtOnce ==
    /\ client \in {"joining", "joining_to_free"}
    /\ joined' = TRUE
    /\ client' = IF client = "joining" THEN "joined" ELSE "freeing"
    /\ UNCHANGED <<worker, live, callback, fsize, changed, locals, result, history>>

x_thread_join ==
    /\ client \in {"joining", "joining_to_free"}
    /\ worker = "exited"
    /\ joined' = TRUE
    /\ client' = IF client = "joining" THEN "joined" ELSE "freeing"
    /\ UNCHANGED <<worker, live, callback, fsize, changed, locals, result, history>>

WaitReturns ==
    /\ client = "joined"
    /\ client' = "ready"
    /\ answer' = {result}
    /\ UNCHANGED <<worker, memory, fsize, changed, locals, result, reports>>

\* x_thread_destroy, and the rest of x_async_file_read_destroy
Free ==
    /\ client = "freeing"
    /\ client' = "destroyed"
    /\ live' = {}
    /\ UNCHANGED <<worker, joined, callback, fsize, changed, locals, result, history>>

(***************************************************************************)
(* x_async_file_read_worker.  After an error it goes on with closing.      *)
(***************************************************************************)
Advance(from, to) == worker = from /\ worker' = to

Fail(fault) == fault \in Faults /\ error' = TRUE

Open ==
    /\ \/ Advance("open", "fstat") /\ file' = TRUE /\ UNCHANGED error
       \/ Advance("open", "close") /\ Fail("open") /\ UNCHANGED file
    /\ UNCHANGED <<client, memory, fsize, changed, file_size, total, result, history>>

Size ==
    /\ \/ Advance("fstat", "malloc") /\ UNCHANGED error
          /\ file_size' = fsize /\ changed' = FALSE
       \/ Advance("fstat", "close") /\ Fail("fstat")
          /\ UNCHANGED <<file_size, changed>>
    /\ UNCHANGED <<client, memory, fsize, file, total, result, history>>

\* Variant: the byte for the terminating 0 is forgotten in the test.
AllocateUntested ==
    /\ Advance("malloc", "read") /\ UNCHANGED error
    /\ live' = live \cup {"data"}
    /\ UNCHANGED <<client, joined, callback, fsize, changed, file, file_size, total,
                   result, history>>

\* One byte more than the file, unless that is more than a size_t can hold.
Allocate ==
    /\ \/ /\ file_size <= SIZE_MAX - 1
          /\ Advance("malloc", "read") /\ UNCHANGED error
          /\ live' = live \cup {"data"}
       \/ /\ file_size > SIZE_MAX - 1 /\ error' = TRUE
          /\ Advance("malloc", "close") /\ UNCHANGED live
       \/ /\ Fail("malloc")
          /\ Advance("malloc", "close") /\ UNCHANGED live
    /\ UNCHANGED <<client, joined, callback, fsize, changed, file, file_size, total,
                   result, history>>

\* The bytes a read of at most n gives at the present offset: none at the end
\* of the file, else at least one.
Available(n) == {k \in 0 .. n : total + k <= fsize /\ (k = 0 => total >= fsize)}

\* Variant: the whole size is asked for each time.
ReadTooMuch ==
    /\ worker = "read" /\ total < file_size
    /\ \E k \in Available(file_size) :
           /\ total' = total + k
           /\ worker' = IF k = 0 THEN "close" ELSE "read"
           /\ UNCHANGED error
    /\ UNCHANGED <<client, memory, fsize, changed, file, file_size, result, history>>

\* Variant: one read is taken to be enough.
ReadOnce ==
    /\ worker = "read" /\ total < file_size
    /\ \E k \in Available(file_size - total) : total' = total + k
    /\ worker' = "close" /\ UNCHANGED error
    /\ UNCHANGED <<client, memory, fsize, changed, file, file_size, result, history>>

\* Variant: the end of the file does not end the loop.
ReadForever ==
    /\ worker = "read" /\ total < file_size
    /\ \E k \in Available(file_size - total) : total' = total + k
    /\ UNCHANGED <<worker, error, client, memory, fsize, changed, file, file_size,
                   result, history>>

\* One round of the loop.
Read ==
    /\ worker = "read" /\ total < file_size
    /\ \/ \E k \in Available(file_size - total) :
              /\ total' = total + k
              /\ worker' = IF k = 0 THEN "close" ELSE "read"
              /\ UNCHANGED error
       \/ Fail("read") /\ worker' = "close" /\ UNCHANGED total
    /\ UNCHANGED <<client, memory, fsize, changed, file, file_size, result, history>>

ReadDone ==
    /\ worker = "read" /\ total = file_size
    /\ worker' = "close"
    /\ UNCHANGED <<client, memory, fsize, changed, locals, result, history>>

\* Variant: the descriptor is closed on success only.
CloseOnSuccess ==
    /\ Advance("close", "callback")
    /\ file' = (file /\ error)
    /\ result' = [error |-> error, size |-> total]
    /\ UNCHANGED <<client, memory, fsize, changed, file_size, total, error, history>>

\* The file is closed, data[total] set to 0, and the result stored.
Close ==
    /\ Advance("close", "callback")
    /\ file' = FALSE
    /\ result' = [error |-> error, size |-> total]
    /\ UNCHANGED <<client, memory, fsize, changed, file_size, total, error, history>>

\* The callback, if any, is called with what the operation holds, and returns.
Callback ==
    /\ Advance("callback", "entry")
    /\ reports' = IF callback THEN Append(reports, result) ELSE reports
    /\ UNCHANGED <<client, memory, fsize, changed, locals, result, answer>>

\* x_thread_entry stores the return value in the thread object.
x_thread_entry ==
    /\ Advance("entry", "exited")
    /\ UNCHANGED <<client, memory, fsize, changed, locals, result, history>>

(***************************************************************************)
(* The file system: others write to the file or truncate it.               *)
(***************************************************************************)
FileChanges ==
    /\ fsize' \in 0 .. MaxSize
    /\ changed' = TRUE
    /\ UNCHANGED <<client, worker, memory, locals, result, history>>

Terminated == client \in {"refused", "destroyed"} /\ UNCHANGED vars

Init ==
    /\ client = "start" /\ worker = "none"
    /\ live = {} /\ joined = FALSE /\ callback \in BOOLEAN
    /\ fsize \in 0 .. MaxSize /\ changed = FALSE
    /\ file = FALSE /\ file_size = 0 /\ total = 0 /\ error = FALSE
    /\ result = NoResult
    /\ reports = <<>> /\ answer = {}

Worker == \/ Open \/ Size \/ Allocate \/ Read \/ ReadDone \/ Close \/ Callback
          \/ x_thread_entry

\* The steps of a call the client has made.
InCall == ReadAllReturns \/ x_thread_join \/ WaitReturns \/ Free

Next == \/ ReadAllFails \/ x_async_file_read_all
        \/ x_async_file_read_wait \/ x_async_file_read_destroy
        \/ InCall \/ Worker \/ FileChanges \/ Terminated

Spec == Init /\ [][Next]_vars

\* Both threads are scheduled and the callback returns.
FairSpec == Spec /\ WF_vars(Worker) /\ WF_vars(InCall)

(***************************************************************************)
(* Properties.                                                             *)
(***************************************************************************)
\* The worker never works on freed memory: x_async_file_read_destroy joins the
\* thread first, also when the client has not waited, and x_thread_entry has
\* written its last word to the thread object by then.
NoUseAfterFree ==
    worker \notin {"none", "exited"} => {"operation", "path", "thread"} \subseteq live

\* Reads never go past the block, nor does the terminating 0 at data[total],
\* although the file may grow after its size was taken; and the size of the
\* block, file_size + 1, does not wrap around.
WithinBlock == "data" \in live => total <= file_size /\ file_size + 1 <= SIZE_MAX

\* Nothing is left behind: when the operation is destroyed or could not be
\* started, its memory is freed and its file is closed, whatever failed.
NothingLeft ==
    client \in {"refused", "destroyed"} =>
        live = {} /\ ~file /\ worker \in {"none", "exited"}

\* Whoever has waited sees the end of the matter: the callback has been called,
\* exactly once and never again, with the very result that wait returns.
CallbackBeforeWaitReturns ==
    /\ Len(reports) <= 1
    /\ \A a \in answer : /\ a = result
                         /\ reports = IF callback THEN <<a>> ELSE <<>>

\* A result without an error is the whole file, unless the file has changed
\* since its size was taken: short reads are continued.
WholeFileRead ==
    \A i \in DOMAIN reports :
        ~reports[i].error /\ ~changed => reports[i].size = fsize

\* The worker never works on freed memory, nor beyond its block; and an operation
\* that is destroyed or was refused leaves nothing behind.
AsyncReadMemory == NoUseAfterFree /\ WithinBlock /\ NothingLeft

\* Whoever has waited sees the callback called once, with the result of the wait;
\* and a result without an error is the whole file.
AsyncReadResult == CallbackBeforeWaitReturns /\ WholeFileRead

\* A client that waits for the operation gets an answer.
WaitEnds == client = "joining" ~> client = "ready"

==============================================================================
