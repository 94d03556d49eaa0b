-------------------------------- MODULE Files --------------------------------
(***************************************************************************)
(* The parts of src/src/x_filesystem.c side by side: an asynchronous read  *)
(* (AsyncRead), a file watcher (FileWatcher), the listing of a directory   *)
(* (Directory), a file with several handles and a mapping of               *)
(* src/src/x_memory.c (OpenFile), and paths (Paths).  A behaviour is one   *)
(* of the five.                                                            *)
(***************************************************************************)
EXTENDS Integers, Sequences

CONSTANTS
    MaxSize, SIZE_MAX, Faults,  \* AsyncRead
    Sizes, MaxTime,             \* FileWatcher
    Names, TooLong,             \* Directory
    Handles, MaxFile,           \* OpenFile
    Letters, MaxPath            \* Paths

ASSUME FilesAssumption ==
    /\ MaxSize \in Nat /\ SIZE_MAX \in Nat \ {0}
    /\ Faults \subseteq {"calloc", "strdup", "thread", "open", "fstat", "malloc", "read"}
    /\ Sizes \subseteq Nat /\ MaxTime \in Nat
    /\ TooLong \subseteq Names /\ Names \cap {".", "..", "none"} = {}
    /\ MaxFile \in Nat /\ MaxPath \in Nat
    /\ Letters \cap {"/", "\\", ":", "0", "none", "ENAMETOOLONG"} = {}

VARIABLES
    part,   \* which of the five
    client, worker, live, file, fsize, changed, file_size, total, error, result, joined,
    callback, reports, answer,
    clock, watched, state, told, touched, taken,
    windows, entries, stable, stream, at, current, pending_error, passed, listed, failed, cut,
    warned,
    build, length, handle, mapping, shrunk,
    path_windows, left, right, size, path

async_vars == <<client, worker, live, file, fsize, changed, file_size, total, error, result,
                joined, callback, reports, answer>>
watcher_vars == <<clock, watched, state, told, touched, taken>>
directory_vars == <<windows, entries, stable, stream, at, current, pending_error, passed,
                    listed, failed, cut, warned>>
open_vars == <<build, length, handle, mapping, shrunk>>
path_vars == <<path_windows, left, right, size, path>>
vars == <<part, async_vars, watcher_vars, directory_vars, open_vars, path_vars>>

A == INSTANCE AsyncRead
W == INSTANCE FileWatcher WITH file <- watched, changed <- touched
D == INSTANCE Directory WITH told <- warned
O == INSTANCE OpenFile WITH cut <- shrunk
P == INSTANCE Paths WITH windows <- path_windows, joined <- path

Init ==
    /\ part \in {"async_read", "watcher", "directory", "open_file", "paths"}
    /\ A!Init /\ (part # "async_read" => ~callback /\ fsize = 0)
    /\ W!Init /\ (part # "watcher" => watched = W!Absent)
    /\ D!Init /\ (part # "directory" => ~windows /\ stable = {})
    /\ O!Init /\ (part # "open_file" => build = "posix")
    /\ IF part = "paths" THEN P!Init
       ELSE /\ path_windows = FALSE /\ left = <<>> /\ right = <<>> /\ size = 1
            /\ path = P!Unjoined

InAsyncRead(step) ==
    /\ part = "async_read" /\ step
    /\ UNCHANGED <<part, watcher_vars, directory_vars, open_vars, path_vars>>

Joined == part = "paths" /\ path # P!Unjoined /\ UNCHANGED vars

Next ==
    \/ InAsyncRead(A!Next)
    \/ part = "watcher" /\ W!Next /\ UNCHANGED <<part, async_vars, directory_vars, open_vars, path_vars>>
    \/ part = "directory" /\ D!Next /\ UNCHANGED <<part, async_vars, watcher_vars, open_vars, path_vars>>
    \/ part = "open_file" /\ O!Next /\ UNCHANGED <<part, async_vars, watcher_vars, directory_vars, path_vars>>
    \/ part = "paths" /\ P!Join /\ UNCHANGED <<part, async_vars, watcher_vars, directory_vars, open_vars>>
    \/ Joined

\* The worker thread and a call of the client that has begun are scheduled, and
\* the callback returns.
FairSpec ==
    /\ Init /\ [][Next]_vars
    /\ WF_vars(InAsyncRead(A!Worker)) /\ WF_vars(InAsyncRead(A!InCall))

(***************************************************************************)
(* Properties.                                                             *)
(***************************************************************************)
\* The worker of an asynchronous read never works on freed memory, nor beyond its
\* block, whose size does not wrap around; and an operation that is destroyed or
\* was refused leaves nothing behind.
AsyncReadMemory == A!AsyncReadMemory

\* Whoever has waited for an asynchronous read sees the callback called once, with
\* the result of the wait; and a result without an error is the whole file.
AsyncReadResult == A!AsyncReadResult

\* A client that waits for an asynchronous read gets an answer.
WaitEnds == A!WaitEnds

\* The events of a watcher together tell whether the file exists, and a change in a
\* later second than the last snapshot is not overlooked.
ChangesReported == W!EventsTellExistence /\ W!LaterChangesSeen

\* A listing that ends has returned every file that was there all the time, or an
\* error in its place, or on Windows, after a dot entry, keeps the error for another
\* call; none twice, and no dot entry at all.
ListingSound == D!ListingComplete /\ D!ListedOnce

\* A handle in X_FILE_APPEND writes after everything in the file, and all bytes of
\* a mapping can be accessed unless the file was truncated.
OpenFilesSafe == O!AppendsAtEnd /\ O!MappingCovered

\* x_path_join stays within its buffer and below its left path.
JoinedInside == P!JoinedInside

==============================================================================
