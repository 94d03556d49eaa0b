----------------------------- MODULE FileWatcher -----------------------------
(***************************************************************************)
(* The file watcher of src/src/x_filesystem.c on a POSIX system: each poll *)
(* compares what stat says of a path with the previous snapshot.  Others   *)
(* create, write and delete what is at the path; the file system stamps    *)
(* every change with the time, which st_mtime gives in whole seconds.      *)
(***************************************************************************)
EXTENDS Naturals

CONSTANTS
    Sizes,      \* sizes of the file
    MaxTime     \* bound on the time in seconds

VARIABLES
    clock,      \* seconds of the file system's clock
    file,       \* what is at the path
    state,      \* watcher->state
    told,       \* history: whether the events so far say that the file exists
    changed,    \* history: something has happened since the last snapshot
    taken       \* history: when the last snapshot was taken

vars == <<clock, file, state, told, changed, taken>>

Absent == [exists |-> FALSE, is_directory |-> FALSE, size |-> 0, modified |-> 0]
Entry(d, s) == [exists |-> TRUE, is_directory |-> d, size |-> s, modified |-> clock]

\* x_file_watcher_snapshot: ENOENT is a state like others; a directory has no
\* size.
x_file_watcher_snapshot ==
    IF file.is_directory THEN [file EXCEPT !.size = 0] ELSE file

\* Variant: only the size is compared.
EventsBySize(old, new) ==
    IF ~old.exists /\ new.exists THEN {"CREATED"}
    ELSE IF old.exists /\ ~new.exists THEN {"DELETED"}
    ELSE IF old.size # new.size THEN {"MODIFIED"} ELSE {}

\* The events x_file_watcher_poll derives from two snapshots.
Events(old, new) ==
    IF ~old.exists /\ new.exists THEN {"CREATED"}
    ELSE IF old.exists /\ ~new.exists THEN {"DELETED"}
    ELSE IF /\ old.exists /\ new.exists
            /\ \/ old.is_directory # new.is_directory
               \/ old.size # new.size
               \/ old.modified # new.modified
         THEN {"MODIFIED"} ELSE {}

\* Variant: the snapshot is kept only if there is an event.
PollKeepsOld ==
    LET events == Events(state, x_file_watcher_snapshot)
    IN  /\ state' = IF events = {} THEN x_file_watcher_snapshot ELSE state
        /\ told' = IF "CREATED" \in events THEN TRUE
                   ELSE IF "DELETED" \in events THEN FALSE ELSE told
        /\ changed' = FALSE /\ taken' = clock
        /\ UNCHANGED <<clock, file>>

\* stat may also fail, and then nothing changes.
x_file_watcher_poll ==
    LET events == Events(state, x_file_watcher_snapshot)
    IN  /\ state' = x_file_watcher_snapshot
        /\ told' = IF "CREATED" \in events THEN TRUE
                   ELSE IF "DELETED" \in events THEN FALSE ELSE told
        /\ changed' = FALSE /\ taken' = clock
        /\ UNCHANGED <<clock, file>>

(***************************************************************************)
(* The file system.                                                        *)
(***************************************************************************)
Change == changed' = TRUE /\ UNCHANGED <<clock, state, told, taken>>

Create(d, s) == ~file.exists /\ file' = Entry(d, s) /\ Change
Write(s) == file.exists /\ file' = Entry(file.is_directory, s) /\ Change
Delete == file.exists /\ file' = Absent /\ Change

Tick == clock < MaxTime /\ clock' = clock + 1
        /\ UNCHANGED <<file, state, told, changed, taken>>

\* x_file_watcher_create takes the first snapshot.
Init ==
    /\ clock = 0
    /\ file \in {Absent} \cup {Entry(d, s) : d \in BOOLEAN, s \in Sizes}
    /\ state = x_file_watcher_snapshot
    /\ told = file.exists
    /\ changed = FALSE /\ taken = 0

Next == \/ x_file_watcher_poll
        \/ \E d \in BOOLEAN, s \in Sizes : Create(d, s)
        \/ \E s \in Sizes : Write(s)
        \/ Delete
        \/ Tick

Spec == Init /\ [][Next]_vars

(***************************************************************************)
(* Properties.                                                             *)
(***************************************************************************)
\* The events of all polls together tell whether the file exists: CREATED and
\* DELETED alternate, however often the file came and went between two polls.
EventsTellExistence == told = state.exists

\* A change in a later second than the snapshot before is not overlooked, even
\* if it leaves the size as it was or replaces the file by another.
LaterChangesSeen ==
    /\ changed /\ file.exists /\ state.exists /\ file.modified > taken
           => Events(state, x_file_watcher_snapshot) # {}
    /\ state.modified <= taken

==============================================================================
