------------------------------ MODULE Directory ------------------------------
(***************************************************************************)
(* Listing a directory with x_directory_open and x_directory_next          *)
(* (src/src/x_filesystem.c) while others create and delete files in it.    *)
(* On a POSIX system an entry is read and then stat'ed; on Windows the     *)
(* entry after the one returned has been fetched already.                  *)
(*                                                                         *)
(* External: the operating system gives every entry at most once, an entry *)
(* that stays in the directory exactly once, and the others or not.        *)
(***************************************************************************)
EXTENDS Sequences, FiniteSets

CONSTANTS
    Names,      \* names of files
    TooLong     \* those that do not fit x_directory_entry_t or XLIB_PATH_MAX

VARIABLES
    windows,        \* the build
    entries,        \* what has each name; a link may point nowhere
    stable,         \* history: the names created before the listing and not deleted
    stream,         \* what the operating system has yet to give
    at,             \* where the client is
    current,        \* dir_entry, or directory->data while has_pending_entry
    pending_error,  \* directory->pending_error is not 0
    passed,         \* history: on Windows, the last call passed over a dot entry
    listed,         \* history: the names returned
    failed,         \* history: the names whose call returned an error
    cut,            \* history: the operating system could not go on
    told            \* history: and the client was told

vars == <<windows, entries, stable, stream, at, current, pending_error, passed, listed, failed,
          cut, told>>

None == "none"
Dots == {".", ".."}

\* Variant: only the directory itself is recognised.
IsDotOnly(name) == name = "."

x_filesystem_is_dot_entry(name) == name \in Dots

\* A call returns an entry, an error, or nothing more.
Return(to, names, failures) ==
    at' = to /\ listed' = listed \o names /\ failed' = failed \cup failures

(***************************************************************************)
(* POSIX.                                                                  *)
(***************************************************************************)
\* readdir, once for each round of the loop.  Dot entries are passed over.
Readdir ==
    /\ ~windows /\ at = "next"
    /\ \/ stream = {} /\ Return("ended", <<>>, {}) /\ UNCHANGED <<stream, current, cut, told>>
       \/ \E name \in stream :
              /\ stream' = stream \ {name} /\ UNCHANGED <<cut, told>>
              /\ IF x_filesystem_is_dot_entry(name)
                 THEN Return("next", <<>>, {}) /\ UNCHANGED current
                 ELSE IF name \in TooLong THEN Return("rest", <<>>, {name}) /\ UNCHANGED current
                 ELSE Return("stat", <<>>, {}) /\ current' = name
       \/ /\ cut' = TRUE /\ told' = TRUE
          /\ Return("rest", <<>>, {}) /\ UNCHANGED <<stream, current>>
    /\ UNCHANGED <<windows, entries, stable, pending_error, passed>>

\* stat follows links; what has gone since readdir is an error of the call.
Stat ==
    /\ ~windows /\ at = "stat"
    /\ IF entries[current] \in {"absent", "dangling"}
       THEN Return("rest", <<>>, {current})
       ELSE Return("rest", <<current>>, {})
    /\ current' = None
    /\ UNCHANGED <<windows, entries, stable, stream, pending_error, passed, cut, told>>

(***************************************************************************)
(* Windows.                                                                *)
(***************************************************************************)
\* Variant: an error of FindNextFileW is taken for the end.
FindNextForgetting ==
    \/ stream = {} /\ current' = None /\ UNCHANGED <<stream, pending_error, cut>>
    \/ \E name \in stream :
           current' = name /\ stream' = stream \ {name} /\ UNCHANGED <<pending_error, cut>>
    \/ current' = None /\ cut' = TRUE /\ UNCHANGED <<stream, pending_error>>

\* FindNextFileW fetches the entry after the present one.  An error other than
\* the end is kept for the next call.
FindNext ==
    \/ stream = {} /\ current' = None /\ UNCHANGED <<stream, pending_error, cut>>
    \/ \E name \in stream :
           current' = name /\ stream' = stream \ {name} /\ UNCHANGED <<pending_error, cut>>
    \/ current' = None /\ cut' = TRUE /\ pending_error' = TRUE /\ UNCHANGED stream

\* The client is not in a call; it may also call again after the end.
Outside == at \in {"rest", "ended"}

\* A call that finds an error kept, and no entry, does nothing else.
ErrorKept == windows /\ current = None /\ pending_error

PendingError ==
    /\ Outside /\ ErrorKept
    /\ pending_error' = FALSE /\ told' = TRUE /\ passed' = FALSE
    /\ Return("rest", <<>>, {})
    /\ UNCHANGED <<windows, entries, stable, stream, current, cut>>

\* One round of the loop.  The name is converted before the next entry is
\* fetched, the result of the conversion tested afterwards.
PendingEntry ==
    /\ windows /\ at = "next" /\ current # None
    /\ FindNext
    /\ IF current \in TooLong THEN Return("rest", <<>>, {current})
       ELSE IF x_filesystem_is_dot_entry(current) THEN Return("next", <<>>, {})
       ELSE Return("rest", <<current>>, {})
    /\ passed' = (passed \/ at' = "next")
    /\ UNCHANGED <<windows, entries, stable, told>>

\* The loop ends: nothing more, also when this very call has just kept an error.
NothingPending ==
    /\ windows /\ at = "next" /\ current = None
    /\ Return("ended", <<>>, {})
    /\ UNCHANGED <<windows, entries, stable, stream, current, pending_error, passed, cut, told>>

(***************************************************************************)
(* The client, and the others.                                             *)
(***************************************************************************)
\* The client calls, also after an error, and the call comes to its loop.
x_directory_next ==
    /\ Outside /\ ~ErrorKept
    /\ at' = "next" /\ passed' = FALSE
    /\ UNCHANGED <<windows, entries, stable, stream, current, pending_error, listed, failed,
                   cut, told>>

Given == {listed[i] : i \in DOMAIN listed} \cup failed \cup {current}

Create(name, kind) ==
    /\ entries[name] = "absent"
    /\ entries' = [entries EXCEPT ![name] = kind]
    /\ stream' \in {stream} \cup (IF name \in Given THEN {} ELSE {stream \cup {name}})
    /\ UNCHANGED <<windows, stable, at, current, pending_error, passed, listed, failed, cut, told>>

Delete(name) ==
    /\ entries[name] # "absent"
    /\ entries' = [entries EXCEPT ![name] = "absent"]
    /\ stable' = stable \ {name}
    /\ stream' \in {stream, stream \ {name}}
    /\ UNCHANGED <<windows, at, current, pending_error, passed, listed, failed, cut, told>>

Kinds(posix) == {"file", "directory"} \cup (IF posix THEN {"dangling"} ELSE {})

\* After x_directory_open, which on Windows fetches the first entry.
Init ==
    /\ windows \in BOOLEAN
    /\ entries \in [Names -> {"absent"} \cup Kinds(~windows)]
    /\ stable = {name \in Names : entries[name] # "absent"}
    /\ IF windows THEN \E name \in stable \cup Dots :
                           current = name /\ stream = (stable \cup Dots) \ {name}
                  ELSE current = None /\ stream = stable \cup Dots
    /\ at = "rest" /\ pending_error = FALSE /\ passed = FALSE
    /\ listed = <<>> /\ failed = {} /\ cut = FALSE /\ told = FALSE

Next ==
    \/ Readdir \/ Stat \/ PendingError \/ PendingEntry \/ NothingPending \/ x_directory_next
    \/ \E name \in Names : \/ Delete(name)
                           \/ \E kind \in Kinds(~windows) : Create(name, kind)

(***************************************************************************)
(* Properties.                                                             *)
(***************************************************************************)
\* When x_directory_next says that there is nothing more, every file that was
\* there from the beginning has been returned, or the call that came to it has
\* returned an error, or the client was told that the listing broke off.  One case
\* is left, on Windows: the call passed over a dot entry after which FindNextFileW
\* failed, and ends as if there were no more; then the error is still kept, and the
\* next call returns it.
ListingComplete ==
    at = "ended" => \/ told
                    \/ ~cut /\ stable \subseteq Given
                    \/ ErrorKept /\ passed

\* No entry is returned twice, and never the directory itself or its parent, also
\* when a call fails between two entries.
ListedOnce ==
    /\ \A i, j \in DOMAIN listed : listed[i] = listed[j] => i = j
    /\ \A i \in DOMAIN listed : listed[i] \in Names \ failed

==============================================================================
