------------------------------ MODULE OpenFile -------------------------------
(***************************************************************************)
(* A file that two handles of src/src/x_filesystem.c and a mapping of      *)
(* src/src/x_memory.c have open at the same time.  The handles are opened  *)
(* in any mode, read, written and sought; the file is mapped as it is or   *)
(* created anew.  The file system is external: POSIX lets everyone open    *)
(* the file, Windows follows the share modes.  The file exists; of its     *)
(* bytes only the number matters.                                          *)
(***************************************************************************)
EXTENDS Integers

CONSTANTS
    Handles,    \* x_file_t objects
    MaxFile     \* bound on the length of the file and on offsets

VARIABLES
    build,      \* "posix" or "windows"
    length,     \* of the file
    handle,     \* the handles: the access of an open one and its offset
    mapping,    \* the x_mapped_file_t
    cut         \* history: the file was truncated after the mapping took its size

vars == <<build, length, handle, mapping, cut>>

Closed == [access |-> {}, offset |-> 0, sought |-> FALSE]
Unmapped == [at |-> "none", size |-> 0, writable |-> FALSE]

Modes == {m \in SUBSET {"READ", "WRITE", "CREATE", "TRUNCATE", "APPEND"} :
              m \cap {"READ", "WRITE", "APPEND"} # {}}

IsOpen(h) == handle[h].access # {}
Writes(mode) == mode \cap {"WRITE", "APPEND"} # {}

\* Variant: FILE_SHARE_WRITE is added.
ShareWithWriters(mode) ==
    build = "windows" =>
        /\ mapping.at # "none" => ~Writes(mode) /\ ~mapping.writable /\ "TRUNCATE" \notin mode
        /\ "TRUNCATE" \in mode => Writes(mode) \/ "CREATE" \in mode

\* x_file_open shares with readers only: on Windows a writer excludes every other
\* handle.  A mapping has the file open too, and a file that is mapped cannot be
\* truncated.  TRUNCATE_EXISTING wants GENERIC_WRITE.
Share(mode) ==
    build = "windows" =>
        /\ \A h \in Handles : IsOpen(h) => ~Writes(mode) /\ ~Writes(handle[h].access)
        /\ mapping.at # "none" => ~Writes(mode) /\ ~mapping.writable /\ "TRUNCATE" \notin mode
        /\ "TRUNCATE" \in mode => Writes(mode) \/ "CREATE" \in mode

\* On Windows X_FILE_APPEND moves the file pointer to the end, once.
x_file_open(h, mode) ==
    LET size == IF "TRUNCATE" \in mode THEN 0 ELSE length
    IN  /\ ~IsOpen(h) /\ Share(mode)
        /\ handle' = [handle EXCEPT ![h] =
               [access |-> mode \cap {"READ", "WRITE", "APPEND"}, sought |-> FALSE,
                offset |-> IF build = "windows" /\ "APPEND" \in mode THEN size ELSE 0]]
        /\ length' = size /\ cut' = (cut \/ size < length)
        /\ UNCHANGED <<build, mapping>>

\* At the end of the file nothing is read; else at least one byte.
x_file_read(h, size) ==
    /\ "READ" \in handle[h].access
    /\ \E k \in 1 .. size : /\ handle[h].offset + k <= length
                            /\ handle' = [handle EXCEPT ![h].offset = @ + k]
    /\ UNCHANGED <<build, length, mapping, cut>>

\* Where the next write of a handle goes: O_APPEND moves it to the end.
Position(h) ==
    IF build = "posix" /\ "APPEND" \in handle[h].access THEN length ELSE handle[h].offset

\* Possibly fewer bytes than asked for.
x_file_write(h, size) ==
    /\ Writes(handle[h].access)
    /\ \E k \in 1 .. size :
           LET end == Position(h) + k
           IN  /\ end <= MaxFile
               /\ length' = IF end > length THEN end ELSE length
               /\ handle' = [handle EXCEPT ![h].offset = end]
    /\ UNCHANGED <<build, mapping, cut>>

\* Where the offset of a seek is counted from.
Origin(h, origin) ==
    CASE origin = "SET" -> 0 [] origin = "CURRENT" -> handle[h].offset
      [] origin = "END" -> length

\* A place before the beginning is refused.
x_file_seek(h, offset, origin) ==
    /\ IsOpen(h) /\ Origin(h, origin) + offset \in 0 .. MaxFile
    /\ handle' = [handle EXCEPT ![h].offset = Origin(h, origin) + offset,
                                ![h].sought = TRUE]
    /\ UNCHANGED <<build, length, mapping, cut>>

x_file_close(h) ==
    /\ IsOpen(h)
    /\ handle' = [handle EXCEPT ![h] = Closed]
    /\ UNCHANGED <<build, length, mapping, cut>>

(***************************************************************************)
(* The mapping.  A failing step undoes the former ones, but the file stays *)
(* truncated.                                                              *)
(***************************************************************************)
Map(at, size) == mapping' = [mapping EXCEPT !.at = at, !.size = size]

x_mapped_file_create(size) ==
    /\ mapping.at = "none"
    /\ build = "windows" => \A h \in Handles : ~IsOpen(h)
    /\ mapping' = [at |-> "created", size |-> size, writable |-> TRUE]
    /\ length' = 0
    /\ UNCHANGED <<build, handle, cut>>

\* Variant: the file is left as it is.
CreateLeavesLength ==
    /\ mapping.at = "created" /\ Map("sized", mapping.size)
    /\ cut' = FALSE
    /\ UNCHANGED <<build, length, handle>>

\* ftruncate, or SetEndOfFile: the file gets the size asked for.
CreateSetsLength ==
    /\ mapping.at = "created" /\ Map("sized", mapping.size)
    /\ length' = mapping.size /\ cut' = FALSE
    /\ UNCHANGED <<build, handle>>

x_mapped_file_open(writable) ==
    /\ mapping.at = "none"
    /\ build = "windows" => \A h \in Handles : IsOpen(h) => ~Writes(handle[h].access) /\ ~writable
    /\ mapping' = [at |-> "opened", size |-> 0, writable |-> writable]
    /\ UNCHANGED <<build, length, handle, cut>>

\* An empty file is refused.
OpenTakesLength ==
    /\ mapping.at = "opened"
    /\ IF length = 0 THEN mapping' = Unmapped ELSE Map("sized", length)
    /\ cut' = FALSE
    /\ UNCHANGED <<build, length, handle>>

Mmap ==
    /\ mapping.at = "sized" /\ Map("mapped", mapping.size)
    /\ UNCHANGED <<build, length, handle, cut>>

\* x_mapped_file_destroy, or the error path of the step before.
x_mapped_file_destroy ==
    /\ mapping.at # "none" /\ mapping' = Unmapped
    /\ UNCHANGED <<build, length, handle, cut>>

Init ==
    /\ build \in {"posix", "windows"}
    /\ length = 0 /\ handle = [h \in Handles |-> Closed]
    /\ mapping = Unmapped /\ cut = FALSE

Next ==
    \/ \E h \in Handles :
           \/ \E mode \in Modes : x_file_open(h, mode)
           \/ \E size \in 1 .. 2 : x_file_read(h, size) \/ x_file_write(h, size)
           \/ \E offset \in {-1, 0, 1}, origin \in {"SET", "CURRENT", "END"} :
                  x_file_seek(h, offset, origin)
           \/ x_file_close(h)
    \/ \E size \in 1 .. 2 : x_mapped_file_create(size)
    \/ CreateSetsLength
    \/ \E writable \in BOOLEAN : x_mapped_file_open(writable)
    \/ OpenTakesLength \/ Mmap \/ x_mapped_file_destroy

(***************************************************************************)
(* Properties.                                                             *)
(***************************************************************************)
\* A handle in X_FILE_APPEND writes after everything that is in the file, whatever
\* other handles have written since it was opened; on Windows, where the file
\* pointer was moved only once, unless the handle has been sought.
AppendsAtEnd ==
    \A h \in Handles : "APPEND" \in handle[h].access /\ ~(build = "windows" /\ handle[h].sought)
        => Position(h) = length

\* All of x_mapped_file_size bytes of a mapping can be accessed, unless someone
\* has truncated the file after its size was taken; on Windows nobody can.
MappingCovered ==
    mapping.at = "mapped" =>
        /\ mapping.size > 0
        /\ mapping.size <= length \/ (cut /\ build = "posix")

==============================================================================
