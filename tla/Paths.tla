-------------------------------- MODULE Paths --------------------------------
(***************************************************************************)
(* The paths of src/src/x_filesystem.c: x_path_join into a buffer of a     *)
(* given size, x_path_basename and x_path_is_absolute, of both builds.     *)
(***************************************************************************)
EXTENDS Naturals, Sequences

CONSTANTS
    Letters,    \* characters other than "/", "\\" and ":"
    MaxPath     \* greatest length of a path that is joined

VARIABLES
    windows,        \* the build
    left, right,    \* the paths to join
    size,           \* of the buffer
    joined          \* what x_path_join has written, without the terminating 0

vars == <<windows, left, right, size, joined>>

ENAMETOOLONG == <<"ENAMETOOLONG">>
Unjoined == <<"none">>

Separators == IF windows THEN {"/", "\\"} ELSE {"/"}
At(path, i) == IF i <= Len(path) THEN path[i] ELSE "0"

x_path_is_absolute(path) ==
    \/ At(path, 1) = "/"
    \/ windows /\ At(path, 1) = "\\" /\ At(path, 2) = "\\"
    \/ windows /\ At(path, 1) \in Letters /\ At(path, 2) = ":" /\ At(path, 3) \in Separators

x_filesystem_has_separator(path) == path # <<>> /\ path[Len(path)] \in Separators

\* The characters after the last separator.
x_path_basename(path) ==
    LET after == {0} \cup {i \in DOMAIN path : path[i] \in Separators}
    IN  SubSeq(path, 1 + CHOOSE i \in after : \A j \in after : j <= i, Len(path))

\* Variant: the separator is forgotten in the length.
JoinUncounted(l, r) ==
    LET separator == IF windows THEN "\\" ELSE "/"
        needs_separator == ~x_filesystem_has_separator(l) /\ r # <<>>
        text == IF x_path_is_absolute(r) \/ l = <<>> THEN r
                ELSE l \o (IF needs_separator THEN <<separator>> ELSE <<>>) \o r
    IN  IF Len(l) + Len(r) + 1 > size THEN ENAMETOOLONG ELSE text

x_path_join(l, r) ==
    LET separator == IF windows THEN "\\" ELSE "/"
        needs_separator == ~x_filesystem_has_separator(l) /\ r # <<>>
        text == IF x_path_is_absolute(r) \/ l = <<>> THEN r
                ELSE l \o (IF needs_separator THEN <<separator>> ELSE <<>>) \o r
    IN  IF Len(text) + 1 > size THEN ENAMETOOLONG ELSE text

Characters == Letters \cup {"/", "\\", ":"}
PathsUpTo(n) == UNION {[1 .. k -> Characters] : k \in 0 .. n}

Init ==
    /\ windows \in BOOLEAN
    /\ left \in PathsUpTo(MaxPath) /\ right \in PathsUpTo(MaxPath)
    /\ size \in 1 .. 2 * MaxPath + 2
    /\ joined = Unjoined

Join ==
    /\ joined = Unjoined /\ joined' = x_path_join(left, right)
    /\ UNCHANGED <<windows, left, right, size>>

(***************************************************************************)
(* Properties.                                                             *)
(***************************************************************************)
StartsWith(path, p) == Len(p) <= Len(path) /\ \A i \in DOMAIN p : path[i] = p[i]
EndsWith(path, p) ==
    Len(p) <= Len(path) /\ \A i \in DOMAIN p : path[Len(path) - Len(p) + i] = p[i]

\* x_path_join stays within the buffer, and refuses only what does not fit.  The
\* joined path names what the right path named, below the left one: it has the
\* same base name, begins with the left path unless the right one is absolute,
\* and is absolute if either is.
JoinedInside ==
    joined # Unjoined =>
        /\ joined = ENAMETOOLONG => Len(left) + Len(right) + 2 > size
        /\ joined # ENAMETOOLONG =>
               /\ Len(joined) + 1 <= size
               /\ right # <<>> => x_path_basename(joined) = x_path_basename(right)
               /\ EndsWith(joined, right)
               /\ x_path_is_absolute(right) \/ StartsWith(joined, left)
               /\ x_path_is_absolute(left) \/ x_path_is_absolute(right) => x_path_is_absolute(joined)

==============================================================================
