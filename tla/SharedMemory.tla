----------------------------- MODULE SharedMemory -----------------------------
(***************************************************************************)
(* The shared memory regions of src/src/x_ipc.c on a POSIX system.         *)
(* Processes create, open, close and unlink regions by name, each call     *)
(* being several system calls between which others run, and any process    *)
(* may crash.  The name space and the objects are the kernel's: an object  *)
(* lives while a name, a descriptor or a mapping refers to it.             *)
(***************************************************************************)
EXTENDS IpcName

VARIABLES
    named,    \* the object each name refers to
    size,     \* size of each object
    asked,    \* history: the size its creator wants it to have
    at,       \* where each process is
    call,     \* arguments and local variables of its call
    handle,   \* the region each process has mapped
    replaced, \* history: objects created again while they were in use
    bereft    \* history: processes whose create has lost the name it opened

vars == <<named, size, asked, at, call, handle, replaced, bereft>>

Objects == 1 .. MaxObjects
NoCall == [body |-> CHOOSE b \in Bodies : TRUE, size |-> 0, fd |-> None]
NoHandle == [object |-> None, size |-> 0]

InUse(o) == \E p \in Procs : call[p].fd = o \/ handle[p].object = o

\* Objects that nothing refers to, whose place the kernel may use again.
Unused == {o \in Objects : ~InUse(o) /\ \A b \in Bodies : named[b] # o}

\* Processes inside x_shared_memory_create that have opened this name.
Creating(body) == {p \in Procs : at[p] \in {"truncate", "map"} /\ call[p].body = body}

\* shm_unlink; mappings and descriptors remain.
Unname(body, returning) ==
    /\ named' = [named EXCEPT ![body] = None]
    /\ bereft' = (bereft \cup Creating(body)) \ returning

Goto(p, label) == at' = [at EXCEPT ![p] = label]

\* A call ends: its descriptor is closed.
End(p) == Goto(p, "rest") /\ call' = [call EXCEPT ![p] = NoCall]
Return(p) == End(p) /\ bereft' = bereft \ {p}

\* mmap, close, and return the handle.
Map(p) ==
    /\ Return(p)
    /\ handle' = [handle EXCEPT ![p] = [object |-> call[p].fd, size |-> call[p].size]]

(***************************************************************************)
(* x_shared_memory_create: shm_open, ftruncate, mmap.                      *)
(***************************************************************************)
\* O_CREAT makes an empty object; O_TRUNC empties one that exists.
x_shared_memory_create(p, n, s) ==
    LET body == x_ipc_make_posix_name(n)
    IN  /\ at[p] = "rest" /\ handle[p] = NoHandle
        /\ Fits(n)
        /\ \E fd \in IF named[body] = None THEN Unused ELSE {named[body]} :
              /\ named' = [named EXCEPT ![body] = fd]
              /\ size' = [size EXCEPT ![fd] = 0]
              /\ asked' = [asked EXCEPT ![fd] = s]
              /\ replaced' = IF InUse(fd) THEN replaced \cup {fd} ELSE replaced \ {fd}
              /\ call' = [call EXCEPT ![p] = [body |-> body, size |-> s, fd |-> fd]]
        /\ Goto(p, "truncate")
        /\ UNCHANGED <<handle, bereft>>

\* The error paths remove the name, whatever it refers to by now.
CreateFails(p) ==
    /\ at[p] \in {"truncate", "map"}
    /\ Unname(call[p].body, {p}) /\ End(p)
    /\ UNCHANGED <<size, asked, handle, replaced>>

Truncate(p) ==
    /\ at[p] = "truncate"
    /\ size' = [size EXCEPT ![call[p].fd] = call[p].size]
    /\ Goto(p, "map")
    /\ UNCHANGED <<named, asked, call, handle, replaced, bereft>>

MapCreated(p) ==
    /\ at[p] = "map"
    /\ Map(p)
    /\ UNCHANGED <<named, size, asked, replaced>>

(***************************************************************************)
(* x_shared_memory_open: shm_open, fstat, mmap.                            *)
(***************************************************************************)
x_shared_memory_open(p, n) ==
    LET body == x_ipc_make_posix_name(n)
    IN  /\ at[p] = "rest" /\ handle[p] = NoHandle
        /\ Fits(n) /\ named[body] # None
        /\ Goto(p, "fstat")
        /\ call' = [call EXCEPT ![p] = [body |-> body, size |-> 0, fd |-> named[body]]]
        /\ UNCHANGED <<named, size, asked, handle, replaced, bereft>>

\* Variant: an empty region is not refused.
StatUntested(p) ==
    /\ at[p] = "fstat"
    /\ Goto(p, "map_opened")
    /\ call' = [call EXCEPT ![p].size = size[call[p].fd]]
    /\ UNCHANGED <<named, size, asked, handle, replaced, bereft>>

\* A region of size 0 is one whose creator has not come to ftruncate yet.
Stat(p) ==
    /\ at[p] = "fstat"
    /\ IF size[call[p].fd] = 0
       THEN Return(p)
       ELSE /\ Goto(p, "map_opened") /\ UNCHANGED bereft
            /\ call' = [call EXCEPT ![p].size = size[call[p].fd]]
    /\ UNCHANGED <<named, size, asked, handle, replaced>>

\* Variant: the name is removed, as in x_shared_memory_create.
OpenFailsUnlinking(p) ==
    /\ at[p] \in {"fstat", "map_opened"}
    /\ Unname(call[p].body, {p}) /\ End(p)
    /\ UNCHANGED <<size, asked, handle, replaced>>

OpenFails(p) ==
    /\ at[p] \in {"fstat", "map_opened"}
    /\ Return(p)
    /\ UNCHANGED <<named, size, asked, handle, replaced>>

MapOpened(p) ==
    /\ at[p] = "map_opened"
    /\ Map(p)
    /\ UNCHANGED <<named, size, asked, replaced>>

(***************************************************************************)
(* Close, unlink, crash.                                                   *)
(***************************************************************************)
x_shared_memory_close(p) ==
    /\ at[p] = "rest" /\ handle[p] # NoHandle
    /\ handle' = [handle EXCEPT ![p] = NoHandle]
    /\ UNCHANGED <<named, size, asked, at, call, replaced, bereft>>

\* Variant: the object is emptied as well.
UnlinkEmptying(n) ==
    LET body == x_ipc_make_posix_name(n)
    IN  /\ Fits(n) /\ named[body] # None
        /\ Unname(body, {})
        /\ size' = [size EXCEPT ![named[body]] = 0]
        /\ UNCHANGED <<asked, at, call, handle, replaced>>

\* Any process may unlink, at any time.
x_shared_memory_unlink(n) ==
    LET body == x_ipc_make_posix_name(n)
    IN  /\ Fits(n) /\ named[body] # None
        /\ Unname(body, {})
        /\ UNCHANGED <<size, asked, at, call, handle, replaced>>

\* A process ends without a word; the kernel closes what it held, and the name
\* stays.
Crash(p) ==
    /\ Return(p)
    /\ handle' = [handle EXCEPT ![p] = NoHandle]
    /\ UNCHANGED <<named, size, asked, replaced>>

Init ==
    /\ named = [b \in Bodies |-> None]
    /\ size = [o \in Objects |-> 0] /\ asked = [o \in Objects |-> 0]
    /\ at = [p \in Procs |-> "rest"]
    /\ call = [p \in Procs |-> NoCall]
    /\ handle = [p \in Procs |-> NoHandle]
    /\ replaced = {} /\ bereft = {}

ProcessStep(p) ==
    \/ \E n \in Names, s \in Sizes : x_shared_memory_create(p, n, s)
    \/ \E n \in Names : x_shared_memory_open(p, n)
    \/ Truncate(p) \/ MapCreated(p) \/ CreateFails(p)
    \/ Stat(p) \/ MapOpened(p) \/ OpenFails(p)
    \/ x_shared_memory_close(p)

Next == \/ \E p \in Procs : ProcessStep(p) \/ Crash(p)
        \/ \E n \in Names : x_shared_memory_unlink(n)

Spec == Init /\ [][Next]_vars

(***************************************************************************)
(* Properties.                                                             *)
(***************************************************************************)
\* "Regions that are already mapped continue to be accessible until closed"
\* (ipc.h): a process can reach every byte of the region it has mapped, whoever
\* unlinks, opens, closes or crashes.  Only a create that finds the region in
\* use, and empties it with O_TRUNC, takes pages away.
MappingsAccessible ==
    \A p \in Procs : handle[p].object \notin replaced \cup {None} =>
        handle[p].size <= size[handle[p].object]

\* x_shared_memory_open never returns part of a region: whoever opens a region
\* while it is being created gets an error or all of it, also after a crash
\* has left the name of an unfinished region behind.
OpensWholeRegion ==
    \A p \in Procs : handle[p].object \notin replaced \cup {None} =>
        handle[p].size > 0 /\ handle[p].size = asked[handle[p].object]

\* A name goes only by an explicit unlink or by the error path of a create of that
\* very name: never by a failed open, and not because a process that had the region
\* open has crashed; and it is never given to another object before it has gone.
\* The failing create holds the object that loses its name, unless the name had
\* gone before, while it was creating, and somebody has made it anew.
NameKept ==
    [][\A b \in Bodies :
          named[b] # None /\ named'[b] # named[b] =>
              /\ named'[b] = None
              /\ \/ \E n \in Names : n.body = b /\ x_shared_memory_unlink(n)
                 \/ \E p \in Creating(b) :
                        at'[p] = "rest" /\ (call[p].fd = named[b] \/ p \in bereft)]_vars

==============================================================================
