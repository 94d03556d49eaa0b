------------------------------- MODULE IpcName -------------------------------
(* What shared memory and semaphores of src/src/x_ipc.c have in common. *)
EXTENDS Integers

CONSTANTS
    Names,          \* names clients use
    NAME_BUFFER,    \* length of the arrays posix_name (256)
    Procs,          \* processes
    Sizes,          \* sizes that creators of shared memory ask for
    MaxObjects,     \* bound on the regions that exist at one time
    Initial,        \* initial counts that creators of semaphores ask for
    SEM_VALUE_MAX,  \* greatest count
    MaxSemaphores   \* bound on the semaphores that exist at one time

ASSUME IpcAssumption ==
    /\ Names \subseteq [slash : BOOLEAN, body : STRING, length : Nat]
    /\ Sizes \subseteq Nat \ {0}
    /\ {NAME_BUFFER, MaxObjects, SEM_VALUE_MAX, MaxSemaphores} \subseteq Nat
    /\ Initial \subseteq 0 .. SEM_VALUE_MAX

Bodies == {n.body : n \in Names}
None == 0

\* x_ipc_make_posix_name puts a slash in front unless there is one, so that
\* two names may stand for one object; the result and its 0 must fit.
Fits(n) == n.length + (IF n.slash THEN 1 ELSE 2) <= NAME_BUFFER
x_ipc_make_posix_name(n) == n.body

==============================================================================
