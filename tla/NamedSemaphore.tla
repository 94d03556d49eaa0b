---------------------------- MODULE NamedSemaphore ----------------------------
(***************************************************************************)
(* The named semaphores of src/src/x_ipc.c on a POSIX system: processes    *)
(* create, open, wait on, post, close and unlink semaphores by name, and   *)
(* crash.  sem_open, sem_wait and sem_post are the kernel's, one step each. *)
(***************************************************************************)
EXTENDS IpcName

VARIABLES
    named,    \* the semaphore each name refers to
    value,    \* count of each semaphore
    handle,   \* the semaphore each process has open
    at,       \* where each process is
    balance   \* history: initial count, plus posts, minus waits

vars == <<named, value, handle, at, balance>>

Objects == 1 .. MaxSemaphores
Unused == {o \in Objects : /\ \A b \in Bodies : named[b] # o
                           /\ \A p \in Procs : handle[p] # o}

Hold(p, o) == handle' = [handle EXCEPT ![p] = o]

\* sem_open with O_CREAT | O_EXCL: a name that exists is refused.
x_named_semaphore_create(p, n, c) ==
    LET body == x_ipc_make_posix_name(n)
    IN  /\ at[p] = "rest" /\ handle[p] = None
        /\ Fits(n) /\ named[body] = None
        /\ \E o \in Unused :
              /\ named' = [named EXCEPT ![body] = o]
              /\ value' = [value EXCEPT ![o] = c]
              /\ balance' = [balance EXCEPT ![o] = c]
              /\ Hold(p, o)
        /\ UNCHANGED at

x_named_semaphore_open(p, n) ==
    LET body == x_ipc_make_posix_name(n)
    IN  /\ at[p] = "rest" /\ handle[p] = None
        /\ Fits(n) /\ named[body] # None
        /\ Hold(p, named[body])
        /\ UNCHANGED <<named, value, at, balance>>

\* x_named_semaphore_wait: sem_wait, again after each EINTR
x_named_semaphore_wait(p) ==
    /\ at[p] = "rest" /\ handle[p] # None
    /\ at' = [at EXCEPT ![p] = "wait"]
    /\ UNCHANGED <<named, value, handle, balance>>

\* Variant: EINTR is taken for success.
TakeInterrupted(p) ==
    /\ at[p] = "wait"
    /\ at' = [at EXCEPT ![p] = "rest"]
    /\ balance' = [balance EXCEPT ![handle[p]] = @ - 1]
    /\ value' = [value EXCEPT ![handle[p]] = IF @ > 0 THEN @ - 1 ELSE @]
    /\ UNCHANGED <<named, handle>>

Take(p) ==
    /\ at[p] = "wait" /\ value[handle[p]] > 0
    /\ at' = [at EXCEPT ![p] = "rest"]
    /\ value' = [value EXCEPT ![handle[p]] = @ - 1]
    /\ balance' = [balance EXCEPT ![handle[p]] = @ - 1]
    /\ UNCHANGED <<named, handle>>

\* EOVERFLOW is returned when the count is at its limit.
x_named_semaphore_post(p) ==
    /\ at[p] = "rest" /\ handle[p] # None
    /\ value[handle[p]] < SEM_VALUE_MAX
    /\ value' = [value EXCEPT ![handle[p]] = @ + 1]
    /\ balance' = [balance EXCEPT ![handle[p]] = @ + 1]
    /\ UNCHANGED <<named, handle, at>>

x_named_semaphore_close(p) ==
    /\ at[p] = "rest" /\ handle[p] # None
    /\ Hold(p, None)
    /\ UNCHANGED <<named, value, at, balance>>

x_named_semaphore_unlink(n) ==
    LET body == x_ipc_make_posix_name(n)
    IN  /\ Fits(n) /\ named[body] # None
        /\ named' = [named EXCEPT ![body] = None]
        /\ UNCHANGED <<value, handle, at, balance>>

\* A process ends, perhaps inside sem_wait; its permits are not given back.
Crash(p) ==
    /\ Hold(p, None)
    /\ at' = [at EXCEPT ![p] = "rest"]
    /\ UNCHANGED <<named, value, balance>>

Init ==
    /\ named = [b \in Bodies |-> None]
    /\ value = [o \in Objects |-> 0] /\ balance = [o \in Objects |-> 0]
    /\ handle = [p \in Procs |-> None]
    /\ at = [p \in Procs |-> "rest"]

ProcessStep(p) ==
    \/ \E n \in Names, c \in Initial : x_named_semaphore_create(p, n, c)
    \/ \E n \in Names : x_named_semaphore_open(p, n)
    \/ x_named_semaphore_wait(p) \/ Take(p) \/ x_named_semaphore_post(p)
    \/ x_named_semaphore_close(p)

Next == \/ \E p \in Procs : ProcessStep(p) \/ Crash(p)
        \/ \E n \in Names : x_named_semaphore_unlink(n)

Spec == Init /\ [][Next]_vars

(***************************************************************************)
(* Properties.                                                             *)
(***************************************************************************)
\* No permit is made or lost, whichever processes create, open, unlink and
\* create again: each semaphore holds what it was first given, plus one for
\* each post, minus one for each wait that returned.
PermitsConserved ==
    \A o \in Objects \ Unused : value[o] = balance[o]

==============================================================================
