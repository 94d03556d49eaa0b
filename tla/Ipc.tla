--------------------------------- MODULE Ipc ---------------------------------
(***************************************************************************)
(* Processes that use shared memory and named semaphores together          *)
(* (src/src/x_ipc.c), as peers do who guard a region with a semaphore.  A  *)
(* process is one thread: it is inside at most one call, and one that      *)
(* sleeps in x_named_semaphore_wait does nothing else.  A crash takes all  *)
(* that a process holds of both.  The two kinds of names are separate.     *)
(***************************************************************************)
EXTENDS SharedMemory

VARIABLES sem_named, sem_value, sem_handle, sem_at, sem_balance

memory == vars
semaphores == <<sem_named, sem_value, sem_handle, sem_at, sem_balance>>

Sem == INSTANCE NamedSemaphore
           WITH named <- sem_named, value <- sem_value, handle <- sem_handle,
                at <- sem_at, balance <- sem_balance

\* A process that is not inside a call of the other kind.
MemoryStep ==
    /\ \E p \in Procs : sem_at[p] = "rest" /\ ProcessStep(p)
    /\ UNCHANGED semaphores

SemaphoreStep ==
    /\ \E p \in Procs : at[p] = "rest" /\ Sem!ProcessStep(p)
    /\ UNCHANGED memory

\* Anybody may unlink.
Unlink ==
    \E n \in Names : \/ x_shared_memory_unlink(n) /\ UNCHANGED semaphores
                     \/ Sem!x_named_semaphore_unlink(n) /\ UNCHANGED memory

ProcessCrashes(p) == Crash(p) /\ Sem!Crash(p)

IpcInit == Init /\ Sem!Init

IpcNext == \/ MemoryStep \/ SemaphoreStep \/ Unlink
           \/ \E p \in Procs : ProcessCrashes(p)

IpcSpec == IpcInit /\ [][IpcNext]_<<memory, semaphores>>

\* What a process has mapped is there to its end, and whoever opens a region while
\* others create, truncate and unlink it finds all of it or an error.
RegionsWhole == MappingsAccessible /\ OpensWholeRegion

\* No permit is made or lost, whichever processes create, open, unlink and
\* create again: each semaphore holds what it was first given, plus one for
\* each post, minus one for each x_named_semaphore_wait that returned.
PermitsConserved == Sem!PermitsConserved

==============================================================================
