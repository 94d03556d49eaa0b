------------------------------ MODULE Semaphore ------------------------------
(***************************************************************************)
(* The counting semaphore of src/src/x_thread.c: an unsigned count guarded *)
(* by a mutex, and a condition variable on which waiters sleep.            *)
(*                                                                         *)
(* The pthread mutex and condition variable are external.  A mutex has at  *)
(* most one owner and no order among those who want it.  Waiting on the    *)
(* condition releases the mutex and falls asleep in one step; a sleeper    *)
(* wakes when signalled, or for no reason, and takes the mutex again       *)
(* before it goes on.  A signal wakes one sleeper, if there is one.        *)
(***************************************************************************)
EXTENDS Naturals, FiniteSets

CONSTANTS
    Threads,
    InitialCount,   \* argument of x_semaphore_create
    UINT_MAX,       \* greatest count
    MaxCalls,       \* bound on the calls each thread makes
    Faults,         \* calls on the condition that may fail: "wait", "signal"
    NoThread        \* the mutex is free

ASSUME SemaphoreAssumption ==
    /\ IsFiniteSet(Threads)
    /\ UINT_MAX \in Nat \ {0}
    /\ InitialCount \in 0 .. UINT_MAX
    /\ MaxCalls \in Nat
    /\ Faults \subseteq {"wait", "signal"}
    /\ NoThread \notin Threads

VARIABLES
    count,   \* semaphore->count
    mutex,   \* owner of semaphore->mutex
    pc,      \* where each thread is
    left,    \* calls each thread may still make
    alive,   \* the semaphore has not been destroyed
    signalFailed  \* history: a pthread_cond_signal has failed

vars == <<count, mutex, pc, left, alive, signalFailed>>

Goto(t, label) == pc' = [pc EXCEPT ![t] = label]

\* Inside x_semaphore_wait, before it has got a permit.
Waiting == {"wait_lock", "waiting", "asleep", "woken"}

\* Inside either function, between locking and unlocking the mutex.
Holding == {"waiting", "took", "failed", "posting", "full", "signal", "gave"}

(***************************************************************************)
(* x_semaphore_wait                                                        *)
(***************************************************************************)
CallWait(t) ==
    /\ alive /\ left[t] > 0 /\ pc[t] = "ready"
    /\ left' = [left EXCEPT ![t] = @ - 1]
    /\ Goto(t, "wait_lock")
    /\ UNCHANGED <<count, mutex, alive, signalFailed>>

\* pthread_mutex_lock, at the start of both functions and on leaving the
\* condition
Lock(t) ==
    /\ mutex = NoThread
    /\ mutex' = t
    /\ \/ pc[t] \in {"wait_lock", "woken"} /\ Goto(t, "waiting")
       \/ pc[t] = "post_lock" /\ Goto(t, "posting")
    /\ UNCHANGED <<count, left, alive, signalFailed>>

\* while (count == 0): pthread_cond_wait
Sleep(t) ==
    /\ pc[t] = "waiting" /\ count = 0
    /\ mutex' = NoThread
    /\ Goto(t, "asleep")
    /\ UNCHANGED <<count, left, alive, signalFailed>>

\* pthread_cond_wait fails: the mutex is released and the error returned.
SleepFails(t) ==
    /\ "wait" \in Faults
    /\ pc[t] = "waiting" /\ count = 0
    /\ Goto(t, "failed")
    /\ UNCHANGED <<count, mutex, left, alive, signalFailed>>

SpuriousWakeup(t) ==
    /\ pc[t] = "asleep"
    /\ Goto(t, "woken")
    /\ UNCHANGED <<count, mutex, left, alive, signalFailed>>

\* Variant: the count is tested once, not after each wakeup.
TakeUntested(t) ==
    /\ pc[t] = "waiting"
    /\ count' = count - 1
    /\ Goto(t, "took")
    /\ UNCHANGED <<mutex, left, alive, signalFailed>>

Take(t) ==
    /\ pc[t] = "waiting" /\ count > 0
    /\ count' = count - 1
    /\ Goto(t, "took")
    /\ UNCHANGED <<mutex, left, alive, signalFailed>>

(***************************************************************************)
(* x_semaphore_post                                                        *)
(***************************************************************************)
CallPost(t) ==
    /\ alive /\ left[t] > 0 /\ pc[t] = "ready"
    /\ left' = [left EXCEPT ![t] = @ - 1]
    /\ Goto(t, "post_lock")
    /\ UNCHANGED <<count, mutex, alive, signalFailed>>

Overflow(t) ==
    /\ pc[t] = "posting" /\ count = UINT_MAX
    /\ Goto(t, "full")
    /\ UNCHANGED <<count, mutex, left, alive, signalFailed>>

\* Variant: the mutex is released before the signal.
IncrementAndUnlock(t) ==
    /\ pc[t] = "posting" /\ count # UINT_MAX
    /\ count' = count + 1
    /\ mutex' = NoThread
    /\ Goto(t, "signal")
    /\ UNCHANGED <<left, alive, signalFailed>>

Increment(t) ==
    /\ pc[t] = "posting" /\ count # UINT_MAX
    /\ count' = count + 1
    /\ Goto(t, "signal")
    /\ UNCHANGED <<mutex, left, alive, signalFailed>>

Asleep == {s \in Threads : pc[s] = "asleep"}

\* Variant: a signal only when the count leaves 0.
SignalFromZero(t) ==
    /\ pc[t] = "signal"
    /\ \/ \E s \in Asleep : count = 1 /\ pc' = [pc EXCEPT ![t] = "gave", ![s] = "woken"]
       \/ (Asleep = {} \/ count > 1) /\ Goto(t, "gave")
    /\ UNCHANGED <<count, mutex, left, alive, signalFailed>>

\* pthread_cond_signal; a failure is returned, but the permit has been added.
Signal(t) ==
    /\ pc[t] = "signal"
    /\ \/ /\ \/ \E s \in Asleep : pc' = [pc EXCEPT ![t] = "gave", ![s] = "woken"]
             \/ Asleep = {} /\ Goto(t, "gave")
          /\ UNCHANGED signalFailed
       \/ "signal" \in Faults /\ Goto(t, "gave") /\ signalFailed' = TRUE
    /\ UNCHANGED <<count, mutex, left, alive>>

\* pthread_mutex_unlock, before every return
Unlock(t) ==
    /\ pc[t] \in {"took", "failed", "full", "gave"}
    /\ mutex' = NoThread
    /\ Goto(t, "ready")
    /\ UNCHANGED <<count, left, alive, signalFailed>>

\* A client may destroy the semaphore when no call is to come, every wait has
\* returned, and the waits have taken every permit posted.  Whether the posts
\* themselves have returned the client cannot know.
x_semaphore_destroy ==
    /\ alive
    /\ count = 0
    /\ \A t \in Threads : left[t] = 0 /\ pc[t] \in {"ready", "full", "signal", "gave"}
    /\ alive' = FALSE
    /\ UNCHANGED <<count, mutex, pc, left, signalFailed>>

\* Every call has returned.
Done == /\ \A t \in Threads : left[t] = 0 /\ pc[t] = "ready"
        /\ UNCHANGED vars

Init ==
    /\ count = InitialCount
    /\ mutex = NoThread
    /\ pc = [t \in Threads |-> "ready"]
    /\ left = [t \in Threads |-> MaxCalls]
    /\ alive = TRUE
    /\ signalFailed = FALSE

\* The steps of a thread inside a call.
Step(t) == \/ Lock(t) \/ Sleep(t) \/ SleepFails(t) \/ Take(t)
           \/ Overflow(t) \/ Increment(t) \/ Signal(t) \/ Unlock(t)

Next ==
    \/ \E t \in Threads : Step(t) \/ CallWait(t) \/ CallPost(t) \/ SpuriousWakeup(t)
    \/ x_semaphore_destroy
    \/ Done

Spec == Init /\ [][Next]_vars

\* A thread inside a call that can go on does so.  The number of calls is
\* finite, so this needs no fairness of the mutex.
FairSpec == Spec /\ \A t \in Threads : WF_vars(Step(t))

(***************************************************************************)
(* Properties                                                              *)
(***************************************************************************)

\* Every variable keeps its type; the count is an unsigned int.
TypeOK ==
    /\ count \in 0 .. UINT_MAX
    /\ mutex \in Threads \cup {NoThread}
    /\ pc \in [Threads -> Waiting \cup Holding \cup {"ready", "post_lock"}]
    /\ left \in [Threads -> 0 .. MaxCalls]
    /\ alive \in BOOLEAN /\ signalFailed \in BOOLEAN

\* The threads that will take a permit or wake a sleeper.
Awake == {t \in Threads : pc[t] \in {"woken", "waiting", "signal"}}

\* x_semaphore_post signals one sleeper per permit and x_semaphore_wait tests
\* the count again before each sleep: while some waiter sleeps, there is for
\* every permit a waiter that is awake, or a post about to wake one.  A
\* newcomer may take the permit a sleeper was woken for, and no wakeup is lost
\* unless pthread_cond_signal itself fails.
NoLostWakeup ==
    Asleep # {} /\ ~signalFailed => count <= Cardinality(Awake)

\* The thread that takes the last permit may destroy the semaphore at once:
\* x_semaphore_post signals before it unlocks, so no thread is still inside a
\* call, on memory that has been freed.
NoUseAfterDestroy == ~alive => \A t \in Threads : pc[t] = "ready"

\* The call an abstract semaphore sees.
Call(t) ==
    IF pc[t] = "ready" THEN "none"
    ELSE IF pc[t] \in Waiting THEN "waiting"
    ELSE IF pc[t] \in {"post_lock", "posting"} THEN "posting"
    ELSE IF pc[t] \in {"signal", "gave"} THEN "gave"
    ELSE IF pc[t] = "full" THEN "refused"
    ELSE pc[t]

Abstract == INSTANCE CountingSemaphore
                WITH permits <- count, call <- [t \in Threads |-> Call(t)]

\* Through every interleaving, spurious wakeup and failed sleep, the mutex, the
\* count and the condition together are a counting semaphore: each wait that
\* returns 0 took exactly one permit, each post that returns added exactly one
\* or was refused at UINT_MAX.
ImplementsCountingSemaphore == Abstract!Spec

\* A permit does not lie about while somebody waits: either the permits are
\* used up or nobody is left waiting, unless pthread_cond_signal has failed.
NoStrandedWaiter ==
    (count > 0 /\ \E t \in Threads : pc[t] \in Waiting)
        ~> \/ count = 0 \/ \A t \in Threads : pc[t] \notin Waiting
           \/ signalFailed

==============================================================================
