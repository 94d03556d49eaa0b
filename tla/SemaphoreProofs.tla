--------------------------- MODULE SemaphoreProofs ---------------------------
(***************************************************************************)
(* Proofs about Semaphore, for any set of threads, any limit and any       *)
(* number of calls.                                                        *)
(***************************************************************************)
EXTENDS Semaphore, FiniteSetTheorems, TLAPS

\* Each step of a call keeps the types.
LEMMA TypeStep == TypeOK /\ [Next]_vars => TypeOK'
<1> USE SemaphoreAssumption
<1> SUFFICES ASSUME TypeOK, [Next]_vars
             PROVE  TypeOK'
  OBVIOUS
<1> USE DEF TypeOK, Waiting, Holding, Goto
<1>1. ASSUME NEW t \in Threads, CallWait(t) \/ CallPost(t)
      PROVE  TypeOK'
  BY SMTT(60), SMTT(90), <1>1 DEF CallWait, CallPost
<1>2. ASSUME NEW t \in Threads, Lock(t) \/ Sleep(t) \/ SleepFails(t) \/ SpuriousWakeup(t)
      PROVE  TypeOK'
  BY Zenon, <1>2 DEF Lock, Sleep, SleepFails, SpuriousWakeup
<1>3. ASSUME NEW t \in Threads, Take(t)
      PROVE  TypeOK'
  BY SMTT(60), SMTT(90), <1>3 DEF Take
<1>4. ASSUME NEW t \in Threads, Overflow(t) \/ Increment(t)
      PROVE  TypeOK'
  BY <1>4 DEF Overflow, Increment
<1>5. ASSUME NEW t \in Threads, Signal(t)
      PROVE  TypeOK'
  BY <1>5 DEF Signal, Asleep
<1>6. ASSUME NEW t \in Threads, Unlock(t)
      PROVE  TypeOK'
  BY Zenon, <1>6 DEF Unlock
<1>7. CASE x_semaphore_destroy
  BY <1>7 DEF x_semaphore_destroy
<1>8. CASE UNCHANGED vars
  BY Zenon, <1>8 DEF vars
<1>9. QED
  BY Zenon, <1>1, <1>2, <1>3, <1>4, <1>5, <1>6, <1>7, <1>8 DEF Next, Step, Done

\* A semaphore as x_semaphore_create leaves it has the right types.
LEMMA InitTypes == Init => TypeOK
<1> SUFFICES ASSUME Init
             PROVE  TypeOK
  OBVIOUS
<1>1. alive \in BOOLEAN /\ signalFailed \in BOOLEAN
  BY Zenon DEF Init
<1>2. /\ count \in 0 .. UINT_MAX /\ mutex \in Threads \cup {NoThread}
      /\ pc \in [Threads -> Waiting \cup Holding \cup {"ready", "post_lock"}]
      /\ left \in [Threads -> 0 .. MaxCalls]
  BY SemaphoreAssumption DEF Init
<1>3. QED
  BY Zenon, <1>1, <1>2 DEF TypeOK

\* Type correctness: in particular the count stays between 0 and UINT_MAX,
\* because x_semaphore_wait tests it before it decrements and
\* x_semaphore_post before it increments.
THEOREM TypeCorrect == Spec => []TypeOK
<1>1. Init => TypeOK
  BY Zenon, InitTypes
<1>2. QED
  BY <1>1, TypeStep, PTL DEF Spec

(***************************************************************************)
(* No wakeup is lost.  The invariant is inductive as it stands.            *)
(***************************************************************************)
\* Every set of threads is finite.
LEMMA FiniteThreads ==
    ASSUME NEW S \in SUBSET Threads
    PROVE  IsFiniteSet(S) /\ Cardinality(S) \in Nat
BY Zenon, SemaphoreAssumption, FS_Subset, FS_CardinalityType

\* The threads that are awake, before and after a step.
LEMMA AwakeTypes == Awake \in SUBSET Threads /\ Awake' \in SUBSET Threads
BY Zenon DEF Awake

\* No lost wakeup, provided that pthread_cond_signal itself does not fail: as
\* long as a waiter of x_semaphore_wait sleeps, there are as many threads awake
\* to take permits, or about to wake another, as there are permits.
THEOREM NoWakeupIsLost == Spec => []NoLostWakeup
<1> USE SemaphoreAssumption
<1>1. Init => NoLostWakeup
  BY Zenon DEF Init, NoLostWakeup, Asleep
<1>2. TypeOK /\ NoLostWakeup /\ [Next]_vars => NoLostWakeup'
  <2> SUFFICES ASSUME TypeOK, NoLostWakeup, [Next]_vars
               PROVE  NoLostWakeup'
    OBVIOUS
  <2> /\ IsFiniteSet(Awake) /\ Cardinality(Awake) \in Nat
      /\ IsFiniteSet(Awake') /\ Cardinality(Awake') \in Nat
    BY Zenon, AwakeTypes, FiniteThreads
  <2> count \in Nat /\ count' \in Nat
    <3>1. TypeOK'
      BY Zenon, TypeStep
    <3>2. QED
      BY <3>1 DEF TypeOK
  \* Steps that move no thread to sleep, add no permit and keep all awake.
  <2>1. ASSUME count' = count, Asleep' \subseteq Asleep, Awake \subseteq Awake',
               signalFailed' = signalFailed
        PROVE  NoLostWakeup'
    <3>1. Cardinality(Awake) <= Cardinality(Awake')
      BY Zenon, <2>1, FS_Subset
    <3>2. QED
      BY <2>1, <3>1 DEF NoLostWakeup
  <2>2. ASSUME NEW t \in Threads,
               CallWait(t) \/ CallPost(t) \/ Lock(t) \/ SleepFails(t)
                   \/ SpuriousWakeup(t) \/ Overflow(t) \/ Unlock(t)
        PROVE  NoLostWakeup'
    <3>1. CASE SleepFails(t)
      BY <3>1 DEF SleepFails, NoLostWakeup
    <3>2. CASE CallWait(t) \/ CallPost(t) \/ Lock(t)
                   \/ SpuriousWakeup(t) \/ Overflow(t) \/ Unlock(t)
      <4>1. /\ count' = count /\ signalFailed' = signalFailed
            /\ Asleep' \subseteq Asleep /\ Awake \subseteq Awake'
        BY Zenon, <3>2 DEF TypeOK, CallWait, CallPost, Lock, SpuriousWakeup, Overflow,
                    Unlock, Goto, Asleep, Awake
      <4>2. QED
        BY Zenon, <4>1, <2>1
    <3>3. QED
      BY Zenon, <2>2, <3>1, <3>2
  \* The only way to fall asleep: the count is 0.
  <2>3. ASSUME NEW t \in Threads, Sleep(t)
        PROVE  NoLostWakeup'
    BY <2>3 DEF Sleep, NoLostWakeup
  \* A permit goes, and with it the thread that took it.
  <2>4. ASSUME NEW t \in Threads, Take(t)
        PROVE  NoLostWakeup'
    <3>1. t \in Awake /\ Awake' = Awake \ {t} /\ Asleep' = Asleep
      BY Zenon, <2>4 DEF Take, Goto, TypeOK, Awake, Asleep
    <3>2. Cardinality(Awake') = Cardinality(Awake) - 1
      BY Zenon, <3>1, FS_RemoveElement
    <3>3. QED
      BY SMTT(60), SMTT(90), <2>4, <3>1, <3>2 DEF NoLostWakeup, Take
  \* A permit comes, and with it a post that will wake a sleeper.
  <2>5. ASSUME NEW t \in Threads, Increment(t)
        PROVE  NoLostWakeup'
    <3>1. t \notin Awake /\ Awake' = Awake \cup {t} /\ Asleep' = Asleep
      BY Zenon, <2>5 DEF Increment, Goto, TypeOK, Awake, Asleep
    <3>2. Cardinality(Awake') = Cardinality(Awake) + 1
      BY Zenon, <3>1, FS_AddElement
    <3>3. QED
      BY SMTT(60), SMTT(90), <2>5, <3>1, <3>2 DEF NoLostWakeup, Increment
  \* The post wakes it: the sleeper takes its place.
  <2>6. ASSUME NEW t \in Threads, Signal(t)
        PROVE  NoLostWakeup'
    <3>1. CASE Asleep = {}
      <4>1. Asleep' = {}
        BY Zenon, <2>6, <3>1 DEF Signal, Goto, TypeOK, Asleep
      <4>2. QED
        BY Zenon, <4>1 DEF NoLostWakeup
    <3>2. CASE Asleep # {} /\ ~signalFailed'
      <4>1. PICK s \in Asleep : pc' = [pc EXCEPT ![t] = "gave", ![s] = "woken"]
        BY Zenon, <2>6, <3>2 DEF Signal
      <4>2. /\ t \in Awake /\ s \notin Awake \ {t}
            /\ Awake' = (Awake \ {t}) \cup {s}
            /\ signalFailed' = signalFailed
        BY SMTT(60), SMTT(90), <2>6, <3>2, <4>1 DEF Signal, TypeOK, Awake, Asleep
      <4>3. /\ IsFiniteSet(Awake \ {t})
            /\ Cardinality(Awake \ {t}) = Cardinality(Awake) - 1
        BY Zenon, <4>2, FS_RemoveElement
      <4>4. Cardinality((Awake \ {t}) \cup {s}) = Cardinality(Awake \ {t}) + 1
        BY <4>2, <4>3, FS_AddElement
      <4>5. Cardinality(Awake') = Cardinality(Awake)
        BY <4>2, <4>3, <4>4
      <4>6. QED
        BY Zenon, <2>6, <3>2, <4>2, <4>5 DEF NoLostWakeup, Signal
    <3>3. CASE signalFailed'
      BY Zenon, <3>3 DEF NoLostWakeup
    <3>4. QED
      BY Zenon, <3>1, <3>2, <3>3
  <2>7. CASE x_semaphore_destroy \/ UNCHANGED vars
    BY Zenon, <2>1, <2>7 DEF x_semaphore_destroy, vars, Asleep, Awake
  <2>8. QED
    BY Zenon, <2>2, <2>3, <2>4, <2>5, <2>6, <2>7 DEF Next, Step, Done
<1>3. QED
  BY <1>1, <1>2, TypeCorrect, PTL DEF Spec

(***************************************************************************)
(* Destruction.  The mutex has one owner; a post that has added its permit *)
(* holds the mutex until it is done with the semaphore, so the permit is   *)
(* still there; hence no permits and no waits means no posts either.       *)
(***************************************************************************)
MutexHasOneOwner == \A t \in Threads : pc[t] \in Holding <=> mutex = t

PermitOutlivesPost ==
    \A t \in Threads : pc[t] \in {"full", "signal", "gave"} => count > 0

AtRestOnceDestroyed ==
    ~alive => \A t \in Threads : pc[t] = "ready" /\ left[t] = 0

DestroyInv ==
    TypeOK /\ MutexHasOneOwner /\ PermitOutlivesPost /\ AtRestOnceDestroyed

\* Each step keeps the invariant of this section.
LEMMA DestroyStep == DestroyInv /\ [Next]_vars => DestroyInv'
<1> USE SemaphoreAssumption
<1> SUFFICES ASSUME DestroyInv, [Next]_vars
             PROVE  DestroyInv'
  OBVIOUS
<1> TypeOK'
  BY Zenon, TypeStep DEF DestroyInv
<1> USE DEF DestroyInv, MutexHasOneOwner, PermitOutlivesPost, AtRestOnceDestroyed,
            TypeOK, Waiting, Holding, Goto
<1>1. ASSUME NEW t \in Threads, CallWait(t) \/ CallPost(t)
      PROVE  DestroyInv'
  BY ZenonT(60), <1>1 DEF CallWait, CallPost
<1>2. ASSUME NEW t \in Threads, Lock(t)
      PROVE  DestroyInv'
  BY ZenonT(60), <1>2 DEF Lock
<1>3. ASSUME NEW t \in Threads, Sleep(t) \/ SleepFails(t) \/ SpuriousWakeup(t)
      PROVE  DestroyInv'
  BY ZenonT(60), <1>3 DEF Sleep, SleepFails, SpuriousWakeup
<1>4. ASSUME NEW t \in Threads, Take(t)
      PROVE  DestroyInv'
  BY Zenon, <1>4 DEF Take
<1>5. ASSUME NEW t \in Threads, Overflow(t) \/ Increment(t)
      PROVE  DestroyInv'
  BY SMTT(60), SMTT(90), <1>5 DEF Overflow, Increment
<1>6. ASSUME NEW t \in Threads, Signal(t)
      PROVE  DestroyInv'
  BY ZenonT(60), <1>6 DEF Signal, Asleep
<1>7. ASSUME NEW t \in Threads, Unlock(t)
      PROVE  DestroyInv'
  BY Zenon, <1>7 DEF Unlock
<1>8. CASE x_semaphore_destroy
  BY SMTT(60), SMTT(90), <1>8 DEF x_semaphore_destroy
<1>9. CASE UNCHANGED vars
  BY Zenon, <1>9 DEF vars
<1>10. QED
  BY Zenon, <1>1, <1>2, <1>3, <1>4, <1>5, <1>6, <1>7, <1>8, <1>9 DEF Next, Step, Done

\* Whoever takes the last permit may call x_semaphore_destroy at once: no thread
\* is still inside x_semaphore_post, which signals before it unlocks.
THEOREM DestroyIsSafe == Spec => []NoUseAfterDestroy
<1>1. Init => DestroyInv
  BY Zenon, SemaphoreAssumption, InitTypes
     DEF Init, DestroyInv, MutexHasOneOwner, PermitOutlivesPost,
         AtRestOnceDestroyed, Holding
<1>2. DestroyInv => NoUseAfterDestroy
  BY Zenon DEF DestroyInv, AtRestOnceDestroyed, NoUseAfterDestroy
<1>3. QED
  BY <1>1, <1>2, DestroyStep, PTL DEF Spec

(***************************************************************************)
(* Refinement.                                                             *)
(***************************************************************************)
\* Initial states are initial states of the counting semaphore.
LEMMA AbstractInit == Init => Abstract!Init
BY Zenon DEF Init, Abstract!Init, Call

\* Moving one thread, seen from the counting semaphore.
LEMMA OneCallMoves ==
    ASSUME NEW t \in Threads, NEW label,
           pc \in [Threads -> Waiting \cup Holding \cup {"ready", "post_lock"}],
           pc' = [pc EXCEPT ![t] = label]
    PROVE  [s \in Threads |-> Call(s)]' =
               [[s \in Threads |-> Call(s)] EXCEPT ![t] = Call(t)']
BY DEF Call, Waiting

\* Each step of the code is a step of the counting semaphore or leaves it alone.
LEMMA AbstractStep == TypeOK /\ [Next]_vars => [Abstract!Next]_Abstract!vars
<1> USE SemaphoreAssumption
<1> SUFFICES ASSUME TypeOK, [Next]_vars
             PROVE  [Abstract!Next]_Abstract!vars
  OBVIOUS
<1> DEFINE call == [s \in Threads |-> Call(s)]
<1> USE DEF Goto, Abstract!Becomes
<1>1. ASSUME NEW t \in Threads, CallWait(t) \/ CallPost(t)
      PROVE  Abstract!Begin(t)
  <2>1. call' = [call EXCEPT ![t] = Call(t)']
    BY Zenon, <1>1, OneCallMoves DEF TypeOK, CallWait, CallPost
  <2>2. QED
    BY <1>1, <2>1 DEF TypeOK, CallWait, CallPost, Call, Waiting, Abstract!Begin
<1>2. ASSUME NEW t \in Threads, Lock(t) \/ Sleep(t) \/ SpuriousWakeup(t)
      PROVE  UNCHANGED Abstract!vars
  <2>1. call' = [call EXCEPT ![t] = Call(t)']
    BY Zenon, <1>2, OneCallMoves DEF TypeOK, Lock, Sleep, SpuriousWakeup
  <2>2. Call(t)' = Call(t) /\ count' = count
    BY Zenon, <1>2 DEF TypeOK, Lock, Sleep, SpuriousWakeup, Call, Waiting
  <2>3. QED
    BY <2>1, <2>2 DEF Abstract!vars
<1>3. ASSUME NEW t \in Threads, SleepFails(t)
      PROVE  Abstract!Fail(t)
  <2>1. call' = [call EXCEPT ![t] = Call(t)']
    BY <1>3, OneCallMoves DEF TypeOK, SleepFails
  <2>2. QED
    BY ZenonT(60), <1>3, <2>1 DEF TypeOK, SleepFails, Call, Waiting, Abstract!Fail
<1>4. ASSUME NEW t \in Threads, Take(t)
      PROVE  Abstract!TakePermit(t)
  <2>1. call' = [call EXCEPT ![t] = Call(t)']
    BY <1>4, OneCallMoves DEF TypeOK, Take
  <2>2. QED
    BY ZenonT(60), <1>4, <2>1 DEF TypeOK, Take, Call, Waiting, Abstract!TakePermit
<1>5. ASSUME NEW t \in Threads, Overflow(t)
      PROVE  Abstract!Refuse(t)
  <2>1. call' = [call EXCEPT ![t] = Call(t)']
    BY <1>5, OneCallMoves DEF TypeOK, Overflow
  <2>2. QED
    BY ZenonT(60), <1>5, <2>1 DEF TypeOK, Overflow, Call, Waiting, Abstract!Refuse
<1>6. ASSUME NEW t \in Threads, Increment(t)
      PROVE  Abstract!AddPermit(t)
  <2>1. call' = [call EXCEPT ![t] = Call(t)']
    BY <1>6, OneCallMoves DEF TypeOK, Increment
  <2>2. QED
    BY <1>6, <2>1 DEF TypeOK, Increment, Call, Waiting, Abstract!AddPermit
\* A signal moves the post and perhaps a sleeper; neither changes its call.
<1>7. ASSUME NEW t \in Threads, Signal(t)
      PROVE  UNCHANGED Abstract!vars
  <2>1. \A s \in Threads : Call(s)' = Call(s)
    BY ZenonT(60), <1>7 DEF TypeOK, Signal, Asleep, Call, Waiting
  <2>2. QED
    BY Zenon, <1>7, <2>1 DEF Signal, Abstract!vars
<1>8. ASSUME NEW t \in Threads, Unlock(t)
      PROVE  Abstract!Return(t)
  <2>1. call' = [call EXCEPT ![t] = Call(t)']
    BY <1>8, OneCallMoves DEF TypeOK, Unlock
  <2>2. QED
    BY ZenonT(60), <1>8, <2>1 DEF TypeOK, Unlock, Call, Waiting, Abstract!Return
<1>9. CASE x_semaphore_destroy \/ UNCHANGED vars
  BY Zenon, <1>9 DEF x_semaphore_destroy, vars, Abstract!vars, Call
<1>10. QED
  BY Zenon, <1>1, <1>2, <1>3, <1>4, <1>5, <1>6, <1>7, <1>8, <1>9
     DEF Next, Step, Done, Abstract!Next

\* x_semaphore_wait and x_semaphore_post behave as atomic operations on a
\* counter of permits, for any number of threads and whatever fails.
THEOREM SemaphoreRefines == Spec => ImplementsCountingSemaphore
BY AbstractInit, AbstractStep, TypeCorrect, PTL
   DEF Spec, ImplementsCountingSemaphore, Abstract!Spec

==============================================================================
