-------------------------- MODULE CountingSemaphore --------------------------
(***************************************************************************)
(* What x_semaphore_wait and x_semaphore_post promise (include/xlib/       *)
(* thread.h: "a counting semaphore with initial_count available permits"): *)
(* a wait takes one permit, a post adds one, both at a single instant      *)
(* between call and return, and a post to a full semaphore is refused.     *)
(***************************************************************************)
EXTENDS Naturals

CONSTANTS Threads, InitialCount, UINT_MAX

VARIABLES
    permits,   \* available permits
    call       \* the call each thread is in, and what it will return

vars == <<permits, call>>

Init ==
    /\ permits = InitialCount
    /\ call = [t \in Threads |-> "none"]

Becomes(t, from, to) == call[t] = from /\ call' = [call EXCEPT ![t] = to]

Begin(t) ==
    /\ \/ Becomes(t, "none", "waiting")
       \/ Becomes(t, "none", "posting")
    /\ UNCHANGED permits

TakePermit(t) ==
    /\ permits > 0
    /\ Becomes(t, "waiting", "took")
    /\ permits' = permits - 1

AddPermit(t) ==
    /\ permits < UINT_MAX
    /\ Becomes(t, "posting", "gave")
    /\ permits' = permits + 1

\* EOVERFLOW
Refuse(t) ==
    /\ permits = UINT_MAX
    /\ Becomes(t, "posting", "refused")
    /\ UNCHANGED permits

\* The primitives underneath report an error to a waiter, who gets nothing.
Fail(t) ==
    /\ Becomes(t, "waiting", "failed")
    /\ UNCHANGED permits

Return(t) ==
    /\ call[t] \in {"took", "gave", "refused", "failed"}
    /\ call' = [call EXCEPT ![t] = "none"]
    /\ UNCHANGED permits

Next == \E t \in Threads : \/ Begin(t) \/ TakePermit(t) \/ AddPermit(t)
                           \/ Refuse(t) \/ Fail(t) \/ Return(t)

Spec == Init /\ [][Next]_vars

==============================================================================
