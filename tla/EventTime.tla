------------------------------ MODULE EventTime ------------------------------
(***************************************************************************)
(* The time arithmetic of the event loop (src/src/x_event.c): conversion   *)
(* of milliseconds to nanoseconds, the unsigned addition that yields a due *)
(* time, and the conversion of the earliest due time into the millisecond  *)
(* timeout handed to the kernel.                                           *)
(*                                                                         *)
(* Due times and intervals are uint64_t in the code, the kernel timeout is *)
(* an int.  The widths and the factor 1000000 are constants here, so that  *)
(* an instance can be small enough for overflow to happen in a model.      *)
(***************************************************************************)
EXTENDS Integers, FiniteSets, FiniteSetsExt

CONSTANTS
    UINT64_MAX,  \* greatest value of a due time
    INT_MAX,     \* greatest kernel timeout, in milliseconds
    NS_PER_MS    \* nanoseconds in a millisecond (1000000 in the code)

ASSUME TimeAssumption ==
    /\ UINT64_MAX \in Nat \ {0}
    /\ INT_MAX \in Nat \ {0}
    /\ NS_PER_MS \in Nat \ {0}

Time == 0 .. UINT64_MAX

\* Unsigned 64-bit addition wraps around.
AddNs(a, b) == (a + b) % (UINT64_MAX + 1)

\* The conversion saturates instead of wrapping.
x_event_ms_to_ns(ms) ==
    IF ms > UINT64_MAX \div NS_PER_MS THEN UINT64_MAX ELSE ms * NS_PER_MS

\* No timer, process or file source is active: the kernel wait is unlimited.
NoTimeout == -1

\* Variant: the timeout is rounded down.
RoundedDown(dues, now) ==
    IF dues = {} THEN NoTimeout
    ELSE IF \E d \in dues : d <= now THEN 0
    ELSE Min({d - now : d \in dues}) \div NS_PER_MS

\* The kernel timeout, in milliseconds, for the set dues of the due times of
\* the active timer, process and file sources.
x_event_loop_next_timeout_ms(dues, now) ==
    IF dues = {} THEN NoTimeout
    ELSE IF \E d \in dues : d <= now THEN 0
    ELSE LET best_delta == Min({d - now : d \in dues})
             milliseconds == AddNs(best_delta, NS_PER_MS - 1) \div NS_PER_MS
         IN  IF milliseconds > INT_MAX THEN INT_MAX ELSE milliseconds

==============================================================================
