--------------------------- MODULE EventLoopProofs ---------------------------
(***************************************************************************)
(* Proofs about EventLoop, for any number of sources, sockets, threads and *)
(* calls, any delays and intervals, and any width of the clock.            *)
(***************************************************************************)
EXTENDS EventLoop, FiniteSetTheorems, WellFoundedInduction, TLAPS

(***************************************************************************)
(* The arithmetic of time.                                                 *)
(***************************************************************************)
\* Unsigned addition stays within 64 bits.
LEMMA AddNsType ==
    ASSUME NEW a \in Time, NEW b \in Time
    PROVE  AddNs(a, b) \in Time
BY TimeAssumption DEF AddNs, Time

\* The conversion to nanoseconds never overflows.
LEMMA MsToNsType ==
    ASSUME NEW ms \in Nat
    PROVE  x_event_ms_to_ns(ms) \in Time
<1> DEFINE q == UINT64_MAX \div NS_PER_MS
<1>1. q \in Nat /\ q * NS_PER_MS <= UINT64_MAX
  BY TimeAssumption
<1>2. CASE ms <= q
  <2>1. ms * NS_PER_MS <= q * NS_PER_MS
    BY SMTT(60), SMTT(90), <1>1, <1>2, TimeAssumption
  <2>2. ms * NS_PER_MS \in Nat
    BY SMTT(60), SMTT(90), TimeAssumption
  <2>3. QED
    BY SMTT(60), SMTT(90), <1>1, <1>2, <2>1, <2>2, TimeAssumption DEF x_event_ms_to_ns, Time
<1>3. CASE ~(ms <= q)
  BY SMTT(60), SMTT(90), <1>1, <1>3, TimeAssumption DEF x_event_ms_to_ns, Time
<1>4. QED
  BY Zenon, <1>2, <1>3

\* A set of natural numbers that is not empty has a least element.
LEMMA MinOfNat ==
    ASSUME NEW S \in SUBSET Nat, S # {}
    PROVE  Min(S) \in S /\ \A y \in S : Min(S) <= y
<1> DEFINE Less == {ss \in Nat \X Nat : ss[1] < ss[2]}
<1>1. IsWellFoundedOn(Less, Nat)
  BY NatLessThanWellFounded, Zenon DEF OpToRel
<1> HIDE DEF Less
<1>2. PICK x \in S : \A y \in S : ~(<<y, x>> \in Less)
  BY <1>1, WFMin, Zenon
<1>3. ASSUME NEW y \in S
      PROVE  x <= y
  <2>1. <<y, x>> \in Nat \X Nat /\ <<y, x>>[1] = y /\ <<y, x>>[2] = x
    OBVIOUS
  <2>2. ~(y < x)
    BY <1>2, <2>1, Zenon DEF Less
  <2>3. QED
    BY <2>2
<1>4. QED
  BY <1>3, Zenon DEF Min

\* Division rounds down.
LEMMA DivBound ==
    ASSUME NEW a \in Nat
    PROVE  /\ a \div NS_PER_MS \in Nat
           /\ (a \div NS_PER_MS) * NS_PER_MS <= a
           /\ a < (a \div NS_PER_MS) * NS_PER_MS + NS_PER_MS
BY SMTT(60), SMTT(90), TimeAssumption

\* x_event_loop_next_timeout_ms: the timeout is an int or no timeout at all, and
\* the kernel wait ends less than a millisecond after each due time to come.
\* If the timeout is not cut to INT_MAX, and the rounding does not overflow, it
\* does not end before the earliest of them either.
THEOREM TimeoutBounds ==
    ASSUME NEW dues \in SUBSET Time, NEW t \in Time
    PROVE  LET ms == x_event_loop_next_timeout_ms(dues, t)
           IN  /\ dues = {} => ms = NoTimeout
               /\ dues # {} => ms \in 0 .. INT_MAX
               /\ \A d \in dues : d > t => ms * NS_PER_MS < d - t + NS_PER_MS
               /\ (/\ dues # {} /\ ms < INT_MAX
                   /\ \A d \in dues : d - t + NS_PER_MS <= UINT64_MAX)
                      => \E d \in dues : d <= t + ms * NS_PER_MS
<1> DEFINE ms == x_event_loop_next_timeout_ms(dues, t)
<1>1. CASE dues = {}
  BY Zenon, <1>1 DEF x_event_loop_next_timeout_ms
<1>2. CASE \E d \in dues : d <= t
  <2>1. ms = 0
    BY Zenon, <1>2 DEF x_event_loop_next_timeout_ms
  <2>2. QED
    BY SMTT(60), SMTT(90), <1>2, <2>1, TimeAssumption DEF Time
<1>3. CASE dues # {} /\ \A d \in dues : d > t
  <2> DEFINE deltas == {d - t : d \in dues}
             best == Min(deltas)
             sum == AddNs(best, NS_PER_MS - 1)
             quotient == sum \div NS_PER_MS
  <2>1. deltas \in SUBSET Nat /\ deltas # {}
    <3>1. \A d \in dues : d - t \in Nat
      BY <1>3 DEF Time
    <3>2. QED
      BY <1>3, <3>1, Zenon
  <2>2. best \in deltas /\ \A y \in deltas : best <= y
    BY <2>1, MinOfNat, Zenon
  <2>3. PICK d0 \in dues : best = d0 - t
    BY <2>2, Zenon
  <2>4. \A d \in dues : best <= d - t
    BY Zenon, <2>2
  <2> HIDE DEF deltas, best
  <2>5. best \in Nat /\ best <= UINT64_MAX
    BY SMTT(60), SMTT(90), <2>3, <1>3, TimeAssumption DEF Time
  <2>6. /\ sum \in Nat
        /\ sum <= best + (NS_PER_MS - 1)
        /\ best + NS_PER_MS <= UINT64_MAX => sum = best + (NS_PER_MS - 1)
    BY <2>5, TimeAssumption DEF AddNs
  <2> HIDE DEF sum
  <2>7. /\ quotient \in Nat
        /\ quotient * NS_PER_MS <= sum
        /\ sum < quotient * NS_PER_MS + NS_PER_MS
    BY Zenon, <2>6, DivBound
  <2> HIDE DEF quotient
  <2>8. ms = IF quotient > INT_MAX THEN INT_MAX ELSE quotient
    <3>1. ~(\E d \in dues : d <= t)
      BY <1>3 DEF Time
    <3>2. QED
      BY <1>3, <3>1, Zenon
         DEF x_event_loop_next_timeout_ms, deltas, best, sum, quotient
  <2> HIDE DEF ms
  <2>9. ms \in 0 .. INT_MAX /\ ms <= quotient
    BY SMTT(60), SMTT(90), <2>7, <2>8, TimeAssumption
  <2>10. ms * NS_PER_MS <= quotient * NS_PER_MS /\ ms * NS_PER_MS \in Nat
    BY SMTT(60), SMTT(90), <2>7, <2>9, TimeAssumption
  <2>11. ASSUME NEW d \in dues
         PROVE  ms * NS_PER_MS < d - t + NS_PER_MS
    BY SMTT(60), SMTT(90), <2>4, <2>5, <2>6, <2>7, <2>10, TimeAssumption DEF Time
  <2>12. ASSUME ms < INT_MAX, \A d \in dues : d - t + NS_PER_MS <= UINT64_MAX
         PROVE  d0 <= t + ms * NS_PER_MS
    <3>1. ms = quotient
      BY SMTT(60), SMTT(90), <2>7, <2>8, <2>12, TimeAssumption
    <3>2. sum = best + (NS_PER_MS - 1)
      BY Zenon, <2>3, <2>6, <2>12
    <3>3. best <= ms * NS_PER_MS
      BY SMTT(60), SMTT(90), <2>5, <2>7, <2>10, <3>1, <3>2, TimeAssumption
    <3>4. QED
      BY SMTT(60), SMTT(90), <2>3, <2>5, <2>10, <3>3 DEF Time
  <2>13. QED
    BY Zenon, <1>3, <2>9, <2>11, <2>12 DEF ms
<1>4. QED
  BY SMTT(60), SMTT(90), <1>1, <1>2, <1>3, TimeAssumption DEF Time

(***************************************************************************)
(* Types, and the capacity of the array of sources.                        *)
(***************************************************************************)
SizeInv == capacity > 0 /\ FitsCapacity

\* Every set of sources is finite.
LEMMA FiniteIds ==
    ASSUME NEW S \in SUBSET Ids
    PROVE  IsFiniteSet(S) /\ Cardinality(S) \in Nat
<1>1. 1 \in Int /\ MaxSources \in Int
  BY LoopAssumption
<1>2. IsFiniteSet(Ids)
  BY <1>1, FS_Interval, Zenon DEF Ids
<1>3. QED
  BY <1>2, FS_Subset, FS_CardinalityType, Zenon

\* x_event_loop_reserve makes room for one more source, and never shrinks: the
\* array was not overfull, so doubling it once is enough.
LEMMA ReserveFits ==
    ASSUME capacity \in Nat, capacity > 0,
           NEW n \in Nat, n <= capacity
    PROVE  /\ x_event_loop_reserve(n + 1) \in Nat
           /\ x_event_loop_reserve(n + 1) >= n + 1
           /\ x_event_loop_reserve(n + 1) >= capacity
<1>1. CASE n + 1 <= capacity
  BY SMTT(60), SMTT(90), <1>1 DEF x_event_loop_reserve
<1>2. CASE ~(n + 1 <= capacity)
  <2>1. 2 * capacity >= n + 1 /\ capacity # 0
    OBVIOUS
  <2>2. x_event_loop_reserve(n + 1) = 2 * capacity
    BY <1>2, <2>1, Zenon DEF x_event_loop_reserve
  <2>3. QED
    BY <2>1, <2>2
<1>3. QED
  BY Zenon, <1>1, <1>2

\* Compaction keeps the array within its capacity.
LEMMA SmallerFits ==
    ASSUME TypeOK, SizeInv, capacity' = capacity, sources' \subseteq sources
    PROVE  SizeInv'
<1>1. IsFiniteSet(sources) /\ Cardinality(sources) \in Nat
  BY Zenon, FiniteIds DEF TypeOK
<1>2. Cardinality(sources') \in Nat /\ Cardinality(sources') <= Cardinality(sources)
  BY Zenon, <1>1, FS_Subset, FS_CardinalityType
<1>3. QED
  BY SMTT(60), SMTT(90), <1>1, <1>2 DEF SizeInv, FitsCapacity, TypeOK

\* The fields of a source that the functions adding sources may set.
Fields == [kind : Timed \cup {"socket", "none"}, sock : Sockets \cup {WakeSocket},
           interval : Time]

\* Adding a source keeps the types and fits.
LEMMA NewSourceTypes ==
    ASSUME TypeOK, SizeInv, NEW fields \in Fields, NEW due_ns \in Time,
           NewSource(fields, due_ns),
           registered' \subseteq (Sockets \cup {WakeSocket}) \X Ids
    PROVE  TypeOK' /\ SizeInv'
<1>1. nextId \in Ids /\ sources \in SUBSET Ids
  <2>1. nextId <= MaxSources
    BY Zenon DEF NewSource
  <2>2. nextId \in 2 .. MaxSources + 1 /\ MaxSources \in Nat /\ sources \in SUBSET Ids
    BY Zenon, LoopAssumption DEF TypeOK
  <2>3. QED
    BY SMTT(60), SMTT(90), <2>1, <2>2 DEF Ids
<1>2. IsFiniteSet(sources) /\ Cardinality(sources) \in Nat
  BY Zenon, <1>1, FiniteIds
<1>3. /\ capacity' \in Nat
      /\ capacity' >= Cardinality(sources) + 1
      /\ capacity' > 0
  <2>1. capacity \in Nat /\ capacity > 0 /\ Cardinality(sources) <= capacity
    BY Zenon DEF TypeOK, SizeInv, FitsCapacity
  <2>2. capacity' = x_event_loop_reserve(Cardinality(sources) + 1)
    BY Zenon DEF NewSource
  <2>3. QED
    BY SMTT(60), SMTT(90), <1>2, <2>1, <2>2, ReserveFits
<1>4. Cardinality(sources') <= Cardinality(sources) + 1 /\ Cardinality(sources') \in Nat
  <2>1. sources' = sources \cup {nextId}
    BY Zenon DEF NewSource
  <2>2. \/ Cardinality(sources \cup {nextId}) = Cardinality(sources)
        \/ Cardinality(sources \cup {nextId}) = Cardinality(sources) + 1
    BY Zenon, <1>2, FS_AddElement
  <2>3. QED
    BY SMTT(60), SMTT(90), <1>2, <2>1, <2>2
<1>5. SizeInv'
  BY <1>2, <1>3, <1>4 DEF SizeInv, FitsCapacity
<1>6. TypeOK'
  <2>1. /\ src' \in [Ids -> Fields] /\ due' \in [Ids -> Time]
        /\ sources' \subseteq Ids /\ active' \subseteq Ids /\ freed' \subseteq Ids
        /\ nextId' \in 2 .. MaxSources + 1
    BY SMTT(60), SMTT(90), <1>1, LoopAssumption DEF NewSource, TypeOK, Fields
  <2>2. UNCHANGED <<control, stop_requested, queue, clock, exited, others, completed,
                    wakeFailed>>
    BY Zenon DEF NewSource
  <2>3. QED
    BY ZenonT(60), <1>3, <2>1, <2>2 DEF TypeOK, Fields, control, others
<1>7. QED
  BY Zenon, <1>5, <1>6

\* The clock is a due time.
LEMMA ClockIsTime == TypeOK => clock \in Time /\ now \in Time
BY SMTT(60), SMTT(90), LoopAssumption, TimeAssumption DEF TypeOK, Time

\* The default interval or the interval asked for, in nanoseconds.
LEMMA PollIntervalType ==
    ASSUME NEW i \in Nat, NEW default_ms \in Nat
    PROVE  PollInterval(i, default_ms) \in Time
BY Zenon, MsToNsType DEF PollInterval

\* The four functions that add a source keep the types and fit.
LEMMA AddSourceTypes ==
    ASSUME TypeOK, SizeInv, AddSource
    PROVE  TypeOK' /\ SizeInv'
<1> USE LoopAssumption, TimeAssumption
<1>0. 0 \in Time
  BY SMTT(60), SMTT(90) DEF Time
<1>1. ASSUME NEW s \in Sockets, x_event_loop_add_socket(s)
      PROVE  TypeOK' /\ SizeInv'
  <2>1. Source("socket", s, 0) \in Fields
    BY Zenon, <1>0 DEF Source, Fields
  <2>2. registered' \subseteq (Sockets \cup {WakeSocket}) \X Ids
    BY SMTT(60), SMTT(90), <1>1 DEF x_event_loop_add_socket, NewSource, TypeOK, Ids
  <2>3. QED
    BY Zenon, <1>0, <1>1, <2>1, <2>2, NewSourceTypes DEF x_event_loop_add_socket
<1>2. ASSUME NEW d \in Delays, NEW i \in Intervals, x_event_loop_add_timer(d, i)
      PROVE  TypeOK' /\ SizeInv'
  <2>1. d \in Nat /\ i \in Nat
    OBVIOUS
  <2>2. x_event_ms_to_ns(i) \in Time /\ AddNs(clock, x_event_ms_to_ns(d)) \in Time
    BY Zenon, <2>1, ClockIsTime, MsToNsType, AddNsType
  <2>3. Source("timer", WakeSocket, x_event_ms_to_ns(i)) \in Fields
    BY Zenon, <2>2 DEF Source, Fields, Timed
  <2>4. QED
    BY <1>2, <2>2, <2>3, NewSourceTypes DEF x_event_loop_add_timer, TypeOK
<1>3. ASSUME NEW i \in Intervals, x_event_loop_add_process(i)
      PROVE  TypeOK' /\ SizeInv'
  <2>1. PollInterval(i, PROCESS_MS) \in Time
    BY Zenon, PollIntervalType
  <2>2. Source("process", WakeSocket, PollInterval(i, PROCESS_MS)) \in Fields
    BY ZenonT(60), <2>1 DEF Source, Fields, Timed
  <2>3. QED
    BY Zenon, <1>3, <2>2, ClockIsTime, NewSourceTypes DEF x_event_loop_add_process, TypeOK
<1>4. ASSUME NEW i \in Intervals, x_event_loop_add_file_watcher(i)
      PROVE  TypeOK' /\ SizeInv'
  <2>1. PollInterval(i, FILE_MS) \in Time
    BY Zenon, PollIntervalType
  <2>2. Source("file", WakeSocket, PollInterval(i, FILE_MS)) \in Fields
    BY Zenon, <2>1 DEF Source, Fields, Timed
  <2>3. QED
    BY <1>4, <2>2, ClockIsTime, NewSourceTypes DEF x_event_loop_add_file_watcher, TypeOK
<1>5. QED
  BY Zenon, <1>1, <1>2, <1>3, <1>4 DEF AddSource

\* Everything that is not the table of sources, with a type that a step of the
\* owner must keep.
ControlOK ==
    /\ pc \in {"idle", "entry", "top", "pass", "timers", "callback", "advance",
               "wait", "batch", "drain", "destroyed"}
    /\ phase \in {1, 2}
    /\ cursor \in Ids \cup {NoSource}
    /\ cb \in IF pc \in {"callback", "advance"} THEN Ids ELSE {NoSource}
    /\ now \in 0 .. MaxClock
    /\ deadline \in Nat \cup {NoDeadline}
    /\ batch \subseteq Ids

\* Leaving the loop keeps those types.
LEMMA LeaveControl == Leave => ControlOK'
BY SMTT(60), SMTT(90), LoopAssumption DEF Leave, ControlOK, NoSource, NoDeadline

\* The deadline of the kernel wait is a time or none.
LEMMA EnterWaitControl ==
    ASSUME TypeOK, pc = "timers", EnterWait
    PROVE  ControlOK'
<1> USE LoopAssumption, TimeAssumption
<1> DEFINE dues == {due[s] : s \in ActiveOf(Timed)}
           timeout_ms == x_event_loop_next_timeout_ms(dues, clock)
<1>1. dues \in SUBSET Time
  BY SMTT(60), SMTT(90) DEF TypeOK, ActiveOf
<1>2. timeout_ms \in Nat \cup {-1}
  <2>1. clock \in Time
    BY Zenon, ClockIsTime
  <2>2. dues = {} => timeout_ms = NoTimeout
    BY Zenon, <1>1, <2>1, TimeoutBounds
  <2>3. dues # {} => timeout_ms \in 0 .. INT_MAX
    BY Zenon, <1>1, <2>1, TimeoutBounds
  <2>4. QED
    BY SMTT(60), SMTT(90), <2>2, <2>3 DEF NoTimeout
<1> HIDE DEF timeout_ms
<1>3. timeout_ms \in Nat => timeout_ms * NS_PER_MS \in Nat
  OBVIOUS
<1>4. deadline' = IF timeout_ms = NoTimeout THEN NoDeadline
                  ELSE clock + timeout_ms * NS_PER_MS
  BY Zenon DEF EnterWait, timeout_ms
<1>5. deadline' \in Nat \cup {NoDeadline}
  BY SMTT(60), SMTT(90), <1>2, <1>3, <1>4 DEF NoTimeout, NoDeadline, TypeOK
<1>6. QED
  BY Zenon, <1>5 DEF EnterWait, ControlOK, TypeOK, NoSource

\* The bounds are numbers.
LEMMA BoundsTyped == MaxClock \in Nat /\ MaxCalls \in Nat /\ MaxQueue \in Nat
BY Zenon, LoopAssumption

\* The steps of the loop, in groups.
ClientCalls ==
    \/ AddSource \/ AddSourceFails \/ CallbackWakes
    \/ \E s \in Ids : x_event_source_remove(s)
    \/ x_event_loop_run \/ x_event_loop_destroy

Dispatching ==
    \/ EnterLoop \/ LoopTop \/ StartPass
    \/ \E s \in Ids : PollSource(s) \/ FireTimer(s) \/ HandleEvent(s)

Returning ==
    \/ CallbackReturns \/ CallbackFails \/ AdvanceTimer
    \/ EndFirstPass \/ EndSecondPass \/ EndBatch

Waiting ==
    \/ WaitReady \/ WaitWoken \/ WaitTimesOut \/ WaitInterrupted
    \/ WaitFails \/ x_event_loop_wake_callback

Surroundings ==
    \/ \E t \in Threads : Other(t)
    \/ Tick \/ \E s \in Ids : ChildExits(s)
    \/ UNCHANGED vars

\* A step that leaves the table of sources alone keeps the types if it keeps
\* those of the rest.
LEMMA TableKept ==
    ASSUME TypeOK, SizeInv, UNCHANGED table, ControlOK', queue' \in 0 .. MaxQueue,
           stop_requested' \in BOOLEAN, clock' \in 0 .. MaxClock,
           exited' \subseteq Ids, completed' \subseteq Ids, wakeFailed' \in BOOLEAN,
           thread' \in [Threads -> {"ready", "sending"}],
           calls' \in [Threads -> 0 .. MaxCalls]
    PROVE  TypeOK' /\ SizeInv'
BY Zenon DEF TypeOK, ControlOK, SizeInv, FitsCapacity, table

\* So does a step that moves the owner's control alone.
LEMMA OnlyControlMoves ==
    ASSUME TypeOK, SizeInv,
           UNCHANGED <<table, stop_requested, queue, clock, exited, others, completed>>,
           ControlOK', wakeFailed' \in BOOLEAN
    PROVE  TypeOK' /\ SizeInv'
BY Zenon, TableKept DEF TypeOK, others

\* A step of the owner that only takes sources out of the table and reschedules
\* them keeps the types.
LEMMA TableShrinks ==
    ASSUME TypeOK, SizeInv,
           UNCHANGED <<src, nextId, capacity, stop_requested, queue, clock, exited,
                       others, wakeFailed>>,
           sources' \subseteq sources, active' \subseteq active,
           freed' \subseteq freed \cup sources, registered' \subseteq registered,
           due' \in [Ids -> Time], completed' \subseteq Ids, ControlOK'
    PROVE  TypeOK' /\ SizeInv'
<1>1. SizeInv'
  BY Zenon, SmallerFits
<1>2. QED
  BY Zenon, <1>1 DEF TypeOK, ControlOK, others

\* What the type invariant says of the variables other than the owner's control and
\* the table.
LEMMA OthersTyped ==
    TypeOK => /\ due \in [Ids -> Time] /\ completed \subseteq Ids /\ exited \subseteq Ids
              /\ queue \in 0 .. MaxQueue /\ clock \in 0 .. MaxClock
              /\ stop_requested \in BOOLEAN /\ wakeFailed \in BOOLEAN
              /\ thread \in [Threads -> {"ready", "sending"}]
              /\ calls \in [Threads -> 0 .. MaxCalls]
BY Zenon DEF TypeOK

\* The owner's control is part of the type invariant.
LEMMA ControlTyped == TypeOK => ControlOK
BY Zenon DEF TypeOK, ControlOK

\* Rescheduling gives a source a due time of 64 bits.
LEMMA RescheduleTyped ==
    ASSUME TypeOK, NEW s \in Ids
    PROVE  [due EXCEPT ![s] = AddNs(now, src[s].interval)] \in [Ids -> Time]
<1>1. src[s].interval \in Time /\ now \in Time
  BY Zenon, ClockIsTime DEF TypeOK
<1>2. AddNs(now, src[s].interval) \in Time
  BY Zenon, <1>1, AddNsType
<1>3. QED
  BY Zenon, <1>2 DEF TypeOK

\* The queue of the wake socket stays within its bound.
LEMMA SendWakeTyped == TypeOK /\ SendWake => queue' \in 0 .. MaxQueue
BY SMTT(60), SMTT(90), LoopAssumption DEF SendWake, TypeOK

\* The functions a client calls keep the types and the array within its capacity.
LEMMA ClientTypes ==
    ASSUME TypeOK, SizeInv, ClientCalls
    PROVE  TypeOK' /\ SizeInv'
<1> USE BoundsTyped DEF table, control, others
<1>1. CASE AddSource
  BY Zenon, <1>1, AddSourceTypes
<1>2. CASE AddSourceFails
  <2>1. sources \in SUBSET Ids
    BY Zenon DEF TypeOK
  <2>2. Cardinality(sources) \in Nat
    BY Zenon, <2>1, FiniteIds
  <2>3. capacity \in Nat /\ capacity > 0 /\ Cardinality(sources) <= capacity
    BY Zenon DEF TypeOK, SizeInv, FitsCapacity
  <2>4. capacity' = x_event_loop_reserve(Cardinality(sources) + 1)
    BY Zenon, <1>2 DEF AddSourceFails
  <2>5. capacity' \in Nat /\ capacity' >= capacity
    BY Zenon, <2>2, <2>3, <2>4, ReserveFits
  <2>6. UNCHANGED <<sources, active, freed, src, due, nextId, registered, control,
                    stop_requested, queue, clock, exited, others, completed,
                    wakeFailed>>
    BY Zenon, <1>2 DEF AddSourceFails
  <2>7. QED
    BY SMTT(60), SMTT(90), <2>2, <2>3, <2>5, <2>6 DEF TypeOK, SizeInv, FitsCapacity
<1>3. ASSUME NEW s \in Ids, x_event_source_remove(s)
      PROVE  TypeOK' /\ SizeInv'
  <2>1. ControlOK'
    BY Zenon, <1>3, ControlTyped DEF x_event_source_remove, ControlOK
  <2>2. active' \subseteq active /\ registered' \subseteq registered
    BY Zenon, <1>3 DEF x_event_source_remove, RemoveSource
  <2>3. QED
    BY Zenon, <1>3, TableShrinks, OthersTyped, <2>1, <2>2 DEF x_event_source_remove
<1>4. CASE CallbackWakes
  <2>1. ControlOK'
    BY Zenon, <1>4, ControlTyped DEF CallbackWakes, ControlOK
  <2>2. QED
    <3>1. queue' \in 0 .. MaxQueue /\ stop_requested' \in BOOLEAN
      BY Zenon, <1>4, SendWakeTyped DEF CallbackWakes, TypeOK
    <3>2. QED
      BY Zenon, <1>4, TableKept, OthersTyped, <2>1, <3>1 DEF CallbackWakes
<1>5. CASE x_event_loop_run
  <2>1. ControlOK'
    BY Zenon, <1>5, ControlTyped DEF x_event_loop_run, ControlOK
  <2>2. QED
    BY Zenon, <1>5, OnlyControlMoves, OthersTyped, <2>1 DEF x_event_loop_run
<1>6. CASE x_event_loop_destroy
  <2>1. ControlOK'
    BY Zenon, <1>6, ControlTyped DEF x_event_loop_destroy, ControlOK
  <2>2. QED
    BY Zenon, <1>6, TableShrinks, OthersTyped, <2>1 DEF x_event_loop_destroy
<1>7. QED
  BY Zenon, <1>1, <1>2, <1>3, <1>4, <1>5, <1>6 DEF ClientCalls

\* So do the steps that start a pass and those that dispatch a source.
LEMMA DispatchTypes ==
    ASSUME TypeOK, SizeInv, Dispatching
    PROVE  TypeOK' /\ SizeInv'
<1> USE BoundsTyped DEF table, control, others
<1>1. CASE EnterLoop
  <2>1. ControlOK'
    BY Zenon, <1>1, ControlTyped DEF EnterLoop, ControlOK
  <2>2. QED
    BY Zenon, <1>1, TableKept, OthersTyped, <2>1 DEF EnterLoop
<1>2. CASE LoopTop
  <2>1. ControlOK'
    BY Zenon, <1>2, ControlTyped, LeaveControl DEF LoopTop, ControlOK
  <2>2. QED
    BY Zenon, <1>2, OnlyControlMoves, OthersTyped, <2>1 DEF LoopTop
<1>3. CASE StartPass
  <2>1. ControlOK'
    BY Zenon, <1>3, ControlTyped, LeaveControl DEF StartPass, ControlOK, TypeOK
  <2>2. QED
    BY Zenon, <1>3, OnlyControlMoves, OthersTyped, <2>1 DEF StartPass
<1>4. ASSUME NEW s \in Ids, PollSource(s)
       PROVE  TypeOK' /\ SizeInv'
  <2>1. ControlOK'
    BY Zenon, <1>4, ControlTyped, LeaveControl DEF PollSource, Dispatch, ControlOK
  <2>2. due' \in [Ids -> Time]
    BY SMTT(60), SMTT(90), <1>4, RescheduleTyped DEF PollSource, Reschedule, TypeOK
  <2>3. QED
    BY Zenon, <1>4, TableShrinks, OthersTyped, <2>1, <2>2 DEF PollSource
<1>5. ASSUME NEW s \in Ids, FireTimer(s)
       PROVE  TypeOK' /\ SizeInv'
  <2>1. ControlOK'
    BY Zenon, <1>5, ControlTyped DEF FireTimer, Dispatch, ControlOK
  <2>2. QED
    BY Zenon, <1>5, OnlyControlMoves, OthersTyped, <2>1 DEF FireTimer
<1>6. ASSUME NEW s \in Ids, HandleEvent(s)
       PROVE  TypeOK' /\ SizeInv'
  <2>1. ControlOK'
    BY Zenon, <1>6, ControlTyped DEF HandleEvent, Dispatch, ControlOK
  <2>2. QED
    BY Zenon, <1>6, OnlyControlMoves, OthersTyped, <2>1 DEF HandleEvent
<1>7. QED
  BY Zenon, <1>1, <1>2, <1>3, <1>4, <1>5, <1>6 DEF Dispatching

\* So do the steps after a callback and those that end a pass.
LEMMA ReturnTypes ==
    ASSUME TypeOK, SizeInv, Returning
    PROVE  TypeOK' /\ SizeInv'
<1> USE BoundsTyped DEF table, control, others
<1>1. CASE CallbackReturns
  <2>0. cb \in active => cb \in Ids
    BY Zenon DEF TypeOK
  <2>1. ControlOK'
    BY Zenon, <1>1, ControlTyped DEF CallbackReturns, ControlOK
  <2>2. due' \in [Ids -> Time]
    BY ZenonT(60), <1>1, RescheduleTyped, <2>0 DEF CallbackReturns, Reschedule, TypeOK
  <2>3. active' \subseteq active /\ registered' \subseteq registered
    BY Zenon, <1>1 DEF CallbackReturns, RemoveSource
  <2>4. completed' \subseteq Ids
    BY Zenon, <1>1 DEF CallbackReturns, TypeOK
  <2>5. QED
    BY Zenon, <1>1, TableShrinks, <2>1, <2>2, <2>3, <2>4 DEF CallbackReturns
<1>2. CASE CallbackFails
  BY Zenon, <1>2, OnlyControlMoves, OthersTyped, LeaveControl DEF CallbackFails
<1>3. CASE AdvanceTimer
  <2>1. ControlOK'
    BY Zenon, <1>3, ControlTyped DEF AdvanceTimer, ControlOK
  <2>2. due' \in [Ids -> Time]
    BY Zenon, <1>3, AddNsType DEF AdvanceTimer, TypeOK
  <2>3. /\ UNCHANGED <<src, nextId, capacity, stop_requested, queue, clock, exited,
                       others, wakeFailed, completed>>
        /\ UNCHANGED <<sources, active, freed, registered>>
    BY Zenon, <1>3 DEF AdvanceTimer
  <2>4. /\ sources' \subseteq sources /\ active' \subseteq active
        /\ freed' \subseteq freed \cup sources /\ registered' \subseteq registered
        /\ completed' \subseteq Ids
    BY Zenon, <2>3, OthersTyped
  <2>5. QED
    BY ZenonT(60), TableShrinks, <2>1, <2>2, <2>3, <2>4
<1>4. CASE EndFirstPass
  <2>1. ControlOK'
    BY Zenon, <1>4, LeaveControl, EnterWaitControl DEF EndFirstPass
  <2>2. sources' \subseteq sources /\ freed' \subseteq freed \cup sources
    BY Zenon, <1>4 DEF EndFirstPass, x_event_loop_compact
  <2>3. /\ UNCHANGED <<src, nextId, capacity, stop_requested, queue, clock, exited,
                       others, wakeFailed, completed>>
        /\ UNCHANGED <<active, registered, due>>
    BY Zenon, <1>4 DEF EndFirstPass
  <2>4. /\ active' \subseteq active /\ registered' \subseteq registered
        /\ due' \in [Ids -> Time] /\ completed' \subseteq Ids
    BY Zenon, <2>3, OthersTyped
  <2>5. QED
    BY Zenon, TableShrinks, <2>1, <2>2, <2>3, <2>4
<1>5. CASE EndSecondPass
  <2>1. ControlOK'
    BY SMTT(60), SMTT(90), <1>5, ControlTyped DEF EndSecondPass, ControlOK
  <2>2. sources' \subseteq sources /\ freed' \subseteq freed \cup sources
    BY Zenon, <1>5 DEF EndSecondPass, x_event_loop_compact
  <2>3. /\ UNCHANGED <<src, nextId, capacity, stop_requested, queue, clock, exited,
                       others, wakeFailed, completed>>
        /\ UNCHANGED <<active, registered, due>>
    BY Zenon, <1>5 DEF EndSecondPass
  <2>4. /\ active' \subseteq active /\ registered' \subseteq registered
        /\ due' \in [Ids -> Time] /\ completed' \subseteq Ids
    BY Zenon, <2>3, OthersTyped
  <2>5. QED
    BY Zenon, TableShrinks, <2>1, <2>2, <2>3, <2>4
<1>6. CASE EndBatch
  <2>1. ControlOK'
    BY Zenon, <1>6, ControlTyped DEF EndBatch, ControlOK
  <2>2. QED
    BY Zenon, <1>6, OnlyControlMoves, OthersTyped, <2>1 DEF EndBatch
<1>7. QED
  BY Zenon, <1>1, <1>2, <1>3, <1>4, <1>5, <1>6 DEF Returning

\* So do the ends of the kernel wait and the callback of the wake socket.
LEMMA WaitTypes ==
    ASSUME TypeOK, SizeInv, Waiting
    PROVE  TypeOK' /\ SizeInv'
<1> USE BoundsTyped DEF table, control, others
<1>1. ASSUME NEW pointers \in SUBSET Ids, WaitReturns(pointers)
       PROVE  TypeOK' /\ SizeInv'
  <2>1. ControlOK'
    BY SMTT(60), SMTT(90), <1>1, ControlTyped DEF WaitReturns, ControlOK
  <2>2. QED
    BY Zenon, <1>1, OnlyControlMoves, OthersTyped, <2>1 DEF WaitReturns
<1>2. CASE WaitReady \/ WaitWoken \/ WaitTimesOut \/ WaitInterrupted
  <2>1. {r[2] : r \in registered} \subseteq Ids
    BY DEF TypeOK
  <2>2. PICK pointers \in SUBSET Ids : WaitReturns(pointers)
    BY Zenon, <1>2, <2>1 DEF WaitReady, WaitWoken, WaitTimesOut, WaitInterrupted
  <2>3. QED
    BY Zenon, <1>1, <2>2
<1>3. CASE WaitFails
  BY Zenon, <1>3, OnlyControlMoves, OthersTyped, LeaveControl DEF WaitFails
<1>4. CASE x_event_loop_wake_callback
  <2>1. ControlOK'
    BY Zenon, <1>4, ControlTyped, LeaveControl DEF x_event_loop_wake_callback, ControlOK
  <2>2. QED
    BY SMTT(60), SMTT(90), <1>4, TableKept, OthersTyped, <2>1 DEF x_event_loop_wake_callback
<1>5. QED
  BY Zenon, <1>2, <1>3, <1>4 DEF Waiting

\* So do the other threads, the clock and the children.
LEMMA OtherTypes ==
    ASSUME TypeOK, SizeInv, Surroundings
    PROVE  TypeOK' /\ SizeInv'
<1> USE BoundsTyped DEF table, control, others
<1>1. ASSUME NEW t \in Threads, Other(t)
       PROVE  TypeOK' /\ SizeInv'
  <2>1. ControlOK'
    BY Zenon, <1>1, ControlTyped
       DEF Other, x_event_loop_wake, x_event_loop_cancel, CancelSends, ControlOK
  <2>2. QED
    <3>1. /\ queue' \in 0 .. MaxQueue /\ stop_requested' \in BOOLEAN
          /\ wakeFailed' \in BOOLEAN
      BY ZenonT(60), <1>1, SendWakeTyped
         DEF Other, x_event_loop_wake, x_event_loop_cancel, CancelSends, TypeOK
    <3>2. /\ thread' \in [Threads -> {"ready", "sending"}]
          /\ calls' \in [Threads -> 0 .. MaxCalls]
      BY SMTT(60), SMTT(90), <1>1
           DEF Other, x_event_loop_wake, x_event_loop_cancel, CancelSends, TypeOK
    <3>3. UNCHANGED <<table, clock, exited, completed>>
      BY Zenon, <1>1 DEF Other, x_event_loop_wake, x_event_loop_cancel, CancelSends
    <3>4. QED
      BY Zenon, TableKept, OthersTyped, <2>1, <3>1, <3>2, <3>3
<1>2. CASE Tick
  <2>1. ControlOK'
    BY Zenon, <1>2, ControlTyped DEF Tick, ControlOK
  <2>2. QED
    BY SMTT(60), SMTT(90), <1>2, TableKept, OthersTyped, <2>1 DEF Tick
<1>3. ASSUME NEW s \in Ids, ChildExits(s)
      PROVE  TypeOK' /\ SizeInv'
  <2>1. ControlOK'
    BY ZenonT(60), <1>3, ControlTyped DEF ChildExits, ControlOK
  <2>2. QED
    BY Zenon, <1>3, TableKept, OthersTyped, <2>1 DEF ChildExits
<1>4. CASE UNCHANGED vars
  <2>1. ControlOK'
    BY Zenon, <1>4, ControlTyped DEF vars, ControlOK
  <2>2. QED
    BY Zenon, <1>4, TableKept, OthersTyped, <2>1 DEF vars
<1>5. QED
  BY Zenon, <1>1, <1>2, <1>3, <1>4 DEF Surroundings

\* Each step keeps the types and the array within its capacity.
LEMMA TypeStep == TypeOK /\ SizeInv /\ [Next]_vars => TypeOK' /\ SizeInv'
BY Zenon, ClientTypes, DispatchTypes, ReturnTypes, WaitTypes, OtherTypes
   DEF Next, Client, Owner, Environment, Terminated, ClientCalls, Dispatching,
       Returning, Waiting, Surroundings

\* The types hold at the start.
LEMMA TypeInit == Init => TypeOK /\ SizeInv
<1> SUFFICES ASSUME Init PROVE TypeOK /\ SizeInv
  OBVIOUS
<1> USE LoopAssumption, TimeAssumption
<1>1. 0 \in Time /\ WakeSource \in Ids
  BY SMTT(60), SMTT(90) DEF Time, Ids, WakeSource
<1>2. src \in [Ids -> Fields]
  BY Zenon, <1>1 DEF Init, Fields, Source, NoFields, Timed
<1>3. TypeOK
  <2>1. /\ sources \subseteq Ids /\ active \subseteq Ids /\ freed \subseteq Ids
        /\ registered \subseteq (Sockets \cup {WakeSocket}) \X Ids
        /\ due \in [Ids -> Time]
    BY SMTT(60), SMTT(90), <1>1 DEF Init
  <2>2. nextId \in 2 .. MaxSources + 1 /\ capacity \in Nat /\ queue \in 0 .. MaxQueue
    BY SMTT(60), SMTT(90) DEF Init
  <2>3. /\ now \in 0 .. MaxClock /\ clock \in 0 .. MaxClock
        /\ thread \in [Threads -> {"ready", "sending"}]
        /\ calls \in [Threads -> 0 .. MaxCalls]
    BY SMTT(60), SMTT(90) DEF Init
  <2>4. /\ cb \in IF pc \in {"callback", "advance"} THEN Ids ELSE {NoSource}
        /\ pc \in {"idle", "entry", "top", "pass", "timers", "callback", "advance",
                   "wait", "batch", "drain", "destroyed"}
        /\ phase \in {1, 2} /\ cursor \in Ids \cup {NoSource}
        /\ deadline \in Nat \cup {NoDeadline}
    BY Zenon DEF Init
  <2>5. /\ batch \subseteq Ids /\ exited \subseteq Ids /\ completed \subseteq Ids
        /\ stop_requested \in BOOLEAN /\ wakeFailed \in BOOLEAN
    BY Zenon DEF Init
  <2>6. QED
    BY ZenonT(60), <1>2, <2>1, <2>2, <2>3, <2>4, <2>5 DEF TypeOK, Fields
<1>4. Cardinality(sources) = 1
  BY Zenon, FS_Singleton DEF Init
<1>5. capacity = MIN_CAPACITY /\ MIN_CAPACITY \in Nat \ {0}
  BY Zenon, LoopAssumption DEF Init
<1>6. SizeInv
  BY SMTT(60), SMTT(90), <1>4, <1>5 DEF SizeInv, FitsCapacity
<1>7. QED
  BY Zenon, <1>3, <1>6

\* Type correctness of the event loop; in particular no due time exceeds 64 bits.
THEOREM TypeCorrect == Spec => []TypeOK
<1>1. QED
  BY TypeInit, TypeStep, PTL DEF Spec

\* x_event_loop_reserve has always made room before a source is appended: the
\* array of sources never holds more than its capacity.
THEOREM ArrayFitsCapacity == Spec => []FitsCapacity
<1>1. SizeInv => FitsCapacity
  BY Zenon DEF SizeInv
<1>2. QED
  BY <1>1, TypeInit, TypeStep, PTL DEF Spec

(***************************************************************************)
(* The life of a source.  The array and the freed sources partition the    *)
(* sources allocated; the kernel knows exactly the active socket sources;  *)
(* and a batch of reported events is kept only while nothing compacts.     *)
(***************************************************************************)
TableInv ==
    /\ FreedExactlyOnce
    /\ active \subseteq sources
    /\ RegistrationsMatch

BatchInv ==
    /\ batch \subseteq sources
    /\ \A s \in batch : src[s].kind = "socket"
    /\ batch # {} => \/ pc \in {"batch", "drain"}
                     \/ pc = "callback" /\ src[cb].kind = "socket"
    /\ pc \in {"callback", "advance"} => cb \in sources

LifeInv == TypeOK /\ TableInv /\ BatchInv

\* RegistrationsMatch, element by element.
LEMMA RegistrationElements ==
    RegistrationsMatch <=>
        /\ \A r : r \in registered <=>
                    \E s \in active : src[s].kind = "socket" /\ r = <<src[s].sock, s>>
        /\ \A r, q \in registered : r[1] = q[1] => r = q
<1> DEFINE pairs == {<<src[s].sock, s>> : s \in ActiveOf({"socket"})}
<1>1. \A r : r \in pairs <=>
               \E s \in active : src[s].kind = "socket" /\ r = <<src[s].sock, s>>
  BY Zenon DEF ActiveOf
<1>2. (registered = pairs) <=> (\A r : r \in registered <=> r \in pairs)
  OBVIOUS
<1>3. QED
  BY <1>1, <1>2, Zenon DEF RegistrationsMatch

\* x_event_source_remove: EPOLL_CTL_DEL for the socket of an active source takes
\* away the registration of that source and no other.
LEMMA RemoveKeepsTable ==
    ASSUME TypeOK, TableInv, NEW s \in active, RemoveSource(s),
           UNCHANGED <<sources, freed, src, nextId>>
    PROVE  TableInv'
<1>1. FreedExactlyOnce' /\ active' \subseteq sources'
  BY Zenon DEF TableInv, FreedExactlyOnce, RemoveSource
<1>2. /\ \A r : r \in registered <=>
                   \E u \in active : src[u].kind = "socket" /\ r = <<src[u].sock, u>>
      /\ \A r, q \in registered : r[1] = q[1] => r = q
  BY Zenon, RegistrationElements DEF TableInv
<1>3. \A u \in active \ {s} :
         src[u].kind = "socket" /\ src[s].kind = "socket" => src[u].sock # src[s].sock
  <2> SUFFICES ASSUME NEW u \in active \ {s}, src[u].kind = "socket",
                      src[s].kind = "socket", src[u].sock = src[s].sock
               PROVE  FALSE
    BY Zenon
  <2>1. <<src[u].sock, u>> \in registered /\ <<src[s].sock, s>> \in registered
    BY Zenon, <1>2
  <2>2. <<src[u].sock, u>> = <<src[s].sock, s>>
    BY Zenon, <1>2, <2>1
  <2>3. QED
    BY Zenon, <2>2
<1>4. CASE src[s].kind = "socket"
  <2>1. registered' = {r \in registered : r[1] # src[s].sock} /\ active' = active \ {s}
    BY Zenon, <1>4 DEF RemoveSource
  <2>2. ASSUME NEW r
        PROVE  r \in registered' <=>
                   \E u \in active' : src'[u].kind = "socket" /\ r = <<src'[u].sock, u>>
    <3>1. ASSUME r \in registered'
          PROVE  \E u \in active' : src'[u].kind = "socket" /\ r = <<src'[u].sock, u>>
      <4>1. r \in registered /\ r[1] # src[s].sock
        BY Zenon, <2>1, <3>1
      <4>2. PICK u \in active : src[u].kind = "socket" /\ r = <<src[u].sock, u>>
        BY Zenon, <1>2, <4>1
      <4>3. u # s
        BY Zenon, <4>1, <4>2
      <4>4. QED
        BY Zenon, <2>1, <4>2, <4>3
    <3>2. ASSUME NEW u \in active', src'[u].kind = "socket", r = <<src'[u].sock, u>>
          PROVE  r \in registered'
      <4>1. u \in active \ {s} /\ src[u].kind = "socket" /\ r = <<src[u].sock, u>>
        BY Zenon, <2>1, <3>2
      <4>2. r \in registered /\ r[1] = src[u].sock
        BY Zenon, <1>2, <4>1
      <4>3. QED
        BY Zenon, <1>3, <1>4, <2>1, <4>1, <4>2
    <3>3. QED
      BY Zenon, <3>1, <3>2
  <2>3. \A r, q \in registered' : r[1] = q[1] => r = q
    BY Zenon, <1>2, <2>1
  <2>4. RegistrationsMatch'
    <3> DEFINE pairs == {<<src'[u].sock, u>> : u \in {v \in active' : src'[v].kind \in {"socket"}}}
    <3>1. registered' = pairs
      BY Zenon, <2>2
    <3>2. QED
      BY <2>3, <3>1, Zenon DEF RegistrationsMatch, ActiveOf
  <2>5. QED
    BY Zenon, <1>1, <2>4 DEF TableInv
<1>5. CASE src[s].kind # "socket"
  <2>1. registered' = registered /\ active' = active \ {s}
    BY Zenon, <1>5 DEF RemoveSource
  <2>2. ActiveOf({"socket"})' = ActiveOf({"socket"})
    BY Zenon, <1>5, <2>1 DEF ActiveOf
  <2>3. RegistrationsMatch'
    BY <2>1, <2>2 DEF RegistrationsMatch, TableInv
  <2>4. QED
    BY <1>1, <2>3 DEF TableInv
<1>6. QED
  BY Zenon, <1>4, <1>5

\* Adding a source registers it if it is a socket source, whose socket must not
\* have been registered, and changes nothing for the sources there are.
LEMMA NewSourceKeepsLife ==
    ASSUME LifeInv, TypeOK', NEW k, NEW sock, NEW i, NEW due_ns,
           NewSource(Source(k, sock, i), due_ns),
           \/ k # "socket" /\ registered' = registered
           \/ /\ k = "socket" /\ registered' = registered \cup {<<sock, nextId>>}
              /\ \A r \in registered : r[1] # sock
    PROVE  LifeInv'
<1> DEFINE fields == Source(k, sock, i)
<1>1. /\ sources' = sources \cup {nextId} /\ active' = active \cup {nextId}
      /\ freed' = freed /\ nextId' = nextId + 1 /\ nextId \in Ids /\ nextId \in Nat
      /\ UNCHANGED <<pc, cb, batch>>
      /\ src' = [src EXCEPT ![nextId] = fields]
  <2>1. /\ sources' = sources \cup {nextId} /\ active' = active \cup {nextId}
        /\ freed' = freed /\ nextId' = nextId + 1 /\ nextId <= MaxSources
        /\ src' = [src EXCEPT ![nextId] = fields]
    BY Zenon DEF NewSource
  <2>2. UNCHANGED <<pc, cb, batch>>
    BY Zenon DEF NewSource, control
  <2>3. nextId \in 2 .. MaxSources + 1 /\ MaxSources \in Nat
    BY Zenon, LoopAssumption DEF LifeInv, TypeOK
  <2>4. nextId \in Ids /\ nextId \in Nat
    BY SMTT(60), SMTT(90), <2>1, <2>3 DEF Ids
  <2>5. QED
    BY Zenon, <2>1, <2>2, <2>4
<1>2. nextId \notin sources /\ nextId \notin freed
  BY SMTT(60), SMTT(90), <1>1 DEF LifeInv, TableInv, FreedExactlyOnce
<1>3. FreedExactlyOnce'
  <2>1. sources \cup freed = 1 .. nextId - 1 /\ sources \cap freed = {}
    BY Zenon DEF LifeInv, TableInv, FreedExactlyOnce
  <2>2. 1 .. nextId' - 1 = (1 .. nextId - 1) \cup {nextId}
    BY SMTT(60), SMTT(90), <1>1 DEF LifeInv, TypeOK
  <2>3. QED
    BY Zenon, <1>1, <1>2, <2>1, <2>2 DEF FreedExactlyOnce
<1>4. active' \subseteq sources'
  BY Zenon, <1>1 DEF LifeInv, TableInv
<1>5. \A s \in active : s # nextId /\ src'[s] = src[s]
  BY SMTT(60), SMTT(90), <1>1, <1>2 DEF LifeInv, TableInv, TypeOK
<1>6. src'[nextId].kind = k /\ src'[nextId].sock = sock
  BY ZenonT(60), <1>1 DEF LifeInv, TypeOK, Source
<1>7. /\ \A r : r \in registered <=>
                   \E u \in active : src[u].kind = "socket" /\ r = <<src[u].sock, u>>
      /\ \A r, q \in registered : r[1] = q[1] => r = q
  BY RegistrationElements DEF LifeInv, TableInv
<1>8. RegistrationsMatch'
  <2> DEFINE pairs == {<<src'[u].sock, u>> : u \in {v \in active' : src'[v].kind \in {"socket"}}}
  <2>1. registered' = pairs
    <3>1. active' = active \cup {nextId}
      BY ZenonT(60), <1>1
    <3>2. CASE k # "socket" /\ registered' = registered
      BY SMTT(60), SMTT(90), <1>5, <1>6, <1>7, <3>1, <3>2
    <3>3. CASE k = "socket" /\ registered' = registered \cup {<<sock, nextId>>}
      <4>1. \A r : r \in registered' <=> r \in registered \/ r = <<src'[nextId].sock, nextId>>
        BY Zenon, <1>6, <3>3
      <4>2. src'[nextId].kind = "socket"
        BY Zenon, <1>6, <3>3
      <4>3. \A r : r \in registered' <=>
                       \E u \in active' : src'[u].kind = "socket" /\ r = <<src'[u].sock, u>>
        BY ZenonT(60), <1>5, <1>7, <3>1, <4>1, <4>2
      <4>4. QED
        BY SMTT(60), SMTT(90), <4>3
    <3>4. QED
      BY Zenon, <3>2, <3>3
  <2>2. \A r, q \in registered' : r[1] = q[1] => r = q
    BY SMTT(60), SMTT(90), <1>7
  <2>3. QED
    BY <2>1, <2>2, Zenon DEF RegistrationsMatch, ActiveOf
<1>9. BatchInv'
  BY SMTT(60), SMTT(90), <1>1, <1>2 DEF LifeInv, BatchInv, TypeOK
<1>10. QED
  BY Zenon, <1>3, <1>4, <1>8, <1>9 DEF LifeInv, TableInv

\* Compaction, which only happens while no event is waiting to be handled and no
\* callback runs.
LEMMA CompactKeepsTable ==
    ASSUME TypeOK, TableInv, x_event_loop_compact,
           UNCHANGED <<active, src, nextId, registered>>
    PROVE  TableInv'
<1>1. sources \cup freed = 1 .. nextId - 1 /\ sources \cap freed = {}
  BY Zenon DEF TableInv, FreedExactlyOnce
<1>2. sources' = sources \cap active /\ freed' = freed \cup (sources \ active)
  BY Zenon DEF x_event_loop_compact
<1>3. sources' \cup freed' = sources \cup freed /\ sources' \cap freed' = {}
  BY Zenon, <1>1, <1>2
<1>4. FreedExactlyOnce'
  BY Zenon, <1>1, <1>3 DEF FreedExactlyOnce
<1>5. active' \subseteq sources'
  BY Zenon, <1>2 DEF TableInv
<1>6. RegistrationsMatch'
  BY Zenon DEF TableInv, RegistrationsMatch, ActiveOf
<1>7. QED
  BY Zenon, <1>4, <1>5, <1>6 DEF TableInv

\* Steps that leave the array, the flags and the registrations alone.
LEMMA SameTable ==
    ASSUME TableInv, UNCHANGED <<sources, active, freed, src, nextId, registered>>
    PROVE  TableInv'
BY Zenon DEF TableInv, FreedExactlyOnce, RegistrationsMatch, ActiveOf

\* Each step keeps LifeInv.
LEMMA LifeStep == LifeInv /\ SizeInv /\ [Next]_vars => LifeInv'
<1> USE LoopAssumption
<1> SUFFICES ASSUME LifeInv, SizeInv, [Next]_vars
             PROVE  LifeInv'
  OBVIOUS
<1> TypeOK' /\ TypeOK
  BY Zenon, TypeStep DEF LifeInv
<1> USE BoundsTyped DEF table, control, others
\* Steps that leave the table alone: only the batch is at stake.
<1>a. ASSUME UNCHANGED <<sources, active, freed, src, nextId, registered>>, BatchInv'
      PROVE  LifeInv'
  BY ZenonT(60), <1>a, SameTable DEF LifeInv
<1>b. ASSUME Leave, UNCHANGED <<sources, active, freed, src, nextId, registered>>
      PROVE  LifeInv'
  <2>1. BatchInv'
    BY Zenon, <1>b DEF Leave, BatchInv
  <2>2. QED
    BY Zenon, <1>a, <1>b, <2>1
<1>c. BatchInv
  BY Zenon DEF LifeInv
<1>1. CASE AddSource
  <2>1. ASSUME NEW s \in Sockets, x_event_loop_add_socket(s)
        PROVE  LifeInv'
    BY Zenon, <2>1, NewSourceKeepsLife DEF x_event_loop_add_socket
  <2>2. ASSUME NEW d \in Delays, NEW i \in Intervals, x_event_loop_add_timer(d, i)
        PROVE  LifeInv'
    BY Zenon, <2>2, NewSourceKeepsLife DEF x_event_loop_add_timer
  <2>3. ASSUME NEW i \in Intervals,
               x_event_loop_add_process(i) \/ x_event_loop_add_file_watcher(i)
        PROVE  LifeInv'
    BY Zenon, <2>3, NewSourceKeepsLife
       DEF x_event_loop_add_process, x_event_loop_add_file_watcher
  <2>4. QED
    BY ZenonT(60), <1>1, <2>1, <2>2, <2>3 DEF AddSource
<1>2. CASE AddSourceFails
  BY Zenon, <1>2, <1>a, <1>c DEF AddSourceFails, BatchInv
<1>3. ASSUME NEW s \in Ids, x_event_source_remove(s)
      PROVE  LifeInv'
  <2>1. s \in active /\ RemoveSource(s) /\ UNCHANGED <<sources, freed, src, nextId, control>>
    BY Zenon, <1>3 DEF x_event_source_remove, UserSources
  <2>2. TableInv'
    BY ZenonT(60), <2>1, RemoveKeepsTable DEF LifeInv
  <2>3. BatchInv'
    BY Zenon, <1>c, <2>1 DEF BatchInv
  <2>4. QED
    BY Zenon, <2>2, <2>3 DEF LifeInv
<1>4. CASE CallbackWakes \/ (\E t \in Threads : Other(t)) \/ Tick \/ \E s \in Ids : ChildExits(s)
  <2>1. UNCHANGED <<table, control>>
    BY ZenonT(60), <1>4 DEF CallbackWakes, Other, x_event_loop_wake, x_event_loop_cancel,
                CancelSends, Tick, ChildExits
  <2>2. QED
    BY Zenon, <1>a, <1>c, <2>1 DEF BatchInv
<1>5. CASE x_event_loop_run \/ EnterLoop
  BY ZenonT(60), <1>5, <1>a, <1>c DEF x_event_loop_run, EnterLoop, BatchInv
<1>6. CASE x_event_loop_destroy
  <2>1. batch = {} /\ batch' = {}
    BY ZenonT(60), <1>6, <1>c DEF x_event_loop_destroy, BatchInv
  <2>2. FreedExactlyOnce'
    BY Zenon, <1>6 DEF x_event_loop_destroy, LifeInv, TableInv, FreedExactlyOnce
  <2>3. RegistrationsMatch'
    BY Zenon, <1>6 DEF x_event_loop_destroy, RegistrationsMatch, ActiveOf
  <2>4. QED
    BY ZenonT(60), <1>6, <2>1, <2>2, <2>3
       DEF x_event_loop_destroy, LifeInv, TableInv, BatchInv
<1>7. CASE LoopTop
  BY Zenon, <1>7, <1>a, <1>b, <1>c DEF LoopTop, BatchInv
<1>8. CASE StartPass
  BY Zenon, <1>8, <1>a, <1>b, <1>c DEF StartPass, BatchInv
<1>9. ASSUME NEW s \in Ids, PollSource(s)
      PROVE  LifeInv'
  <2>1. pc = "timers" /\ s \in sources /\ batch = {}
    BY Zenon, <1>9, <1>c DEF PollSource, Visit, DueSources, BatchInv
  <2>2. UNCHANGED <<sources, active, freed, src, nextId, registered>>
    BY ZenonT(60), <1>9 DEF PollSource
  <2>3. BatchInv'
    BY ZenonT(60), <1>9, <1>c, <2>1, <2>2 DEF PollSource, Dispatch, Leave, BatchInv
  <2>4. QED
    BY Zenon, <1>a, <2>2, <2>3
<1>10. ASSUME NEW s \in Ids, FireTimer(s)
       PROVE  LifeInv'
  <2>1. pc = "timers" /\ s \in sources /\ batch = {}
    BY ZenonT(60), <1>10, <1>c DEF FireTimer, Visit, DueSources, BatchInv
  <2>2. BatchInv'
    BY ZenonT(60), <1>10, <2>1 DEF FireTimer, Dispatch, BatchInv
  <2>3. QED
    BY ZenonT(60), <1>10, <1>a, <2>2 DEF FireTimer
<1>11. ASSUME NEW s \in Ids, HandleEvent(s)
       PROVE  LifeInv'
  <2>1. s \in sources /\ batch' \subseteq sources
    BY ZenonT(60), <1>11, <1>c DEF HandleEvent, BatchInv
  <2>2. src[s].kind = "socket"
    BY Zenon, <1>11, <1>c DEF HandleEvent, BatchInv
  <2>3. BatchInv'
    BY Zenon, <1>11, <1>c, <2>1, <2>2 DEF HandleEvent, Dispatch, BatchInv
  <2>4. QED
    BY ZenonT(60), <1>11, <1>a, <2>3 DEF HandleEvent
<1>12. CASE CallbackReturns
  <2>1. pc = "callback" /\ cb \in sources
    BY ZenonT(60), <1>12, <1>c DEF CallbackReturns, BatchInv
  <2>2. UNCHANGED <<sources, freed, src, nextId, batch>>
    BY ZenonT(60), <1>12 DEF CallbackReturns
  <2>3. TableInv'
    <3>1. CASE UNCHANGED <<active, registered>>
      BY Zenon, <2>2, <3>1, SameTable DEF LifeInv
    <3>2. CASE cb \in active /\ RemoveSource(cb)
      BY Zenon, <2>2, <3>2, RemoveKeepsTable DEF LifeInv
    <3>3. QED
      BY ZenonT(60), <1>12, <3>1, <3>2 DEF CallbackReturns
  <2>4. BatchInv'
    BY ZenonT(60), <1>12, <1>c, <2>1, <2>2 DEF CallbackReturns, BatchInv
  <2>5. QED
    BY Zenon, <2>3, <2>4 DEF LifeInv
<1>13. CASE CallbackFails
  BY ZenonT(60), <1>13, <1>b DEF CallbackFails
<1>14. CASE AdvanceTimer
  BY ZenonT(60), <1>14, <1>a, <1>c DEF AdvanceTimer, BatchInv
\* Both passes end with an empty batch and no callback, so compact may free.
<1>15. CASE EndFirstPass
  <2>1. batch = {}
    BY ZenonT(60), <1>15, <1>c DEF EndFirstPass, BatchInv
  <2>2. CASE stop_requested
    BY Zenon, <1>15, <1>b, <2>2 DEF EndFirstPass
  <2>3. CASE ~stop_requested
    <3>1. TableInv'
      BY Zenon, <1>15, <2>3, CompactKeepsTable DEF EndFirstPass, LifeInv
    <3>2. batch' = {} /\ pc' \in {"idle", "wait"}
      BY ZenonT(60), <1>15, <2>1, <2>3 DEF EndFirstPass, EnterWait, Leave
    <3>3. QED
      BY Zenon, <3>1, <3>2 DEF LifeInv, BatchInv
  <2>4. QED
    BY ZenonT(60), <2>2, <2>3 DEF TypeOK
<1>16. CASE EndSecondPass
  <2>1. batch' = {}
    BY Zenon, <1>16, <1>c DEF EndSecondPass, BatchInv
  <2>2. TableInv'
    BY Zenon, <1>16, CompactKeepsTable DEF EndSecondPass, LifeInv
  <2>3. QED
    BY Zenon, <1>16, <2>1, <2>2 DEF EndSecondPass, LifeInv, BatchInv
<1>17. CASE EndBatch
  BY Zenon, <1>17, <1>a, <1>c DEF EndBatch, BatchInv
\* epoll reports pointers it was given: active socket sources.
<1>18. CASE WaitReady \/ WaitWoken \/ WaitTimesOut \/ WaitInterrupted
  <2>1. \A r \in registered : r[2] \in sources /\ src[r[2]].kind = "socket"
    BY SMTT(60), SMTT(90), RegistrationElements DEF LifeInv, TableInv
  <2>2. PICK pointers \in SUBSET {r[2] : r \in registered} : WaitReturns(pointers)
    BY Zenon, <1>18 DEF WaitReady, WaitWoken, WaitTimesOut, WaitInterrupted
  <2>3. \A s \in pointers : s \in sources /\ src[s].kind = "socket"
    BY Zenon, <2>1
  <2>4. BatchInv'
    BY Zenon, <2>2, <2>3 DEF WaitReturns, BatchInv
  <2>5. QED
    BY Zenon, <1>a, <2>2, <2>4 DEF WaitReturns
<1>19. CASE WaitFails
  BY ZenonT(60), <1>19, <1>b DEF WaitFails
<1>20. CASE x_event_loop_wake_callback
  BY ZenonT(60), <1>20, <1>a, <1>b, <1>c DEF x_event_loop_wake_callback, BatchInv
<1>21. CASE UNCHANGED vars
  BY Zenon, <1>21, <1>a, <1>c DEF vars, BatchInv
<1>22. QED
  BY ZenonT(60), <1>1, <1>2, <1>3, <1>4, <1>5, <1>6, <1>7, <1>8, <1>9, <1>10, <1>11, <1>12,
     <1>13, <1>14, <1>15, <1>16, <1>17, <1>18, <1>19, <1>20, <1>21
     DEF Next, Client, Owner, Environment, Terminated

\* LifeInv holds at the start, and always.
LEMMA LifeInvariant == Spec => []LifeInv
<1>1. Init => LifeInv
  <2> SUFFICES ASSUME Init PROVE LifeInv
    OBVIOUS
  <2>1. TypeOK
    BY Zenon, TypeInit
  <2>2. FreedExactlyOnce /\ active \subseteq sources
    BY SMTT(60), SMTT(90) DEF Init, FreedExactlyOnce, WakeSource
  <2>3. src[WakeSource].kind = "socket" /\ src[WakeSource].sock = WakeSocket
    BY SMTT(60), SMTT(90), LoopAssumption DEF Init, Source, Ids, WakeSource
  <2>4. ActiveOf({"socket"}) = {WakeSource}
    BY Zenon, <2>3 DEF Init, ActiveOf
  <2>5. {<<src[s].sock, s>> : s \in {WakeSource}} = {<<WakeSocket, WakeSource>>}
    BY Zenon, <2>3
  <2>6. RegistrationsMatch
    BY Zenon, <2>4, <2>5 DEF Init, RegistrationsMatch
  <2>7. QED
    BY Zenon, <2>1, <2>2, <2>6 DEF Init, LifeInv, TableInv, BatchInv
<1>2. QED
  BY <1>1, LifeStep, TypeInit, TypeStep, PTL DEF Spec

\* No pointer the loop, the kernel or a batch of events still holds leads to freed
\* memory, whatever callbacks remove: x_event_source_remove frees nothing, and
\* x_event_loop_compact runs only where no pointer is held.
THEOREM NoDanglingPointer == Spec => []NoUseAfterFree
<1>1. LifeInv => NoUseAfterFree
  <2> SUFFICES ASSUME LifeInv PROVE NoUseAfterFree
    BY Zenon
  <2>1. \A r \in registered : r[2] \in sources
    BY SMTT(60), SMTT(90), RegistrationElements DEF LifeInv, TableInv
  <2>2. Held \subseteq sources
    BY Zenon, <2>1 DEF Held, LifeInv, BatchInv
  <2>3. QED
    BY Zenon, <2>2 DEF LifeInv, TableInv, FreedExactlyOnce, NoUseAfterFree
<1>2. QED
  BY <1>1, LifeInvariant, PTL

\* Every source ever added is in the array or freed, never both: x_event_loop_run
\* leaks nothing on any of its exits and nothing is freed twice.
THEOREM SourcesFreedOnce == Spec => []FreedExactlyOnce
<1>1. LifeInv => FreedExactlyOnce
  BY Zenon DEF LifeInv, TableInv
<1>2. QED
  BY <1>1, LifeInvariant, PTL

\* epoll always watches exactly the active socket sources.
THEOREM KernelAgrees == Spec => []RegistrationsMatch
<1>1. LifeInv => RegistrationsMatch
  BY Zenon DEF LifeInv, TableInv
<1>2. QED
  BY <1>1, LifeInvariant, PTL

(***************************************************************************)
(* Stopping.  The invariant is inductive: the loop goes to sleep only when *)
(* the flag is clear, and whoever sets it afterwards sends a datagram that *)
(* nobody takes from the queue while the loop sleeps.                      *)
(***************************************************************************)
\* The loop never sleeps on a request to stop: between reading stop_requested and
\* epoll_wait no wakeup is lost, because x_event_loop_cancel sets the flag before
\* it sends.
THEOREM NoSleepAfterStop == Spec => []StopNeverSleeps
<1>1. Init => StopNeverSleeps
  BY Zenon DEF Init, StopNeverSleeps
<1>2. TypeOK /\ StopNeverSleeps /\ [Next]_vars => StopNeverSleeps'
  <2> SUFFICES ASSUME TypeOK, StopNeverSleeps, [Next]_vars
               PROVE  StopNeverSleeps'
    OBVIOUS
  <2> USE DEF control, others
  <2>1. ASSUME UNCHANGED <<pc, stop_requested, queue, thread, wakeFailed>>
        PROVE  StopNeverSleeps'
    BY Zenon, <2>1 DEF StopNeverSleeps
  <2>2. ASSUME pc' # "wait"
        PROVE  StopNeverSleeps'
    BY Zenon, <2>2 DEF StopNeverSleeps
  <2>3. CASE Client
    <3>1. CASE AddSource
      BY ZenonT(60), <2>1, <3>1
         DEF AddSource, x_event_loop_add_socket, x_event_loop_add_timer,
                        x_event_loop_add_process, x_event_loop_add_file_watcher, NewSource
    <3>2. CASE AddSourceFails \/ \E s \in Ids : x_event_source_remove(s)
      BY Zenon, <2>1, <3>2 DEF AddSourceFails, x_event_source_remove
    <3>3. CASE CallbackWakes \/ x_event_loop_run \/ x_event_loop_destroy
      BY Zenon, <2>2, <3>3 DEF CallbackWakes, x_event_loop_run, x_event_loop_destroy
    <3>4. CASE Terminated
      BY Zenon, <2>1, <3>4 DEF Terminated, vars
    <3>5. QED
      BY Zenon, <2>3, <3>1, <3>2, <3>3, <3>4 DEF Client
  <2>4. CASE EndFirstPass
    <3>1. CASE stop_requested
      BY Zenon, <2>2, <2>4, <3>1 DEF EndFirstPass, Leave
    <3>2. CASE ~stop_requested
      BY Zenon, <2>4, <3>2 DEF EndFirstPass, StopNeverSleeps
    <3>3. QED
      BY Zenon, <3>1, <3>2
  <2>5. CASE EnterLoop \/ LoopTop \/ StartPass
    BY Zenon, <2>2, <2>5 DEF EnterLoop, LoopTop, StartPass, Leave
  <2>6. ASSUME NEW s \in Ids, PollSource(s) \/ FireTimer(s) \/ HandleEvent(s)
        PROVE  StopNeverSleeps'
    BY ZenonT(60), <2>2, <2>6 DEF PollSource, FireTimer, HandleEvent, Visit, Dispatch, Leave
  <2>7. CASE CallbackReturns \/ CallbackFails \/ AdvanceTimer \/ EndSecondPass \/ EndBatch
    BY ZenonT(60), <2>2, <2>7
       DEF CallbackReturns, CallbackFails, AdvanceTimer, EndSecondPass,
                      EndBatch, Leave
  <2>8. CASE \/ WaitWoken \/ WaitTimesOut \/ WaitReady \/ WaitInterrupted \/ WaitFails
             \/ x_event_loop_wake_callback
    BY ZenonT(60), <2>2, <2>8
       DEF WaitWoken, WaitTimesOut, WaitReady, WaitInterrupted, WaitReturns,
                      WaitFails, x_event_loop_wake_callback, Leave
  <2>9. CASE Tick \/ \E s \in Ids : ChildExits(s)
    BY Zenon, <2>1, <2>9 DEF Tick, ChildExits
  <2>10. ASSUME NEW t \in Threads, Other(t)
         PROVE  StopNeverSleeps'
    <3>1. SendWake => queue' > 0 /\ queue' >= queue
      BY SMTT(60), SMTT(90), LoopAssumption DEF SendWake, TypeOK
    <3>2. CASE x_event_loop_wake(t)
      BY Zenon, <3>1, <3>2 DEF x_event_loop_wake, StopNeverSleeps
    <3>3. CASE x_event_loop_cancel(t)
      BY Zenon, <3>3 DEF x_event_loop_cancel, StopNeverSleeps, TypeOK
    <3>4. CASE CancelSends(t)
      BY Zenon, <3>1, <3>4 DEF CancelSends, StopNeverSleeps, TypeOK
    <3>5. QED
      BY ZenonT(60), <2>10, <3>2, <3>3, <3>4 DEF Other
  <2>11. CASE UNCHANGED vars
    BY Zenon, <2>1, <2>11 DEF vars
  <2>12. QED
    BY ZenonT(60), <2>3, <2>4, <2>5, <2>6, <2>7, <2>8, <2>9, <2>10, <2>11 DEF Next, Owner, Environment
<1>3. QED
  BY <1>1, <1>2, TypeCorrect, PTL DEF Spec

(***************************************************************************)
(* Dispatching.                                                            *)
(***************************************************************************)
\* How a callback can start.
LEMMA DispatchStarts ==
    ASSUME [Next]_vars, pc' = "callback", pc # "callback"
    PROVE  cb' \in active /\ UNCHANGED <<active, completed, nextId>>
<1> USE DEF control
<1>1. ASSUME NEW s \in Ids, PollSource(s) \/ FireTimer(s)
      PROVE  cb' \in active /\ UNCHANGED <<active, completed, nextId>>
  BY ZenonT(60), <1>1
     DEF PollSource, FireTimer, Visit, DueSources, ActiveOf, Dispatch, Leave, table
<1>2. ASSUME NEW s \in Ids, HandleEvent(s)
      PROVE  cb' \in active /\ UNCHANGED <<active, completed, nextId>>
  BY Zenon, <1>2 DEF HandleEvent, Dispatch, table
<1>3. ~Client
  BY ZenonT(60) DEF Client, AddSource, x_event_loop_add_socket, x_event_loop_add_timer,
         x_event_loop_add_process, x_event_loop_add_file_watcher, NewSource,
         AddSourceFails, x_event_source_remove, CallbackWakes, x_event_loop_run,
         x_event_loop_destroy, Terminated, vars
<1>4. ~(EnterLoop \/ LoopTop \/ StartPass \/ CallbackReturns \/ CallbackFails)
  BY ZenonT(60) DEF EnterLoop, LoopTop, StartPass, CallbackReturns, CallbackFails, Leave
<1>5. ~(AdvanceTimer \/ EndFirstPass \/ EndSecondPass \/ EndBatch)
  BY ZenonT(60) DEF AdvanceTimer, EndFirstPass, EnterWait, EndSecondPass, EndBatch, Leave
<1>6. ~(\/ WaitWoken \/ WaitTimesOut \/ WaitReady \/ WaitInterrupted \/ WaitFails
        \/ x_event_loop_wake_callback)
  BY ZenonT(60)
     DEF WaitWoken, WaitTimesOut, WaitReady, WaitInterrupted, WaitReturns, WaitFails,
         x_event_loop_wake_callback, Leave
<1>7. ~(Tick \/ \E s \in Ids : ChildExits(s))
  BY ZenonT(60) DEF Tick, ChildExits
<1>8. ~(\E t \in Threads : Other(t))
  BY Zenon DEF Other, x_event_loop_wake, x_event_loop_cancel, CancelSends
<1>9. ~UNCHANGED vars
  BY Zenon DEF vars
<1>10. QED
  BY ZenonT(60), <1>1, <1>2, <1>3, <1>4, <1>5, <1>6, <1>7, <1>8, <1>9
     DEF Next, Owner, Environment

\* No callback starts for a source that has been removed: both dispatch_timers and
\* wait_sockets look at the active field last thing before they dispatch.
THEOREM OnlyActiveDispatched == Spec => RemovedNeverDispatched
<1>1. [Next]_vars => [pc' = "callback" /\ pc # "callback" => cb' \in active]_vars
  BY Zenon, DispatchStarts
<1>2. QED
  BY <1>1, PTL DEF Spec, RemovedNeverDispatched

\* CompletesOnce needs to know that completed sources were allocated, so that a
\* new source is not among them.
OnceInv == completed \subseteq 1 .. nextId - 1 /\ CompletesOnce

\* Each step keeps OnceInv.
LEMMA OnceStep == LifeInv /\ OnceInv /\ [Next]_vars => OnceInv'
<1> SUFFICES ASSUME LifeInv, OnceInv, [Next]_vars
             PROVE  OnceInv'
  OBVIOUS
<1> USE BoundsTyped DEF table, control, others
<1>a. nextId \in Nat /\ completed \cap active = {}
  BY SMTT(60), SMTT(90) DEF LifeInv, TypeOK, OnceInv, CompletesOnce
\* Steps that start no callback, complete nothing and activate nothing.
<1>b. ASSUME UNCHANGED <<nextId, completed>>, active' \subseteq active,
             pc' = "callback" => pc = "callback" /\ cb' = cb
      PROVE  OnceInv'
  BY Zenon, <1>b DEF OnceInv, CompletesOnce
<1>1. CASE pc' = "callback" /\ pc # "callback"
  <2>1. cb' \in active /\ UNCHANGED <<active, completed, nextId>>
    BY Zenon, <1>1, DispatchStarts
  <2>2. QED
    BY Zenon, <1>1, <1>a, <2>1 DEF OnceInv, CompletesOnce
<1>2. CASE ~(pc' = "callback" /\ pc # "callback")
  <2>1. CASE AddSource
    <3>1. PICK fields, due_ns : NewSource(fields, due_ns)
      BY Zenon, <2>1 DEF AddSource, x_event_loop_add_socket, x_event_loop_add_timer,
                  x_event_loop_add_process, x_event_loop_add_file_watcher
    <3>2. /\ nextId' = nextId + 1 /\ active' = active \cup {nextId}
          /\ UNCHANGED <<completed, pc, cb>>
      BY Zenon, <3>1 DEF NewSource
    <3>3. nextId \notin completed
      BY <1>a DEF OnceInv
    <3>4. completed' \subseteq 1 .. nextId' - 1
      BY <1>a, <3>2 DEF OnceInv
    <3>5. CompletesOnce'
      BY Zenon, <3>2, <3>3 DEF OnceInv, CompletesOnce
    <3>6. QED
      BY Zenon, <3>4, <3>5 DEF OnceInv
  <2>2. CASE AddSourceFails \/ \E s \in Ids : x_event_source_remove(s)
    BY ZenonT(60), <1>b, <2>2 DEF AddSourceFails, x_event_source_remove, RemoveSource
  <2>3. CASE CallbackWakes \/ x_event_loop_run \/ x_event_loop_destroy
    BY Zenon, <1>b, <2>3 DEF CallbackWakes, x_event_loop_run, x_event_loop_destroy
  <2>4. CASE EnterLoop \/ LoopTop \/ StartPass \/ CallbackFails
    BY ZenonT(60), <1>b, <2>4 DEF EnterLoop, LoopTop, StartPass, CallbackFails, Leave
  <2>5. ASSUME NEW s \in Ids, PollSource(s) \/ FireTimer(s) \/ HandleEvent(s)
        PROVE  OnceInv'
    BY ZenonT(60), <1>2, <1>b, <2>5 DEF PollSource, FireTimer, HandleEvent, Visit
  \* The source that completes is removed, and its callback is over.
  <2>6. CASE CallbackReturns
    <3>1. pc = "callback" /\ cb \in sources /\ cb \in 1 .. nextId - 1
      BY ZenonT(60), <2>6 DEF CallbackReturns, LifeInv, BatchInv, TableInv, FreedExactlyOnce
    <3>2. pc' # "callback" /\ UNCHANGED nextId
      BY Zenon, <2>6 DEF CallbackReturns
    <3>3. CASE UNCHANGED completed /\ active' \subseteq active
      BY Zenon, <1>b, <3>2, <3>3
    <3>4. CASE completed' = completed \cup {cb} /\ active' = active \ {cb}
      BY Zenon, <1>a, <3>1, <3>2, <3>4 DEF OnceInv, CompletesOnce
    <3>5. QED
      BY ZenonT(60), <2>6, <3>3, <3>4 DEF CallbackReturns, RemoveSource
  <2>7. CASE AdvanceTimer \/ EndFirstPass \/ EndSecondPass \/ EndBatch
    BY ZenonT(60), <1>b, <2>7
       DEF AdvanceTimer, EndFirstPass, EnterWait, EndSecondPass, EndBatch, Leave
  <2>8. CASE \/ WaitWoken \/ WaitTimesOut \/ WaitReady \/ WaitInterrupted \/ WaitFails
             \/ x_event_loop_wake_callback
    BY ZenonT(60), <1>b, <2>8
       DEF WaitWoken, WaitTimesOut, WaitReady, WaitInterrupted, WaitReturns,
                      WaitFails, x_event_loop_wake_callback, Leave
  <2>9. CASE Tick \/ (\E s \in Ids : ChildExits(s)) \/ \E t \in Threads : Other(t)
    BY ZenonT(60), <1>b, <2>9
       DEF Tick, ChildExits, Other, x_event_loop_wake, x_event_loop_cancel,
                      CancelSends
  <2>10. CASE UNCHANGED vars
    BY Zenon, <1>b, <2>10 DEF vars
  <2>11. QED
    BY ZenonT(60), <2>1, <2>2, <2>3, <2>4, <2>5, <2>6, <2>7, <2>8, <2>9, <2>10
       DEF Next, Client, Owner, Environment, Terminated
<1>3. QED
  BY ZenonT(60), <1>1, <1>2

\* A one-shot timer fires to completion once, and the exit of a child is reported
\* to completion once.
THEOREM OneShotsCompleteOnce == Spec => []CompletesOnce
<1>1. Init => OnceInv
  BY Zenon DEF Init, OnceInv, CompletesOnce
<1>2. OnceInv => CompletesOnce
  BY Zenon DEF OnceInv
<1>3. QED
  BY <1>1, <1>2, OnceStep, LifeInvariant, PTL DEF Spec

==============================================================================
