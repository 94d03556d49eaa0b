-------------------------- MODULE EventTimingProofs --------------------------
(***************************************************************************)
(* Proofs about the due times of EventLoop: what a pass over the sources   *)
(* leaves, how long the loop sleeps, and how timers advance.               *)
(***************************************************************************)
EXTENDS EventLoopProofs

(***************************************************************************)
(* Due times.  A callback adds, removes and reschedules sources in the     *)
(* middle of a pass, so the invariant says where the pass is: the sources  *)
(* up to the cursor are not due any more, except the one whose callback is *)
(* running, and whatever a callback adds comes after the cursor.           *)
(*                                                                         *)
(* The hypothesis NoWrap excludes delays and intervals so long that a due  *)
(* time passes UINT64_MAX.  It is needed: a polled source whose interval   *)
(* saturates is rescheduled into the past, and still due when the loop     *)
(* goes to sleep.                                                          *)
(***************************************************************************)
NoWrap ==
    \A ms \in Delays \cup Intervals \cup {PROCESS_MS, FILE_MS} :
        MaxClock + x_event_ms_to_ns(ms) + NS_PER_MS <= UINT64_MAX

\* No due time is near the end of the range, and no interval leads there.
DueInv ==
    \A s \in Ids :
        /\ due[s] + NS_PER_MS <= UINT64_MAX
        /\ MaxClock + src[s].interval + NS_PER_MS <= UINT64_MAX
        /\ src[s].kind \in {"process", "file"} => src[s].interval > 0

PassInv ==
    /\ now <= clock
    /\ cursor < nextId
    /\ pc \in {"timers", "callback", "advance"} =>
           \A s \in ActiveOf(Timed) : s <= cursor => s = cb \/ due[s] > now
    /\ pc \in {"callback", "advance"} =>
           IF src[cb].kind \in Timed
           THEN cb = cursor /\ due[cb] <= now
           ELSE cursor = NoSource
    /\ pc = "advance" => src[cb].kind = "timer" /\ src[cb].interval # 0
    /\ pc \in {"wait", "batch", "drain"} => cursor = NoSource
    /\ PassLeavesNothingDue

TimingInv == NoWrap /\ DueInv /\ PassInv /\ WaitEndsWithNextDue

\* A sum that stays within the range does not wrap around.
LEMMA AddWithoutWrap ==
    ASSUME NEW a \in Nat, NEW b \in Nat, a + b <= UINT64_MAX
    PROVE  AddNs(a, b) = a + b
BY SMTT(60), SMTT(90), TimeAssumption DEF AddNs

\* A positive number of milliseconds is a positive number of nanoseconds.
LEMMA MsToNsPositive ==
    ASSUME NEW ms \in Nat \ {0}
    PROVE  x_event_ms_to_ns(ms) > 0
<1>1. ms * NS_PER_MS > 0
  BY SMTT(60), SMTT(90), TimeAssumption
<1>2. QED
  BY SMTT(60), SMTT(90), <1>1, TimeAssumption DEF x_event_ms_to_ns

\* x_event_loop_add_*: the due time of a new source and its interval do not
\* wrap around, and a polled source has an interval.
LEMMA NewSourceDue ==
    ASSUME TypeOK, NoWrap, AddSource
    PROVE  \E fields, due_ns :
              /\ NewSource(fields, due_ns)
              /\ due_ns \in Nat /\ due_ns + NS_PER_MS <= UINT64_MAX
              /\ fields.interval \in Nat
              /\ MaxClock + fields.interval + NS_PER_MS <= UINT64_MAX
              /\ fields.kind \in {"process", "file"} => fields.interval > 0
<1>0. /\ clock \in Nat /\ clock <= MaxClock /\ MaxClock \in Nat /\ NS_PER_MS \in Nat
      /\ UINT64_MAX \in Nat /\ {PROCESS_MS, FILE_MS} \subseteq Nat \ {0}
      /\ Delays \subseteq Nat /\ Intervals \subseteq Nat
  BY SMTT(60), SMTT(90), LoopAssumption, TimeAssumption DEF TypeOK
<1>1. ASSUME NEW ms \in Delays \cup Intervals \cup {PROCESS_MS, FILE_MS}
      PROVE  /\ x_event_ms_to_ns(ms) \in Nat
             /\ MaxClock + x_event_ms_to_ns(ms) + NS_PER_MS <= UINT64_MAX
             /\ AddNs(clock, x_event_ms_to_ns(ms)) = clock + x_event_ms_to_ns(ms)
  <2>1. x_event_ms_to_ns(ms) \in Nat
    BY SMTT(60), SMTT(90), <1>0, MsToNsType DEF Time
  <2>2. MaxClock + x_event_ms_to_ns(ms) + NS_PER_MS <= UINT64_MAX
    BY Zenon DEF NoWrap
  <2>3. QED
    BY SMTT(60), SMTT(90), <1>0, <2>1, <2>2, AddWithoutWrap
<1>2. MaxClock + NS_PER_MS <= UINT64_MAX
  BY SMTT(60), SMTT(90), <1>0, <1>1
<1>3. ASSUME NEW i \in Intervals, NEW default \in {PROCESS_MS, FILE_MS}
      PROVE  /\ PollInterval(i, default) \in Nat /\ PollInterval(i, default) > 0
             /\ MaxClock + PollInterval(i, default) + NS_PER_MS <= UINT64_MAX
  <2>1. CASE i = 0
    BY Zenon, <1>0, <1>1, <2>1, MsToNsPositive DEF PollInterval
  <2>2. CASE i # 0
    BY Zenon, <1>0, <1>1, <2>2, MsToNsPositive DEF PollInterval
  <2>3. QED
    BY Zenon, <2>1, <2>2
<1>4. ASSUME NEW s, x_event_loop_add_socket(s)
      PROVE  NewSource(Source("socket", s, 0), 0)
  BY Zenon, <1>4 DEF x_event_loop_add_socket
<1>5. ASSUME NEW k, NEW s, NEW i
      PROVE  Source(k, s, i).kind = k /\ Source(k, s, i).interval = i
  BY Zenon DEF Source
<1>6. CASE \E s \in Sockets : x_event_loop_add_socket(s)
  <2>1. PICK s \in Sockets : NewSource(Source("socket", s, 0), 0)
    BY Zenon, <1>4, <1>6
  <2>2. QED
    BY SMTT(60), SMTT(90), <1>0, <1>2, <1>5, <2>1
<1>7. CASE \E d \in Delays, i \in Intervals : x_event_loop_add_timer(d, i)
  <2>1. PICK d \in Delays, i \in Intervals :
            NewSource(Source("timer", WakeSocket, x_event_ms_to_ns(i)),
                      AddNs(clock, x_event_ms_to_ns(d)))
    BY Zenon, <1>7 DEF x_event_loop_add_timer
  <2>2. /\ AddNs(clock, x_event_ms_to_ns(d)) \in Nat
        /\ AddNs(clock, x_event_ms_to_ns(d)) + NS_PER_MS <= UINT64_MAX
    BY SMTT(60), SMTT(90), <1>0, <1>1
  <2>3. QED
    BY SMTT(60), SMTT(90), <1>1, <1>5, <2>1, <2>2
<1>8. CASE \E i \in Intervals : x_event_loop_add_process(i)
  <2>1. PICK i \in Intervals :
            NewSource(Source("process", WakeSocket, PollInterval(i, PROCESS_MS)), clock)
    BY Zenon, <1>8 DEF x_event_loop_add_process
  <2>2. QED
    BY SMTT(60), SMTT(90), <1>0, <1>2, <1>3, <1>5, <2>1
<1>9. CASE \E i \in Intervals : x_event_loop_add_file_watcher(i)
  <2>1. PICK i \in Intervals :
            NewSource(Source("file", WakeSocket, PollInterval(i, FILE_MS)), clock)
    BY Zenon, <1>9 DEF x_event_loop_add_file_watcher
  <2>2. QED
    BY SMTT(60), SMTT(90), <1>0, <1>2, <1>3, <1>5, <2>1
<1>10. QED
  BY <1>6, <1>7, <1>8, <1>9, ZenonT(60) DEF AddSource

\* A polled source that is rescheduled, or whose interval has been added to a due
\* time that has passed, gets a due time that does not wrap around.
LEMMA RescheduledDue ==
    ASSUME TypeOK, DueInv, NEW s \in Ids, NEW t \in Nat, t <= MaxClock
    PROVE  /\ AddNs(t, src[s].interval) = t + src[s].interval
           /\ src[s].interval \in Nat
           /\ AddNs(t, src[s].interval) + NS_PER_MS <= UINT64_MAX
<1>1. src[s].interval \in Nat /\ MaxClock + src[s].interval + NS_PER_MS <= UINT64_MAX
  BY SMTT(60), SMTT(90) DEF TypeOK, DueInv, Time
<1>2. MaxClock \in Nat /\ NS_PER_MS \in Nat /\ UINT64_MAX \in Nat
  BY Zenon, LoopAssumption, TimeAssumption
<1>3. t + src[s].interval <= UINT64_MAX
  BY SMTT(60), SMTT(90), <1>1, <1>2
<1>4. QED
  BY SMTT(60), SMTT(90), <1>1, <1>2, <1>3, AddWithoutWrap

\* x_event_loop_next_timeout_ms: what holds when epoll_wait is entered.
LEMMA EnterWaitDeadline ==
    ASSUME TypeOK, DueInv, now <= clock, EnterWait,
           UNCHANGED <<active, src, due, clock>>
    PROVE  WaitEndsWithNextDue'
<1> DEFINE timed == ActiveOf(Timed)
           dues == {due[s] : s \in timed}
           ms == x_event_loop_next_timeout_ms(dues, clock)
<1>1. /\ clock \in Nat /\ now \in Nat /\ NS_PER_MS \in Nat \ {0} /\ INT_MAX \in Nat \ {0}
      /\ UINT64_MAX \in Nat /\ clock \in Time
  BY SMTT(60), SMTT(90), TimeAssumption, ClockIsTime DEF TypeOK
<1>2. timed \subseteq Ids /\ \A s \in timed : due[s] \in Time /\ due[s] \in dues
  BY Zenon DEF TypeOK, ActiveOf
<1>3. dues \in SUBSET Time
  BY Zenon, <1>2
<1>4. \A d \in dues : \E s \in timed : d = due[s]
  OBVIOUS
<1>5. timed' = timed /\ due' = due /\ clock' = clock /\ now' = now
  BY Zenon DEF ActiveOf, EnterWait
<1>6. deadline' = IF ms = NoTimeout THEN NoDeadline ELSE clock + ms * NS_PER_MS
  BY Zenon DEF EnterWait
<1>7. (dues = {}) = (timed = {})
  BY Zenon, <1>2, <1>4
<1> HIDE DEF timed, dues, ms
<1>8. /\ dues = {} => ms = NoTimeout
      /\ dues # {} => ms \in 0 .. INT_MAX
      /\ \A d \in dues : d > clock => ms * NS_PER_MS < d - clock + NS_PER_MS
      /\ (/\ dues # {} /\ ms < INT_MAX
          /\ \A d \in dues : d - clock + NS_PER_MS <= UINT64_MAX)
             => \E d \in dues : d <= clock + ms * NS_PER_MS
  BY Zenon, <1>1, <1>3, TimeoutBounds DEF ms
<1>9. CASE dues = {}
  <2>1. timed' = {} /\ deadline' = NoDeadline
    BY ZenonT(60), <1>5, <1>6, <1>7, <1>8, <1>9
  <2>2. QED
    BY Zenon, <2>1 DEF WaitEndsWithNextDue, timed
<1>10. CASE dues # {}
  <2>1. ms \in Nat /\ ms <= INT_MAX /\ ms # NoTimeout /\ ms * NS_PER_MS \in Nat
    BY SMTT(60), SMTT(90), <1>1, <1>8, <1>10 DEF NoTimeout
  <2>2. deadline' = clock + ms * NS_PER_MS /\ deadline' # NoDeadline /\ deadline' \in Nat
    BY SMTT(60), SMTT(90), <1>1, <1>6, <2>1 DEF NoDeadline
  <2>3. ASSUME NEW d \in dues
        PROVE  d \in Nat /\ (d <= clock => ms = 0)
    <3>1. d \in Nat
      BY SMTT(60), SMTT(90), <1>3 DEF Time
    <3>2. d <= clock => ms = 0
      BY Zenon, <1>10 DEF ms, x_event_loop_next_timeout_ms
    <3>3. QED
      BY Zenon, <3>1, <3>2
  <2>4. ASSUME NEW s \in timed
        PROVE  deadline' <= clock \/ deadline' < due[s] + NS_PER_MS
    <3>1. CASE due[s] <= clock
      BY SMTT(60), SMTT(90), <1>1, <1>2, <2>2, <2>3, <3>1
    <3>2. CASE due[s] > clock
      BY SMTT(60), SMTT(90), <1>1, <1>2, <1>8, <2>1, <2>2, <2>3, <3>2
    <3>3. QED
      BY SMTT(60), SMTT(90), <1>1, <1>2, <2>3, <3>1, <3>2
  <2>5. \/ \E s \in timed : due[s] <= deadline'
        \/ deadline' >= now + INT_MAX * NS_PER_MS
    <3>1. CASE ms = INT_MAX
      <4>1. INT_MAX * NS_PER_MS \in Nat /\ ms * NS_PER_MS = INT_MAX * NS_PER_MS
        BY SMTT(60), SMTT(90), <1>1, <3>1
      <4>2. QED
        BY SMTT(60), SMTT(90), <1>1, <2>1, <2>2, <4>1
    <3>2. CASE ms # INT_MAX
      <4>1. \A d \in dues : d - clock + NS_PER_MS <= UINT64_MAX
        <5>1. ASSUME NEW d \in dues
              PROVE  d + NS_PER_MS <= UINT64_MAX
          BY Zenon, <1>2, <1>4 DEF DueInv
        <5>2. QED
          BY SMTT(60), SMTT(90), <1>1, <2>3, <5>1
      <4>2. PICK d \in dues : d <= clock + ms * NS_PER_MS
        BY SMTT(60), SMTT(90), <1>1, <1>8, <1>10, <2>1, <3>2, <4>1
      <4>3. PICK s \in timed : d = due[s]
        BY <1>4, Zenon
      <4>4. QED
        BY Zenon, <2>2, <4>2, <4>3
    <3>3. QED
      BY Zenon, <3>1, <3>2
  <2>6. timed # {}
    BY Zenon, <1>7, <1>10
  <2>7. QED
    BY ZenonT(60), <1>5, <2>2, <2>4, <2>5, <2>6 DEF WaitEndsWithNextDue, timed
<1>11. QED
  BY ZenonT(60), <1>9, <1>10

\* Each step keeps the due times and the intervals away from the end of the range.
LEMMA DueStep ==
    ASSUME LifeInv, NoWrap, DueInv, PassInv, [Next]_vars
    PROVE  DueInv'
<1> USE DEF table, control
<1>1. TypeOK /\ now \in Nat /\ now <= MaxClock
  BY SMTT(60), SMTT(90), LoopAssumption DEF LifeInv, TypeOK
<1>2. ASSUME UNCHANGED <<src, due>>
      PROVE  DueInv'
  BY Zenon, <1>2 DEF DueInv
<1>3. ASSUME NEW s \in Ids, NEW t \in Nat, t <= MaxClock, UNCHANGED src,
             due' = [due EXCEPT ![s] = AddNs(t, src[s].interval)]
      PROVE  DueInv'
  <2>1. due'[s] + NS_PER_MS <= UINT64_MAX /\ \A u \in Ids : u # s => due'[u] = due[u]
    BY ZenonT(60), <1>1, <1>3, RescheduledDue DEF TypeOK
  <2>2. QED
    BY Zenon, <1>3, <2>1 DEF DueInv
<1>4. ASSUME NEW s \in Ids, Reschedule(s), UNCHANGED src
      PROVE  DueInv'
  BY Zenon, <1>1, <1>3, <1>4 DEF Reschedule
<1>5. CASE AddSource
  <2>1. PICK fields, due_ns :
           /\ NewSource(fields, due_ns)
           /\ due_ns + NS_PER_MS <= UINT64_MAX
           /\ MaxClock + fields.interval + NS_PER_MS <= UINT64_MAX
           /\ fields.kind \in {"process", "file"} => fields.interval > 0
    BY Zenon, <1>1, <1>5, NewSourceDue
  <2>2. /\ src' = [src EXCEPT ![nextId] = fields]
        /\ due' = [due EXCEPT ![nextId] = due_ns]
        /\ DOMAIN src = Ids /\ DOMAIN due = Ids
    BY ZenonT(60), <1>1, <2>1 DEF NewSource, TypeOK
  <2>3. \A s \in Ids : \/ s = nextId /\ src'[s] = fields /\ due'[s] = due_ns
                       \/ src'[s] = src[s] /\ due'[s] = due[s]
    BY <2>2, Zenon
  <2>4. QED
    BY Zenon, <2>1, <2>3 DEF DueInv
<1>6. CASE \/ AddSourceFails \/ CallbackWakes \/ x_event_loop_run \/ x_event_loop_destroy
           \/ \E s \in Ids : x_event_source_remove(s)
  BY <1>2, <1>6, Zenon
     DEF AddSourceFails, CallbackWakes, x_event_loop_run, x_event_loop_destroy,
         x_event_source_remove
<1>7. CASE EnterLoop \/ LoopTop \/ StartPass
  BY <1>2, <1>7, Zenon DEF EnterLoop, LoopTop, StartPass
<1>8. ASSUME NEW s \in Ids, PollSource(s) \/ FireTimer(s) \/ HandleEvent(s)
      PROVE  DueInv'
  BY <1>2, <1>4, <1>8, Zenon DEF PollSource, FireTimer, HandleEvent
<1>9. CASE CallbackReturns
  <2>1. cb \in Ids /\ UNCHANGED src
    BY ZenonT(60), <1>1, <1>9 DEF CallbackReturns, TypeOK
  <2>2. UNCHANGED due \/ Reschedule(cb)
    BY <1>9, Zenon DEF CallbackReturns
  <2>3. QED
    BY Zenon, <1>2, <1>4, <2>1, <2>2
\* The timer that is advanced was due, so its due time has passed.
<1>10. CASE AdvanceTimer
  <2>1. /\ cb \in Ids /\ UNCHANGED src
        /\ due' = [due EXCEPT ![cb] = AddNs(due[cb], src[cb].interval)]
    BY ZenonT(60), <1>1, <1>10 DEF AdvanceTimer, TypeOK
  <2>2. due[cb] \in Nat /\ due[cb] <= MaxClock
    <3>1. due[cb] \in Nat
      BY SMTT(60), SMTT(90), <1>1, <2>1 DEF TypeOK, Time
    <3>2. due[cb] <= now
      BY Zenon, <1>10 DEF PassInv, AdvanceTimer, Timed
    <3>3. QED
      BY SMTT(60), SMTT(90), <1>1, <3>1, <3>2, LoopAssumption
  <2>3. QED
    BY Zenon, <1>3, <2>1, <2>2
<1>11. CASE CallbackFails \/ EndFirstPass \/ EndSecondPass \/ EndBatch
  BY <1>2, <1>11, Zenon DEF CallbackFails, EndFirstPass, EndSecondPass, EndBatch
<1>12. CASE Waiting
  BY <1>2, <1>12, Zenon
     DEF Waiting, WaitReady, WaitWoken, WaitTimesOut, WaitInterrupted, WaitReturns,
         WaitFails, x_event_loop_wake_callback
<1>13. CASE Surroundings
  BY <1>2, <1>13, Zenon
     DEF Surroundings, Other, x_event_loop_wake, x_event_loop_cancel, CancelSends, Tick,
         ChildExits, vars
<1>14. QED
  BY ZenonT(60), <1>5, <1>6, <1>7, <1>8, <1>9, <1>10, <1>11, <1>12, <1>13
     DEF Next, Client, Owner, Environment, Terminated, Waiting, Surroundings

\* A step that only takes sources away, and lets time pass, keeps the pass where
\* it is.
LEMMA PassKept ==
    ASSUME TypeOK, PassInv, UNCHANGED <<src, due, nextId, pc, cursor, cb, now>>,
           active' \subseteq active, clock' \in Nat, clock' >= clock
    PROVE  PassInv'
<1>1. now' <= clock'
  BY DEF TypeOK, PassInv
<1>2. \A s \in ActiveOf(Timed)' : s \in ActiveOf(Timed)
  BY Zenon DEF ActiveOf
<1>3. QED
  BY ZenonT(60), <1>1, <1>2 DEF PassInv, PassLeavesNothingDue

\* Outside a pass and the wait that follows it there is little to keep.
LEMMA PassOver ==
    ASSUME now' <= clock', cursor' < nextId',
           pc' \notin {"timers", "callback", "advance", "wait"},
           pc' \in {"batch", "drain"} => cursor' = NoSource
    PROVE  PassInv'
BY Zenon DEF PassInv, PassLeavesNothingDue

\* Leaving the loop ends the pass.
LEMMA LeaveEndsPass == TypeOK /\ Leave /\ UNCHANGED <<nextId, clock>> => PassInv'
<1>1. TypeOK /\ Leave /\ UNCHANGED <<nextId, clock>> =>
         /\ now' <= clock' /\ cursor' < nextId' /\ pc' = "idle"
  BY SMTT(60), SMTT(90), LoopAssumption DEF Leave, TypeOK, NoSource
<1>2. QED
  BY Zenon, <1>1, PassOver

\* Each step keeps the account of the pass.
LEMMA PassStep ==
    ASSUME LifeInv, NoWrap, DueInv, PassInv, [Next]_vars
    PROVE  PassInv'
<1> USE DEF table, control
<1>1. /\ TypeOK /\ now \in Nat /\ clock \in Nat /\ nextId \in Nat /\ cursor \in Nat
      /\ now <= MaxClock /\ MaxClock \in Nat /\ nextId >= 2
      /\ sources \subseteq 1 .. nextId - 1 /\ active \subseteq sources
      /\ NoSource < nextId
  <2>1. /\ TypeOK /\ nextId \in 2 .. MaxSources + 1 /\ cursor \in Ids \cup {NoSource}
        /\ sources \cup freed = 1 .. nextId - 1 /\ active \subseteq sources
        /\ now \in 0 .. MaxClock /\ clock \in 0 .. MaxClock
    BY Zenon DEF LifeInv, TableInv, FreedExactlyOnce, TypeOK
  <2>2. MaxClock \in Nat /\ MaxSources \in Nat
    BY Zenon, LoopAssumption
  <2>3. QED
    BY SMTT(60), SMTT(90), <2>1, <2>2 DEF Ids, NoSource
<1>2. ASSUME UNCHANGED <<src, due, nextId, pc, cursor, cb, now>>,
             active' \subseteq active, clock' \in Nat, clock' >= clock
      PROVE  PassInv'
  BY Zenon, <1>1, <1>2, PassKept
<1>3. ASSUME Leave, UNCHANGED <<nextId, clock>>
      PROVE  PassInv'
  BY Zenon, <1>1, <1>3, LeaveEndsPass
<1>4. ASSUME UNCHANGED <<nextId, clock, now, cursor>>,
             pc' \notin {"timers", "callback", "advance", "wait"},
             pc' \in {"batch", "drain"} => cursor = NoSource
      PROVE  PassInv'
  BY Zenon, <1>4, PassOver DEF PassInv
\* A new source comes after the cursor.
<1>5. CASE AddSource
  <2>1. PICK fields, due_ns : NewSource(fields, due_ns)
    BY Zenon, <1>1, <1>5, NewSourceDue
  <2>2. /\ src' = [src EXCEPT ![nextId] = fields]
        /\ due' = [due EXCEPT ![nextId] = due_ns]
        /\ DOMAIN src = Ids /\ DOMAIN due = Ids
        /\ nextId' = nextId + 1 /\ active' = active \cup {nextId}
        /\ pc \in {"idle", "callback"}
        /\ UNCHANGED <<pc, cursor, cb, now, clock>>
    BY Zenon, <1>1, <2>1 DEF NewSource, TypeOK, InClient
  <2>3. \A s \in Ids : s # nextId => src'[s] = src[s] /\ due'[s] = due[s]
    BY <2>2, Zenon
  <2>4. CASE pc = "idle"
    <3>1. now' <= clock' /\ cursor' < nextId' /\ pc' = "idle"
      BY SMTT(60), SMTT(90), <1>1, <2>2, <2>4 DEF PassInv
    <3>2. QED
      BY Zenon, <3>1, PassOver
  <2>5. CASE pc = "callback"
    <3>1. cb \in sources /\ cb \in Ids /\ cb # nextId /\ cursor < nextId
      BY SMTT(60), SMTT(90), <1>1, <2>5 DEF LifeInv, BatchInv, TypeOK, PassInv
    <3>2. src'[cb] = src[cb] /\ due'[cb] = due[cb]
      BY Zenon, <2>3, <3>1
    <3>3. ASSUME NEW s \in ActiveOf(Timed)', s <= cursor
          PROVE  s = cb \/ due'[s] > now
      <4>1. s \in active /\ s # nextId /\ s \in Ids
        BY SMTT(60), SMTT(90), <1>1, <2>2, <3>1, <3>3 DEF ActiveOf, TypeOK
      <4>2. s \in ActiveOf(Timed) /\ due'[s] = due[s]
        BY Zenon, <2>3, <3>3, <4>1 DEF ActiveOf
      <4>3. QED
        BY Zenon, <2>5, <3>3, <4>2 DEF PassInv
    <3>4. now' <= clock' /\ cursor' < nextId'
      BY SMTT(60), SMTT(90), <1>1, <2>2, <3>1 DEF PassInv
    <3>5. IF src'[cb].kind \in Timed THEN cb = cursor /\ due'[cb] <= now
                                     ELSE cursor = NoSource
      BY Zenon, <2>5, <3>2 DEF PassInv
    <3>6. QED
      BY ZenonT(60), <2>2, <2>5, <3>3, <3>4, <3>5 DEF PassInv, PassLeavesNothingDue
  <2>6. QED
    BY Zenon, <2>2, <2>4, <2>5
<1>6. CASE AddSourceFails \/ CallbackWakes \/ \E s \in Ids : x_event_source_remove(s)
  <2>1. UNCHANGED <<src, due, nextId, pc, cursor, cb, now, clock>> /\ active' \subseteq active
    BY Zenon, <1>6 DEF AddSourceFails, CallbackWakes, x_event_source_remove, RemoveSource
  <2>2. QED
    BY SMTT(60), SMTT(90), <1>1, <1>2, <2>1
<1>7. CASE x_event_loop_run \/ x_event_loop_destroy \/ EnterLoop
  <2>1. UNCHANGED <<nextId, clock, now, cursor>> /\ pc' \in {"entry", "destroyed", "top"}
    BY Zenon, <1>7 DEF x_event_loop_run, x_event_loop_destroy, EnterLoop
  <2>2. QED
    BY Zenon, <1>4, <2>1
<1>8. CASE LoopTop
  <2>1. UNCHANGED <<nextId, clock>> /\ (Leave \/ (pc' = "pass" /\ UNCHANGED <<now, cursor>>))
    BY <1>8, Zenon DEF LoopTop
  <2>2. QED
    BY Zenon, <1>3, <1>4, <2>1
\* The pass starts before the first source.
<1>9. CASE StartPass
  <2>1. CASE Leave
    BY Zenon, <1>3, <1>9, <2>1 DEF StartPass
  <2>2. CASE pc' = "timers" /\ now' = clock /\ cursor' = NoSource
    <3>1. UNCHANGED <<nextId, clock, active, src, due>>
      BY Zenon, <1>9 DEF StartPass
    <3>2. \A s \in ActiveOf(Timed)' : ~(s <= NoSource)
      BY SMTT(60), SMTT(90), <1>1, <3>1 DEF ActiveOf, NoSource
    <3>3. QED
      BY SMTT(60), SMTT(90), <1>1, <2>2, <3>1, <3>2 DEF PassInv, PassLeavesNothingDue
  <2>3. QED
    BY Zenon, <1>9, <2>1, <2>2 DEF StartPass
\* The source visited is the first one that is due, so the sources before it are
\* not.
<1>10. ASSUME NEW s \in Ids, Visit(s)
       PROVE  /\ s \in active /\ src[s].kind \in Timed /\ due[s] <= now /\ s < nextId
              /\ s > cursor
              /\ \A u \in ActiveOf(Timed) : u <= s => u = s \/ due[u] > now
  <2>1. /\ pc = "timers" /\ s \in ActiveOf(Timed) /\ due[s] <= now /\ s > cursor
        /\ \A u \in DueSources : s <= u
    BY Zenon, <1>10 DEF Visit, DueSources
  <2>2. s \in active /\ src[s].kind \in Timed /\ s < nextId
    BY SMTT(60), SMTT(90), <1>1, <2>1 DEF ActiveOf
  <2>3. ASSUME NEW u \in ActiveOf(Timed), u <= s, u # s
        PROVE  due[u] > now
    <3>1. u \in Nat /\ u \in sources /\ u \in Ids /\ due[u] \in Nat /\ s \in Nat
      <4>1. u \in sources /\ u \in Ids
        BY ZenonT(60), <1>1 DEF ActiveOf, TypeOK
      <4>2. due[u] \in Nat
        BY SMTT(60), SMTT(90), <1>1, <4>1 DEF TypeOK, Time
      <4>3. QED
        BY SMTT(60), SMTT(90), <4>1, <4>2 DEF Ids
    <3>2. CASE u <= cursor
      <4>1. cb = NoSource
        BY ZenonT(60), <1>1, <2>1 DEF TypeOK
      <4>2. QED
        BY SMTT(60), SMTT(90), <2>1, <3>1, <3>2, <4>1 DEF PassInv, Ids, NoSource
    <3>3. CASE u > cursor
      <4>1. ~(s <= u)
        BY SMTT(60), SMTT(90), <2>3, <3>1
      <4>2. u \notin DueSources
        BY <2>1, <4>1, Zenon
      <4>3. QED
        BY SMTT(60), SMTT(90), <1>1, <2>3, <3>1, <3>3, <4>2 DEF DueSources
    <3>4. QED
      BY SMTT(60), SMTT(90), <1>1, <3>1, <3>2, <3>3
  <2>4. QED
    BY Zenon, <2>1, <2>2, <2>3
<1>11. ASSUME NEW s \in Ids, Visit(s), pc' = "callback", cb' = s, cursor' = s,
              UNCHANGED <<active, src, due, nextId, now, clock>>
       PROVE  PassInv'
  BY Zenon, <1>10, <1>11 DEF PassInv, PassLeavesNothingDue, ActiveOf
\* A polled source with nothing to report moves on.
<1>12. ASSUME NEW s \in Ids, src[s].kind \in {"process", "file"}, Reschedule(s)
       PROVE  /\ due'[s] > now
              /\ \A u \in Ids : u # s => due'[u] = due[u]
  <2>1. src[s].interval \in Nat /\ src[s].interval > 0
    BY SMTT(60), SMTT(90), <1>1, <1>12 DEF DueInv, TypeOK, Time
  <2>2. AddNs(now, src[s].interval) = now + src[s].interval
    BY Zenon, <1>1, RescheduledDue
  <2>3. due'[s] = now + src[s].interval /\ \A u \in Ids : u # s => due'[u] = due[u]
    BY ZenonT(60), <1>1, <1>12, <2>2 DEF Reschedule, TypeOK
  <2>4. QED
    BY SMTT(60), SMTT(90), <1>1, <2>1, <2>3
<1>13. ASSUME NEW s \in Ids, PollSource(s) \/ FireTimer(s)
       PROVE  PassInv'
  <2>1. Visit(s) /\ UNCHANGED <<active, src, nextId, clock>>
    BY Zenon, <1>13 DEF PollSource, FireTimer
  <2>2. CASE Leave
    BY Zenon, <1>3, <2>1, <2>2
  <2>3. CASE Dispatch(s) /\ cursor' = s /\ UNCHANGED due
    BY Zenon, <1>11, <2>1, <2>3 DEF Dispatch
  <2>4. CASE /\ src[s].kind \in {"process", "file"} /\ Reschedule(s) /\ cursor' = s
             /\ UNCHANGED <<pc, cb, now>>
    <3>1. pc = "timers" /\ s < nextId
      BY ZenonT(60), <1>10, <2>1 DEF Visit
    <3>2. ASSUME NEW u \in ActiveOf(Timed)', u <= s
          PROVE  due'[u] > now
      <4>1. u \in ActiveOf(Timed) /\ u \in Ids
        BY ZenonT(60), <1>1, <2>1 DEF ActiveOf, TypeOK
      <4>2. QED
        BY ZenonT(60), <1>10, <1>12, <2>1, <2>4, <3>2, <4>1
    <3>3. QED
      BY Zenon, <2>1, <2>4, <3>1, <3>2 DEF PassInv, PassLeavesNothingDue
  <2>5. QED
    BY <1>13, <2>2, <2>3, <2>4, ZenonT(60) DEF PollSource, FireTimer
<1>14. ASSUME NEW s \in Ids, HandleEvent(s)
       PROVE  PassInv'
  <2>1. /\ pc = "batch" /\ s \in batch /\ cursor = NoSource
        /\ UNCHANGED <<active, src, due, nextId, clock, now, cursor>>
    BY Zenon, <1>14 DEF HandleEvent, PassInv, Dispatch
  <2>2. src[s].kind = "socket"
    BY Zenon, <2>1 DEF LifeInv, BatchInv
  <2>3. CASE pc' \in {"batch", "drain"}
    BY Zenon, <1>4, <2>1, <2>3
  <2>4. CASE pc' = "callback" /\ cb' = s
    <3>1. \A u \in ActiveOf(Timed)' : ~(u <= NoSource)
      BY SMTT(60), SMTT(90), <1>1, <2>1 DEF ActiveOf, NoSource
    <3>2. QED
      BY ZenonT(60), <2>1, <2>2, <2>4, <3>1 DEF PassInv, PassLeavesNothingDue, Timed
  <2>5. QED
    BY <1>14, <2>1, <2>3, <2>4, ZenonT(60) DEF HandleEvent, Dispatch
\* The source of the callback is removed, rescheduled, advanced or inactive.
<1>15. CASE CallbackReturns
  <2>1. /\ pc = "callback" /\ cb \in Ids
        /\ UNCHANGED <<src, nextId, cursor, now, clock>> /\ active' \subseteq active
    BY ZenonT(60), <1>1, <1>15 DEF CallbackReturns, TypeOK, RemoveSource
  <2>2. CASE src[cb].kind = "socket"
    <3>1. pc' = "batch" /\ cursor = NoSource
      <4>1. src[cb].kind \notin Timed
        BY Zenon, <2>2 DEF Timed
      <4>2. cursor = NoSource
        BY Zenon, <2>1, <4>1 DEF PassInv
      <4>3. QED
        BY Zenon, <1>15, <2>2, <4>2 DEF CallbackReturns
    <3>2. QED
      BY Zenon, <1>4, <2>1, <3>1
  <2>3. CASE src[cb].kind = "timer" /\ src[cb].interval # 0 /\ cb \in active
    <3>1. pc' = "advance" /\ cb' = cb /\ UNCHANGED <<due, active>>
      BY Zenon, <1>15, <2>3 DEF CallbackReturns
    <3>2. QED
      BY Zenon, <2>1, <2>3, <3>1 DEF PassInv, PassLeavesNothingDue, ActiveOf, Timed
  <2>4. CASE /\ src[cb].kind # "socket"
             /\ ~(src[cb].kind = "timer" /\ src[cb].interval # 0 /\ cb \in active)
    <3>1. pc' = "timers" /\ cb' = NoSource
      BY <1>15, <2>4, Zenon DEF CallbackReturns
    <3>2. cb \in active' /\ src[cb].kind \in Timed => due'[cb] > now
      <4>1. CASE src[cb].kind = "file" /\ cb \in active
        BY Zenon, <1>12, <1>15, <2>1, <4>1 DEF CallbackReturns
      <4>2. CASE src[cb].kind # "file" /\ src[cb].kind \in Timed
        BY ZenonT(60), <1>15, <2>4, <4>2 DEF CallbackReturns, RemoveSource, Timed
      <4>3. QED
        BY Zenon, <2>1, <4>1, <4>2
    <3>3. \A u \in Ids : u # cb => due'[u] = due[u]
      BY ZenonT(60), <1>1, <1>15, <2>1 DEF CallbackReturns, Reschedule, TypeOK
    <3>4. ASSUME NEW u \in ActiveOf(Timed)', u <= cursor
          PROVE  due'[u] > now
      <4>1. u \in ActiveOf(Timed) /\ u \in Ids /\ u \in active' /\ src[u].kind \in Timed
        BY ZenonT(60), <1>1, <2>1 DEF ActiveOf, TypeOK
      <4>2. QED
        BY ZenonT(60), <2>1, <3>2, <3>3, <3>4, <4>1 DEF PassInv
    <3>5. QED
      BY Zenon, <2>1, <3>1, <3>4 DEF PassInv, PassLeavesNothingDue
  <2>5. QED
    BY Zenon, <2>2, <2>3, <2>4
\* The do-while loop ends when the due time is later than that of the pass.
<1>16. CASE AdvanceTimer
  <2>1. /\ pc = "advance" /\ cb \in Ids /\ src[cb].kind \in Timed /\ cb = cursor
        /\ UNCHANGED <<active, src, nextId, cursor, now, clock>>
        /\ due'[cb] \in Nat
        /\ \A u \in Ids : u # cb => due'[u] = due[u]
    <3>1. due' \in [Ids -> Time]
      BY ZenonT(60), <1>1, <1>16, AddNsType DEF AdvanceTimer, TypeOK
    <3>2. QED
      BY SMTT(60), SMTT(90), <1>1, <1>16, <3>1 DEF AdvanceTimer, TypeOK, PassInv, Timed, Time
  <2>2. ASSUME NEW u \in ActiveOf(Timed)', u <= cursor, u # cb
        PROVE  due'[u] > now
    <3>1. u \in ActiveOf(Timed) /\ u \in Ids
      BY Zenon, <1>1, <2>1 DEF ActiveOf, TypeOK
    <3>2. QED
      BY Zenon, <2>1, <2>2, <3>1 DEF PassInv
  <2>3. CASE due'[cb] <= now
    <3>1. UNCHANGED <<pc, cb>>
      BY Zenon, <1>16, <2>3 DEF AdvanceTimer
    <3>2. QED
      BY Zenon, <2>1, <2>2, <2>3, <3>1 DEF PassInv, PassLeavesNothingDue
  <2>4. CASE due'[cb] > now
    <3>1. pc' = "timers" /\ cb' = NoSource
      BY SMTT(60), SMTT(90), <1>1, <1>16, <2>1, <2>4 DEF AdvanceTimer
    <3>2. QED
      BY ZenonT(60), <2>1, <2>2, <2>4, <3>1 DEF PassInv, PassLeavesNothingDue
  <2>5. QED
    BY SMTT(60), SMTT(90), <1>1, <2>1, <2>3, <2>4
<1>17. CASE CallbackFails
  BY Zenon, <1>3, <1>17 DEF CallbackFails
\* When nothing after the cursor is due either, nothing is.
<1>18. CASE EndFirstPass
  <2>1. /\ pc = "timers" /\ DueSources = {}
        /\ UNCHANGED <<active, src, due, nextId, clock>>
    BY Zenon, <1>18 DEF EndFirstPass
  <2>2. CASE Leave
    BY Zenon, <1>3, <2>1, <2>2
  <2>3. CASE EnterWait
    <3>1. ASSUME NEW u \in ActiveOf(Timed)
          PROVE  due[u] > now
      <4>1. u \in Nat /\ u \in sources /\ u \in Ids /\ due[u] \in Nat /\ cb = NoSource
        BY SMTT(60), SMTT(90), <1>1, <2>1 DEF ActiveOf, TypeOK, Time, Ids
      <4>2. CASE u <= cursor
        BY SMTT(60), SMTT(90), <2>1, <4>1, <4>2 DEF PassInv, Ids, NoSource
      <4>3. CASE u > cursor
        BY SMTT(60), SMTT(90), <1>1, <2>1, <4>1, <4>3 DEF DueSources
      <4>4. QED
        BY SMTT(60), SMTT(90), <1>1, <4>1, <4>2, <4>3
    <3>2. pc' = "wait" /\ cursor' = NoSource /\ now' = now
      BY Zenon, <2>3 DEF EnterWait
    <3>3. QED
      BY ZenonT(60), <1>1, <2>1, <3>1, <3>2 DEF PassInv, PassLeavesNothingDue, ActiveOf
  <2>4. QED
    BY <1>18, <2>2, <2>3, ZenonT(60) DEF EndFirstPass
<1>19. CASE EndSecondPass
  <2>1. pc' = "top" /\ cursor' = NoSource /\ now' = 0 /\ UNCHANGED <<nextId, clock>>
    BY Zenon, <1>19 DEF EndSecondPass
  <2>2. QED
    BY SMTT(60), SMTT(90), <1>1, <2>1, PassOver
<1>20. CASE EndBatch
  <2>1. pc' = "pass" /\ UNCHANGED <<cursor, now, nextId, clock>>
    BY Zenon, <1>20 DEF EndBatch
  <2>2. QED
    BY Zenon, <1>4, <2>1
<1>21. CASE Waiting
  <2>1. CASE Leave
    <3>1. UNCHANGED <<nextId, clock>>
      BY <1>21, Zenon
         DEF Waiting, WaitReady, WaitWoken, WaitTimesOut, WaitInterrupted, WaitReturns,
             WaitFails, x_event_loop_wake_callback
    <3>2. QED
      BY Zenon, <1>3, <2>1, <3>1
  <2>2. ASSUME NEW pointers, WaitReturns(pointers)
        PROVE  PassInv'
    <3>1. pc' = "batch" /\ cursor' = NoSource /\ now' = 0 /\ UNCHANGED <<nextId, clock>>
      BY Zenon, <2>2 DEF WaitReturns, PassInv
    <3>2. QED
      BY SMTT(60), SMTT(90), <1>1, <3>1, PassOver
  <2>3. CASE x_event_loop_wake_callback /\ ~Leave
    <3>1. /\ UNCHANGED <<nextId, clock, now, cursor>> /\ pc' \in {"drain", "batch"}
          /\ cursor = NoSource
      BY <2>3, Zenon DEF x_event_loop_wake_callback, PassInv
    <3>2. QED
      BY Zenon, <1>4, <3>1
  <2>4. QED
    BY <1>21, <2>1, <2>2, <2>3, Zenon
       DEF Waiting, WaitReady, WaitWoken, WaitTimesOut, WaitInterrupted, WaitFails
<1>22. CASE Surroundings
  <2>1. UNCHANGED <<src, due, nextId, pc, cursor, cb, now, active>>
    BY <1>22, Zenon
       DEF Surroundings, Other, x_event_loop_wake, x_event_loop_cancel, CancelSends,
           Tick, ChildExits, vars
  <2>2. clock' = clock \/ clock' = clock + 1
    BY <1>22, Zenon
       DEF Surroundings, Other, x_event_loop_wake, x_event_loop_cancel, CancelSends,
           Tick, ChildExits, vars
  <2>3. QED
    BY SMTT(60), SMTT(90), <1>1, <1>2, <2>1, <2>2
<1>23. QED
  BY ZenonT(60), <1>5, <1>6, <1>7, <1>8, <1>9, <1>13, <1>14, <1>15, <1>16, <1>17, <1>18, <1>19,
     <1>20, <1>21, <1>22
     DEF Next, Client, Owner, Environment, Terminated, Waiting, Surroundings

\* The wait that has begun keeps its deadline, and what is due then; only time
\* passes.
LEMMA WaitStep ==
    ASSUME LifeInv, NoWrap, DueInv, PassInv, WaitEndsWithNextDue, [Next]_vars
    PROVE  WaitEndsWithNextDue'
<1> USE DEF table, control
<1>1. ASSUME pc' # "wait"
      PROVE  WaitEndsWithNextDue'
  BY Zenon, <1>1 DEF WaitEndsWithNextDue
<1>2. ASSUME UNCHANGED <<pc, deadline, active, src, due, now>>,
             clock' = clock \/ clock' = clock + 1
      PROVE  WaitEndsWithNextDue'
  <2>1. ActiveOf(Timed)' = ActiveOf(Timed)
    BY Zenon, <1>2 DEF ActiveOf
  <2>2. clock \in Nat /\ (deadline \in Nat \/ deadline = NoDeadline)
    BY SMTT(60), SMTT(90), LoopAssumption DEF LifeInv, TypeOK
  <2>3. deadline <= clock => deadline <= clock'
    BY SMTT(60), SMTT(90), <1>2, <2>2 DEF NoDeadline
  <2>4. QED
    BY Zenon, <1>2, <2>1, <2>3 DEF WaitEndsWithNextDue
<1>3. CASE Client
  <2>1. pc' # "wait"
    <3>1. CASE AddSource
      <4>1. PICK fields, due_ns : NewSource(fields, due_ns)
        BY Zenon, <3>1, NewSourceDue DEF LifeInv
      <4>2. QED
        BY Zenon, <4>1 DEF NewSource, InClient
    <3>2. CASE \/ AddSourceFails \/ CallbackWakes \/ x_event_loop_run
               \/ x_event_loop_destroy \/ Terminated
               \/ \E s \in Ids : x_event_source_remove(s)
      BY Zenon, <3>2 DEF AddSourceFails, CallbackWakes, x_event_loop_run, InClient,
                  x_event_loop_destroy, Terminated, vars, x_event_source_remove
    <3>3. QED
      BY Zenon, <1>3, <3>1, <3>2 DEF Client
  <2>2. QED
    BY Zenon, <1>1, <2>1
<1>4. CASE EndFirstPass
  <2>1. CASE Leave
    BY Zenon, <1>1, <2>1 DEF Leave
  <2>2. CASE EnterWait
    <3>1. TypeOK /\ now <= clock /\ UNCHANGED <<active, src, due, clock>>
      BY Zenon, <1>4 DEF EndFirstPass, LifeInv, PassInv
    <3>2. QED
      BY Zenon, <2>2, <3>1, EnterWaitDeadline
  <2>3. QED
    BY <1>4, <2>1, <2>2, Zenon DEF EndFirstPass
<1>5. CASE Dispatching
  <2>1. pc' # "wait"
    BY ZenonT(60), <1>5
       DEF Dispatching, EnterLoop, LoopTop, StartPass, PollSource, FireTimer,
           HandleEvent, Visit, Dispatch, Leave
  <2>2. QED
    BY <1>1, <2>1
<1>6. CASE Waiting \/ EndSecondPass \/ EndBatch
  <2>1. pc' # "wait"
    BY ZenonT(60), <1>6
       DEF Waiting, WaitReady, WaitWoken, WaitTimesOut, WaitInterrupted, WaitReturns,
           WaitFails, x_event_loop_wake_callback, EndSecondPass, EndBatch, Leave
  <2>2. QED
    BY <1>1, <2>1
<1>7. CASE CallbackReturns \/ CallbackFails \/ AdvanceTimer
  <2>1. pc' # "wait"
    BY ZenonT(60), <1>7 DEF CallbackReturns, CallbackFails, AdvanceTimer, Leave
  <2>2. QED
    BY <1>1, <2>1
<1>8. CASE Surroundings
  <2>1. UNCHANGED <<pc, deadline, active, src, due, now>>
    BY <1>8, Zenon
       DEF Surroundings, Other, x_event_loop_wake, x_event_loop_cancel, CancelSends,
           Tick, ChildExits, vars
  <2>2. clock' = clock \/ clock' = clock + 1
    BY <1>8, Zenon
       DEF Surroundings, Other, x_event_loop_wake, x_event_loop_cancel, CancelSends,
           Tick, ChildExits, vars
  <2>3. QED
    BY Zenon, <1>2, <2>1, <2>2
<1>9. QED
  BY Zenon, <1>3, <1>4, <1>5, <1>6, <1>7, <1>8
     DEF Next, Owner, Environment, Dispatching, Waiting, Surroundings

\* The account of the pass holds in every state, if no due time wraps around.
LEMMA TimingInvariant == NoWrap /\ Spec => []TimingInv
<1>1. NoWrap /\ Init => TimingInv
  <2> SUFFICES ASSUME NoWrap, Init
               PROVE  DueInv /\ PassInv /\ WaitEndsWithNextDue
    BY Zenon DEF TimingInv
  <2>1. MaxClock + NS_PER_MS <= UINT64_MAX
    <3>1. x_event_ms_to_ns(PROCESS_MS) \in Nat
      BY SMTT(60), SMTT(90), LoopAssumption, MsToNsType DEF Time
    <3>2. MaxClock + x_event_ms_to_ns(PROCESS_MS) + NS_PER_MS <= UINT64_MAX
      BY Zenon DEF NoWrap
    <3>3. QED
      BY SMTT(60), SMTT(90), <3>1, <3>2, LoopAssumption, TimeAssumption
  <2>2. \A s \in Ids : /\ due[s] = 0 /\ src[s].interval = 0
                       /\ src[s].kind \in {"none", "socket"}
    BY Zenon DEF Init, NoFields, Source
  <2>3. DueInv
    <3>1. ASSUME NEW s \in Ids
          PROVE  /\ due[s] + NS_PER_MS <= UINT64_MAX
                 /\ MaxClock + src[s].interval + NS_PER_MS <= UINT64_MAX
      <4>1. MaxClock \in Nat /\ NS_PER_MS \in Nat /\ UINT64_MAX \in Nat
        BY Zenon, LoopAssumption, TimeAssumption
      <4>2. due[s] = 0 /\ src[s].interval = 0
        BY Zenon, <2>2
      <4>3. QED
        BY SMTT(60), SMTT(90), <2>1, <4>1, <4>2
    <3>2. ASSUME NEW s \in Ids
          PROVE  src[s].kind \notin {"process", "file"}
      BY Zenon, <2>2
    <3>3. QED
      BY ZenonT(60), <3>1, <3>2 DEF DueInv
  <2>4. PassInv /\ WaitEndsWithNextDue
    BY SMTT(60), SMTT(90) DEF Init, PassInv, PassLeavesNothingDue, WaitEndsWithNextDue, NoSource
  <2>5. QED
    BY Zenon, <2>3, <2>4
<1>2. LifeInv /\ TimingInv /\ [Next]_vars => TimingInv'
  <2>1. NoWrap => NoWrap'
    BY Zenon DEF NoWrap
  <2>2. QED
    BY Zenon, <2>1, DueStep, PassStep, WaitStep DEF TimingInv
<1>3. QED
  BY <1>1, <1>2, LifeInvariant, PTL DEF Spec

\* When the loop goes to sleep no active source was due at the time of the pass
\* before it, whatever callbacks added, removed and stopped during the pass.
THEOREM NothingDueIsLeft == NoWrap /\ Spec => []PassLeavesNothingDue
<1>1. TimingInv => PassLeavesNothingDue
  BY Zenon DEF TimingInv, PassInv
<1>2. QED
  BY <1>1, TimingInvariant, PTL

\* epoll_wait is given up with the earliest due time: not before it, unless the
\* timeout is cut to INT_MAX, and less than a millisecond after it.
THEOREM WaitIsExact == NoWrap /\ Spec => []WaitEndsWithNextDue
<1>1. TimingInv => WaitEndsWithNextDue
  BY Zenon DEF TimingInv
<1>2. QED
  BY <1>1, TimingInvariant, PTL

\* Rescheduling a repeating timer moves its due time forward, as docs/EVENTS.md
\* says, provided that no due time wraps around.
THEOREM TimersAdvance == NoWrap /\ Spec => RepeatingTimersAdvance
<1>1. LifeInv /\ TimingInv /\ [Next]_vars =>
         [pc = "advance" /\ due' # due => due'[cb] > due[cb]]_vars
  <2> SUFFICES ASSUME LifeInv, TimingInv, Next, pc = "advance", due' # due
               PROVE  due'[cb] > due[cb]
    BY Zenon
  <2>1. TypeOK /\ cb \in Ids
    BY Zenon DEF LifeInv, TypeOK
  <2>2. due[cb] \in Nat /\ due[cb] <= MaxClock /\ src[cb].interval # 0
    <3>1. due[cb] \in Nat /\ now \in Nat /\ now <= MaxClock
      BY SMTT(60), SMTT(90), <2>1, LoopAssumption DEF TypeOK, Time
    <3>2. due[cb] <= now /\ src[cb].interval # 0
      BY Zenon DEF TimingInv, PassInv, Timed
    <3>3. QED
      BY SMTT(60), SMTT(90), <3>1, <3>2, LoopAssumption
  <2>3. /\ AddNs(due[cb], src[cb].interval) = due[cb] + src[cb].interval
        /\ src[cb].interval \in Nat
    BY Zenon, <2>1, <2>2, RescheduledDue DEF TimingInv
  <2>4. CASE AdvanceTimer
    <3>1. due'[cb] = due[cb] + src[cb].interval
      BY ZenonT(60), <2>1, <2>3, <2>4 DEF AdvanceTimer, TypeOK
    <3>2. QED
      BY SMTT(60), SMTT(90), <2>2, <2>3, <3>1
  <2>5. CASE Client
    BY ZenonT(60), <2>5
       DEF Client, AddSource, x_event_loop_add_socket, x_event_loop_add_timer,
           x_event_loop_add_process, x_event_loop_add_file_watcher, NewSource, InClient,
           AddSourceFails, x_event_source_remove, CallbackWakes, x_event_loop_run,
           x_event_loop_destroy, Terminated
  <2>6. ~(Dispatching \/ Waiting)
    BY ZenonT(60)
       DEF Dispatching, EnterLoop, LoopTop, StartPass, PollSource, FireTimer,
           HandleEvent, Visit, Waiting, WaitReady, WaitWoken, WaitTimesOut,
           WaitInterrupted, WaitReturns, WaitFails, x_event_loop_wake_callback
  <2>7. ~(CallbackReturns \/ CallbackFails \/ EndFirstPass \/ EndSecondPass \/ EndBatch)
    BY ZenonT(60)
       DEF CallbackReturns, CallbackFails, EndFirstPass, EndSecondPass, EndBatch
  <2>8. ~Surroundings
    BY ZenonT(60)
       DEF Surroundings, Other, x_event_loop_wake, x_event_loop_cancel, CancelSends,
           Tick, ChildExits, vars, table
  <2>9. QED
    BY Zenon, <2>4, <2>5, <2>6, <2>7, <2>8
       DEF Next, Owner, Environment, Dispatching, Waiting, Surroundings
<1>2. QED
  BY <1>1, LifeInvariant, TimingInvariant, PTL DEF Spec, RepeatingTimersAdvance

==============================================================================
