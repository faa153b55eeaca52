------------------------- MODULE PosixClockProofs --------------------------
(***************************************************************************)
(* Proofs about the delay test of posix_clock.c, for any length of a       *)
(* second, of the request and of the test, and for any interruptions.      *)
(***************************************************************************)
EXTENDS PosixClock, TLAPS

USE ClockAssumption

-----------------------------------------------------------------------------
(* Times.                                                                  *)

\* The remainder is what the quotient leaves.
LEMMA DivMod ==
    ASSUME NEW n \in Nat, NEW d \in Nat \ {0}
    PROVE  n % d = n - d * (n \div d)
BY SMTT(30)

\* Taking a time apart into seconds and nanoseconds loses nothing.
LEMMA TimespecNanos ==
    ASSUME NEW n \in Nat
    PROVE  Timespec(n) \in timespec /\ Nanos(Timespec(n)) = n
<1> DEFINE q == n \div NSEC_PER_SEC
           r == n % NSEC_PER_SEC
<1>1. q \in Nat /\ r \in 0 .. NSEC_PER_SEC - 1
  OBVIOUS
<1>2. r = n - NSEC_PER_SEC * q
  BY DivMod
<1>3. Timespec(n) = [tv_sec |-> q, tv_nsec |-> r]
  BY DEF Timespec
<1> HIDE DEF q, r
<1>4. NSEC_PER_SEC * q = q * NSEC_PER_SEC /\ q * NSEC_PER_SEC \in Int
  BY <1>1
<1>5. n = q * NSEC_PER_SEC + r
  BY <1>1, <1>2, <1>4
<1> QED BY <1>1, <1>3, <1>5 DEF Nanos, timespec

\* A normalised time stamp is a number of nanoseconds.
LEMMA NanosNat == ASSUME NEW t \in timespec PROVE Nanos(t) \in Nat
<1>1. t.tv_sec \in Nat /\ t.tv_nsec \in Nat
  BY DEF timespec
<1>2. t.tv_sec * NSEC_PER_SEC \in Nat
  BY <1>1
<1> QED BY <1>1, <1>2 DEF Nanos

\* The requested sleep is normalised and has its length.
LEMMA Requested == sleep_requested \in timespec /\ Nanos(sleep_requested) = TEST_NANOSECONDS
BY DEF sleep_requested, timespec, Nanos

\* delta_t computes the difference of two times that are in order, and does not
\* touch its result when they are not.  Its nanosecond overflow branches, one of
\* which would use the old result, are never taken.
LEMMA DeltaT ==
    ASSUME NEW stop \in timespec, NEW start \in timespec, NEW delta \in timespec
    PROVE  LET r == delta_t(stop, start, delta)
           IN  IF Nanos(stop) >= Nanos(start)
               THEN /\ r.rc = OK
                    /\ r.delta \in timespec
                    /\ Nanos(r.delta) = Nanos(stop) - Nanos(start)
               ELSE r.delta = delta
<1> DEFINE K == NSEC_PER_SEC
           a == stop.tv_sec
           b == start.tv_sec
           m == stop.tv_nsec
           n == start.tv_nsec
           r == delta_t(stop, start, delta)
<1>1. a \in Nat /\ b \in Nat /\ m \in 0 .. K - 1 /\ n \in 0 .. K - 1 /\ K \in Nat \ {0}
  BY DEF timespec
<1>2. Nanos(stop) = a * K + m /\ Nanos(start) = b * K + n
  BY DEF Nanos
<1>3. m - n < K /\ ~(m - n > K) /\ K + (m - n) > 0
  BY <1>1
<1>4. CASE a = b
  <2>1. a * K = b * K
    BY <1>4
  <2>2. CASE m >= n
    <3>1. r = [rc |-> OK, delta |-> [tv_sec |-> 0, tv_nsec |-> m - n]]
      BY <1>1, <1>3, <1>4, <2>2 DEF delta_t
    <3>2. m - n \in 0 .. K - 1
      BY <1>1, <2>2
    <3>3. [tv_sec |-> 0, tv_nsec |-> m - n] \in timespec
      BY <3>2 DEF timespec
    <3>4. Nanos([tv_sec |-> 0, tv_nsec |-> m - n]) = m - n
      BY <1>1, <3>2 DEF Nanos
    <3>5. a * K \in Int
      BY <1>1
    <3>6. Nanos(stop) >= Nanos(start) /\ Nanos(stop) - Nanos(start) = m - n
      BY <1>1, <1>2, <2>1, <2>2, <3>5
    <3> QED BY <3>1, <3>3, <3>4, <3>6
  <2>3. CASE ~(m >= n)
    <3>1. r.delta = delta
      BY <1>1, <1>3, <1>4, <2>3 DEF delta_t
    <3>2. a * K \in Int
      BY <1>1
    <3>3. ~(Nanos(stop) >= Nanos(start))
      BY <1>1, <1>2, <2>1, <2>3, <3>2
    <3> QED BY <3>1, <3>3
  <2> QED BY <2>2, <2>3
<1>5. CASE a > b
  <2>1. a * K = (a - b) * K + b * K /\ (a - b) * K = (a - b - 1) * K + K
    BY <1>1
  <2>2. (a - b - 1) * K \in Nat /\ (a - b) * K \in Int /\ b * K \in Int
    BY <1>1, <1>5
  <2>3. Nanos(stop) >= Nanos(start)
    BY <1>1, <1>2, <1>3, <2>1, <2>2
  <2>4. CASE m >= n
    <3>1. r = [rc |-> OK, delta |-> [tv_sec |-> a - b, tv_nsec |-> m - n]]
      BY <1>1, <1>3, <1>5, <2>4 DEF delta_t
    <3>2. [tv_sec |-> a - b, tv_nsec |-> m - n] \in timespec
      BY <1>1, <1>5, <2>4 DEF timespec
    <3>3. Nanos([tv_sec |-> a - b, tv_nsec |-> m - n]) = (a - b) * K + (m - n)
      BY DEF Nanos
    <3>4. Nanos(stop) - Nanos(start) = (a - b) * K + (m - n)
      BY <1>1, <1>2, <2>1, <2>2
    <3> QED BY <2>3, <3>1, <3>2, <3>3, <3>4
  <2>5. CASE ~(m >= n)
    <3>1. r = [rc |-> OK, delta |-> [tv_sec |-> a - b - 1, tv_nsec |-> K + (m - n)]]
      BY <1>1, <1>3, <1>5, <2>5 DEF delta_t
    <3>2. [tv_sec |-> a - b - 1, tv_nsec |-> K + (m - n)] \in timespec
      BY <1>1, <1>5, <2>5 DEF timespec
    <3>3. Nanos([tv_sec |-> a - b - 1, tv_nsec |-> K + (m - n)])
            = (a - b - 1) * K + (K + (m - n))
      BY DEF Nanos
    <3>4. Nanos(stop) - Nanos(start) = (a - b - 1) * K + (K + (m - n))
      BY <1>1, <1>2, <2>1, <2>2
    <3> QED BY <2>3, <3>1, <3>2, <3>3, <3>4
  <2> QED BY <2>4, <2>5
<1>6. CASE a < b
  <2>1. b * K = (b - a) * K + a * K /\ (b - a) * K = (b - a - 1) * K + K
    BY <1>1
  <2>2. (b - a - 1) * K \in Nat /\ (b - a) * K \in Int /\ a * K \in Int
    BY <1>1, <1>6
  <2>3. ~(Nanos(stop) >= Nanos(start))
    BY <1>1, <1>2, <2>1, <2>2
  <2>4. r.delta = delta
    BY <1>1, <1>6 DEF delta_t
  <2> QED BY <2>3, <2>4
<1> QED BY <1>1, <1>4, <1>5, <1>6

-----------------------------------------------------------------------------
(***************************************************************************)
(* The invariant.  While the thread sleeps, what it has slept and what it  *)
(* still asks for add up to the request, up to what the clocks differ over *)
(* its sleeps; when it is awake it has slept enough or has used up its     *)
(* calls.                                                                  *)
(***************************************************************************)
Slept == now - Nanos(rtclk_start_time)

SleepInv ==
    /\ pc \in {"sleep", "awake", "report"} => idx < TEST_ITERATIONS
    /\ pc \in {"sleep", "awake"} => Slept >= 0
    /\ pc = "sleep" =>
           Slept + Nanos(sleep_time) + sleep_count * MaxSlew >= TEST_NANOSECONDS
    /\ pc = "awake" /\ sleep_count < max_sleep_calls =>
           Slept + (sleep_count + 1) * MaxSlew >= TEST_NANOSECONDS
    /\ Nanos(delay_error) = full
    /\ DtIsElapsed
    /\ ShortOnlyAtLimit

\* The test starts well-typed in any phase of the clock.
LEMMA InitClock == Init => TypeOK /\ SleepInv
<1> SUFFICES ASSUME Init PROVE TypeOK /\ SleepInv
  OBVIOUS
<1>1. Timespec(0) \in timespec /\ Nanos(Timespec(0)) = 0
  BY TimespecNanos
<1>2. TypeOK
  BY <1>1 DEF Init, TypeOK
<1>3. SleepInv
  BY <1>1 DEF Init, SleepInv, DtIsElapsed, ShortOnlyAtLimit
<1> QED BY <1>2, <1>3

\* Every step of the test keeps the types and SleepInv.
LEMMA NextClock == TypeOK /\ SleepInv /\ [Next]_vars => TypeOK' /\ SleepInv'
<1> SUFFICES ASSUME TypeOK, SleepInv, [Next]_vars PROVE TypeOK' /\ SleepInv'
  OBVIOUS
<1>0. /\ now \in Nat /\ idx \in 0 .. TEST_ITERATIONS /\ sleep_count \in Nat /\ full \in Nat
      /\ sleep_time \in timespec /\ rtclk_start_time \in timespec
      /\ rtclk_stop_time \in timespec /\ rtclk_dt \in timespec /\ delay_error \in timespec
  BY DEF TypeOK
<1>a. /\ Nanos(sleep_time) \in Nat /\ Nanos(rtclk_start_time) \in Nat
      /\ Nanos(rtclk_dt) \in Nat
  BY <1>0, NanosNat
<1> USE DEF SleepInv, DtIsElapsed, ShortOnlyAtLimit
<1>1. CASE Start \/ Complete
  <2>1. UNCHANGED <<now, loop, times>> /\ pc' \in {"create", "getres", "test", "exited", "complete"}
    BY <1>1 DEF Start, Complete
  <2>2. TypeOK'
    BY <2>1 DEF TypeOK, loop, times
  <2>3. SleepInv'
    BY <2>1 DEF loop, times
  <2> QED BY <2>2, <2>3
<1>2. CASE BeginTest
  <2>1. /\ pc' = "sleep" /\ sleep_time' = sleep_requested /\ rtclk_start_time' = Timespec(now)
        /\ UNCHANGED <<now, idx, sleep_count, rtclk_stop_time, rtclk_dt, delay_error, full>>
        /\ idx < TEST_ITERATIONS
    BY <1>2 DEF BeginTest
  <2>2. /\ sleep_time' \in timespec /\ Nanos(sleep_time)' = TEST_NANOSECONDS
        /\ rtclk_start_time' \in timespec /\ Nanos(rtclk_start_time)' = now
    <3>1. Timespec(now) \in timespec /\ Nanos(Timespec(now)) = now
      BY <1>0, TimespecNanos
    <3> QED BY <2>1, <3>1, Requested DEF Nanos
  <2>3. TypeOK'
    BY <2>1, <2>2 DEF TypeOK
  <2>4. SleepInv'
    <3>1. Slept' = 0 /\ Nanos(delay_error)' = Nanos(delay_error)
      BY <1>0, <2>1, <2>2 DEF Slept
    <3>2. sleep_count * MaxSlew \in Nat /\ sleep_count' = sleep_count
      BY <1>0, <2>1
    <3> QED BY <2>1, <2>2, <3>1, <3>2
  <2> QED BY <2>3, <2>4
<1>b. /\ sleep_count * MaxSlew \in Nat
      /\ (sleep_count + 1) * MaxSlew = sleep_count * MaxSlew + MaxSlew
  BY <1>0
<1>3. CASE SleepEnds
  <2>1. PICK m \in 0 .. Nanos(sleep_time) + MaxLate :
            m >= Nanos(sleep_time) - MaxSlew /\ now' = now + m
    BY <1>3 DEF SleepEnds, Slumber
  <2>2. pc = "sleep" /\ pc' = "awake" /\ UNCHANGED <<loop, times>>
    BY <1>3 DEF SleepEnds
  <2>3. Nanos(rtclk_start_time)' = Nanos(rtclk_start_time)
    BY <2>2 DEF times
  <2>4. Slept >= 0 /\ Slept + Nanos(sleep_time) + sleep_count * MaxSlew >= TEST_NANOSECONDS
    BY <2>2
  <2>5. m \in Nat /\ now' \in Nat /\ Slept \in Int /\ Slept' = Slept + m
    BY <1>0, <1>a, <2>1, <2>3 DEF Slept
  <2>6. Slept' >= 0 /\ Slept' + (sleep_count + 1) * MaxSlew >= TEST_NANOSECONDS
    BY <1>a, <1>b, <2>1, <2>4, <2>5
  <2>7. TypeOK'
    BY <2>2, <2>5 DEF TypeOK, loop, times
  <2>8. SleepInv'
    BY <2>2, <2>6 DEF loop, times
  <2> QED BY <2>7, <2>8
<1>4. CASE SleepInterrupted
  <2>1. PICK slept \in 0 .. Nanos(sleep_time) - 1 :
            /\ Slumber(slept)
            /\ sleep_time' = Timespec(Nanos(sleep_time) - slept)
    BY <1>4 DEF SleepInterrupted
  <2>a. PICK m \in 0 .. slept + MaxLate : m >= slept - MaxSlew /\ now' = now + m
    BY <2>1 DEF Slumber
  <2>2. pc = "sleep" /\ sleep_count' = sleep_count + 1 /\ UNCHANGED <<idx, times>>
        /\ pc' = IF Again(sleep_time', sleep_count') THEN "sleep" ELSE "awake"
    BY <1>4 DEF SleepInterrupted
  <2>3. /\ Nanos(sleep_time) \in 1 .. TEST_NANOSECONDS
        /\ Slept >= 0 /\ Slept + Nanos(sleep_time) + sleep_count * MaxSlew >= TEST_NANOSECONDS
    BY <2>2 DEF TypeOK
  <2>4. Nanos(sleep_time) - slept \in Nat /\ Nanos(sleep_time) - slept \in 1 .. TEST_NANOSECONDS
    BY <2>1, <2>3
  <2>5. sleep_time' \in timespec /\ Nanos(sleep_time)' = Nanos(sleep_time) - slept
    <3>1. Timespec(Nanos(sleep_time) - slept) \in timespec
          /\ Nanos(Timespec(Nanos(sleep_time) - slept)) = Nanos(sleep_time) - slept
      BY <2>4, TimespecNanos
    <3> QED BY <2>1, <3>1 DEF Nanos
  <2>6. Nanos(rtclk_start_time)' = Nanos(rtclk_start_time)
    BY <2>2 DEF times
  <2>7. m \in Nat /\ now' \in Nat /\ Slept \in Int /\ Slept' = Slept + m
    BY <1>0, <1>a, <2>1, <2>a, <2>6 DEF Slept
  <2>8. /\ Slept' >= 0
        /\ Slept' + Nanos(sleep_time)' + sleep_count' * MaxSlew >= TEST_NANOSECONDS
    <3>1. sleep_count' * MaxSlew = sleep_count * MaxSlew + MaxSlew
      BY <1>b, <2>2
    <3>2. slept \in Nat /\ m + MaxSlew >= slept
      BY <2>1, <2>a, <2>7
    <3> QED BY <1>a, <1>b, <2>3, <2>5, <2>7, <3>1, <3>2
  <2>9. pc' = "awake" => sleep_count' >= max_sleep_calls
    <3>1. sleep_time'.tv_sec > 0 \/ sleep_time'.tv_nsec > 0
      <4>1. sleep_time'.tv_sec \in Nat /\ sleep_time'.tv_nsec \in Nat
        BY <2>5 DEF timespec
      <4>2. CASE sleep_time'.tv_sec = 0 /\ sleep_time'.tv_nsec = 0
        <5>1. Nanos(sleep_time)' = 0
          BY <4>2 DEF Nanos
        <5> QED BY <2>4, <2>5, <5>1
      <4> QED BY <4>1, <4>2
    <3> QED BY <1>0, <2>2, <3>1 DEF Again
  <2>10. TypeOK'
    BY <1>0, <2>2, <2>4, <2>5, <2>7 DEF TypeOK, times
  <2>11. sleep_count' \in Nat
    BY <1>0, <2>2
  <2>12. SleepInv'
    BY <2>2, <2>8, <2>9, <2>11 DEF times
  <2> QED BY <2>10, <2>12
<1>5. CASE Measure
  <2> DEFINE e == delta_t(rtclk_stop_time', rtclk_start_time, rtclk_dt)
             f == delta_t(rtclk_dt', sleep_requested, delay_error)
  <2>1. /\ pc = "awake" /\ pc' = "report" /\ rtclk_stop_time' = Timespec(now)
        /\ rtclk_dt' = e.delta /\ delay_error' = f.delta
        /\ full' = IF Slept >= TEST_NANOSECONDS THEN Slept - TEST_NANOSECONDS ELSE full
        /\ UNCHANGED <<now, loop, rtclk_start_time>>
    BY <1>5 DEF Measure, Slept
  <2>2. rtclk_stop_time' \in timespec /\ Nanos(rtclk_stop_time') = now
    BY <1>0, <2>1, TimespecNanos
  <2>3. /\ Slept \in Nat
        /\ sleep_count < max_sleep_calls =>
               Slept + (sleep_count + 1) * MaxSlew >= TEST_NANOSECONDS
    BY <1>0, <1>a, <2>1 DEF Slept
  <2>4. now >= Nanos(rtclk_start_time)
    BY <1>0, <1>a, <2>3 DEF Slept
  <2>5. rtclk_dt' \in timespec /\ Nanos(rtclk_dt') = Slept
    BY <1>0, <2>1, <2>2, <2>4, DeltaT DEF Slept
  <2>6. delay_error' \in timespec /\ Nanos(delay_error') = full' /\ full' \in Nat
    <3>1. CASE Slept >= TEST_NANOSECONDS
      BY <1>0, <2>1, <2>3, <2>5, <3>1, DeltaT, Requested
    <3>2. CASE ~(Slept >= TEST_NANOSECONDS)
      BY <1>0, <2>1, <2>3, <2>5, <3>2, DeltaT, Requested
    <3> QED BY <3>1, <3>2
  <2> HIDE DEF e, f
  <2>7. TypeOK'
    BY <1>0, <2>1, <2>2, <2>5, <2>6 DEF TypeOK, loop
  <2>8. Nanos(rtclk_start_time)' = Nanos(rtclk_start_time)
    BY <2>1
  <2>9. Nanos(rtclk_dt)' = Slept /\ Nanos(rtclk_stop_time)' = now /\ Nanos(delay_error)' = full'
    BY <2>2, <2>5, <2>6 DEF Nanos
  <2>10. SleepInv'
    BY <2>1, <2>3, <2>8, <2>9 DEF loop, Slept
  <2> QED BY <2>7, <2>10
<1>6. CASE end_delay_test
  <2>1. PICK d \in 0 .. MaxLate : now' = now + d
    BY <1>6 DEF end_delay_test
  <2>2. pc' = "test" /\ UNCHANGED <<sleep_count, sleep_time, times>>
    BY <1>6 DEF end_delay_test
  <2>3. idx' = idx + 1 /\ idx < TEST_ITERATIONS
    BY <1>6 DEF end_delay_test
  <2>4. now' \in Nat /\ idx' \in 0 .. TEST_ITERATIONS
    BY <1>0, <2>1, <2>3
  <2>5. TypeOK'
    BY <2>2, <2>4 DEF TypeOK, times
  <2>6. SleepInv'
    BY <2>2 DEF times
  <2> QED BY <2>5, <2>6
<1>7. CASE Ended \/ UNCHANGED vars
  BY <1>7 DEF Ended, vars, loop, times, TypeOK, Slept
<1> QED BY <1>1, <1>2, <1>3, <1>4, <1>5, <1>6, <1>7 DEF Next, delay_test

\* The types and SleepInv hold in every state.
LEMMA ClockInvariant == Spec => [](TypeOK /\ SleepInv)
<1>1. Init => TypeOK /\ SleepInv
  BY InitClock
<1>2. TypeOK /\ SleepInv /\ [Next]_vars => TypeOK' /\ SleepInv'
  BY NextClock
<1> QED BY <1>1, <1>2, PTL DEF Spec

\* Every time in the program is a proper timespec, whatever interrupts it: what
\* delta_t computes has its nanoseconds in range.
THEOREM TypeCorrect == Spec => []TypeOK
BY ClockInvariant, PTL

\* The reported DT is the time that passed, for any length of a second and of the
\* sleep, across any number of roll-overs.
THEOREM DtIsRight == Spec => []DtIsElapsed
<1>1. SleepInv => DtIsElapsed
  BY DEF SleepInv
<1> QED BY <1>1, ClockInvariant, PTL

\* The reported delay error is exactly that of the last sleep that did not measure
\* short, although the results of delta_t are ignored.
THEOREM ErrorIsRight == Spec => []ErrorIsOfLastFullSleep
<1>1. SleepInv => ErrorIsOfLastFullSleep
  BY DEF SleepInv, ErrorIsOfLastFullSleep
<1> QED BY <1>1, ClockInvariant, PTL

\* Below max_sleep_calls interruptions no test is cut short: it reports a DT that
\* falls short of the request by no more than the clocks differ, however much that is.
THEOREM SleepsAreCompleted == Spec => []ShortOnlyAtLimit
<1>1. SleepInv => ShortOnlyAtLimit
  BY DEF SleepInv
<1> QED BY <1>1, ClockInvariant, PTL
=============================================================================
