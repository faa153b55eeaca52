---------------------------- MODULE PosixClock -----------------------------
(***************************************************************************)
(* The delay test of rtos_rte_cp/RT-Clock/posix_clock.c: a thread sleeps   *)
(* TEST_ITERATIONS times, takes the time before and after, and reports how *)
(* long it slept and by how much that exceeds what it asked for.  Signals  *)
(* may interrupt every sleep.                                              *)
(*                                                                         *)
(* nanosleep runs on a clock that is slewed, the time stamps are taken     *)
(* from the raw one: a sleep may end late, and may also measure shorter    *)
(* than it was.                                                            *)
(***************************************************************************)
EXTENDS Integers

CONSTANTS
    NSEC_PER_SEC,
    TEST_NANOSECONDS,   \* the sleep that is asked for, less than a second
    TEST_ITERATIONS,
    max_sleep_calls,    \* 3
    MaxLate,            \* bound: nanoseconds by which a sleep may end too late
    MaxSlew             \* bound: nanoseconds by which a sleep may measure too short

ASSUME ClockAssumption ==
    /\ NSEC_PER_SEC \in Nat \ {0}
    /\ TEST_NANOSECONDS \in 1 .. NSEC_PER_SEC - 1
    /\ TEST_ITERATIONS \in Nat
    /\ max_sleep_calls \in Nat \ {0}
    /\ MaxLate \in Nat
    /\ MaxSlew \in Nat

OK == 0
ERROR == -1

\* struct timespec, as the clock fills it in
timespec == [tv_sec : Nat, tv_nsec : 0 .. NSEC_PER_SEC - 1]

\* The time a timespec stands for, in nanoseconds, and back.
Nanos(t) == t.tv_sec * NSEC_PER_SEC + t.tv_nsec
Timespec(n) == [tv_sec |-> n \div NSEC_PER_SEC, tv_nsec |-> n % NSEC_PER_SEC]

sleep_requested == [tv_sec |-> 0, tv_nsec |-> TEST_NANOSECONDS]

-----------------------------------------------------------------------------
(* int delta_t(stop, start, delta_t): its result, and what it leaves in    *)
(* *delta_t, which held delta.                                             *)

\* Mutant: no second is borrowed on a roll-over.
MutDeltaT(stop, start, delta) ==
    LET dt_sec == stop.tv_sec - start.tv_sec
        dt_nsec == stop.tv_nsec - start.tv_nsec
        Result(sec, nsec) == [rc |-> OK, delta |-> [tv_sec |-> sec, tv_nsec |-> nsec]]
    IN  CASE dt_sec = 0 /\ dt_nsec >= 0 -> Result(0, dt_nsec)
          [] dt_sec = 0 /\ dt_nsec < 0 -> [rc |-> ERROR, delta |-> delta]
          [] dt_sec > 0 /\ dt_nsec >= 0 -> Result(dt_sec, dt_nsec)
          [] dt_sec > 0 /\ dt_nsec < 0 -> Result(dt_sec, NSEC_PER_SEC + dt_nsec)
          [] dt_sec < 0 -> [rc |-> OK, delta |-> delta]

\* Mutant: the smaller time is subtracted from the greater.
MutAbsDelta(stop, start, delta) ==
    LET d == Nanos(stop) - Nanos(start)
    IN  [rc |-> OK, delta |-> Timespec(IF d < 0 THEN -d ELSE d)]

delta_t(stop, start, delta) ==
    LET dt_sec == stop.tv_sec - start.tv_sec
        dt_nsec == stop.tv_nsec - start.tv_nsec
        InRange == dt_nsec >= 0 /\ dt_nsec < NSEC_PER_SEC
        Result(sec, nsec) == [rc |-> OK, delta |-> [tv_sec |-> sec, tv_nsec |-> nsec]]
    IN  IF dt_sec = 0
        THEN IF InRange THEN Result(0, dt_nsec)
             ELSE IF dt_nsec > NSEC_PER_SEC THEN Result(1, dt_nsec - NSEC_PER_SEC)
             ELSE [rc |-> ERROR, delta |-> delta]
        ELSE IF dt_sec > 0
        THEN IF InRange THEN Result(dt_sec, dt_nsec)
             ELSE IF dt_nsec > NSEC_PER_SEC
                  THEN Result(delta.tv_sec + 1, dt_nsec - NSEC_PER_SEC)
             ELSE Result(dt_sec - 1, NSEC_PER_SEC + dt_nsec)
        ELSE [rc |-> OK, delta |-> delta]

-----------------------------------------------------------------------------
VARIABLES
    pc,
    now,                  \* MY_CLOCK, in nanoseconds
    idx, sleep_count,
    sleep_time,           \* what the next nanosleep asks for
    rtclk_start_time, rtclk_stop_time,
    rtclk_dt, delay_error,
    full                  \* history: by how many nanoseconds the last sleep that
                          \* did not measure short exceeded the request

loop == <<idx, sleep_count, sleep_time>>
times == <<rtclk_start_time, rtclk_stop_time, rtclk_dt, delay_error, full>>
vars == <<pc, now, loop, times>>

\* The clock may stand anywhere within a second.
Init ==
    /\ pc = "setscheduler"
    /\ now \in 0 .. NSEC_PER_SEC - 1
    /\ idx = 0
    /\ sleep_count = 0
    /\ sleep_time = Timespec(0)
    /\ rtclk_start_time = Timespec(0)
    /\ rtclk_stop_time = Timespec(0)
    /\ rtclk_dt = Timespec(0)
    /\ delay_error = Timespec(0)
    /\ full = 0

\* main: sched_setscheduler, pthread_create and clock_getres make the process
\* exit when they fail.
Start ==
    /\ \/ pc = "setscheduler" /\ pc' \in {"create", "exited"}
       \/ pc = "create" /\ pc' \in {"getres", "exited"}
       \/ pc = "getres" /\ pc' \in {"test", "exited"}
    /\ UNCHANGED <<now, loop, times>>

-----------------------------------------------------------------------------
(* delay_test.                                                             *)

BeginTest ==
    /\ pc = "test"
    /\ idx < TEST_ITERATIONS
    /\ pc' = "sleep"
    /\ sleep_time' = sleep_requested
    /\ rtclk_start_time' = Timespec(now)
    /\ UNCHANGED <<now, idx, sleep_count, rtclk_stop_time, rtclk_dt, delay_error, full>>

\* nanosleep has slept d nanoseconds; MY_CLOCK never goes back.
Slumber(d) == \E m \in 0 .. d + MaxLate : m >= d - MaxSlew /\ now' = now + m

\* nanosleep returns 0: break.
SleepEnds ==
    /\ pc = "sleep"
    /\ Slumber(Nanos(sleep_time))
    /\ pc' = "awake"
    /\ UNCHANGED <<loop, times>>

\* Mutant: the sleep is not repeated.
MutAgain(remaining, count) == FALSE

\* while(time remains && sleep_count < max_sleep_calls)
Again(remaining, count) ==
    (remaining.tv_sec > 0 \/ remaining.tv_nsec > 0) /\ count < max_sleep_calls

\* nanosleep returns -1 with the time that remains.  sleep_count is not reset
\* between the tests.
SleepInterrupted ==
    /\ pc = "sleep"
    /\ \E slept \in 0 .. Nanos(sleep_time) - 1 :
        /\ Slumber(slept)
        /\ sleep_time' = Timespec(Nanos(sleep_time) - slept)
    /\ sleep_count' = sleep_count + 1
    /\ pc' = IF Again(sleep_time', sleep_count') THEN "sleep" ELSE "awake"
    /\ UNCHANGED <<idx, times>>

\* The stop time is taken and both differences; neither result is looked at.
Measure ==
    /\ pc = "awake"
    /\ pc' = "report"
    /\ rtclk_stop_time' = Timespec(now)
    /\ rtclk_dt' = delta_t(rtclk_stop_time', rtclk_start_time, rtclk_dt).delta
    /\ delay_error' = delta_t(rtclk_dt', sleep_requested, delay_error).delta
    /\ LET slept == now - Nanos(rtclk_start_time)
       IN  full' = IF slept >= TEST_NANOSECONDS THEN slept - TEST_NANOSECONDS ELSE full
    /\ UNCHANGED <<now, loop, rtclk_start_time>>

\* Time passes while end_delay_test prints.
end_delay_test ==
    /\ pc = "report"
    /\ pc' = "test"
    /\ idx' = idx + 1
    /\ \E d \in 0 .. MaxLate : now' = now + d
    /\ UNCHANGED <<sleep_count, sleep_time, times>>

\* The thread ends and main prints TEST COMPLETE.
Complete ==
    /\ pc = "test"
    /\ idx = TEST_ITERATIONS
    /\ pc' = "complete"
    /\ UNCHANGED <<now, loop, times>>

delay_test ==
    BeginTest \/ SleepEnds \/ SleepInterrupted \/ Measure \/ end_delay_test \/ Complete

\* The process is gone.
Ended == pc \in {"complete", "exited"} /\ UNCHANGED vars

Next == Start \/ delay_test \/ Ended

Spec == Init /\ [][Next]_vars

-----------------------------------------------------------------------------
(* Properties.                                                             *)

TypeOK ==
    /\ pc \in {"setscheduler", "create", "getres", "test", "sleep", "awake", "report",
               "complete", "exited"}
    /\ now \in Nat
    /\ idx \in 0 .. TEST_ITERATIONS
    /\ sleep_count \in Nat
    /\ sleep_time \in timespec
    /\ pc = "sleep" => Nanos(sleep_time) \in 1 .. TEST_NANOSECONDS
    /\ {rtclk_start_time, rtclk_stop_time, rtclk_dt, delay_error} \subseteq timespec
    /\ full \in Nat

\* The reported DT is the time that has passed, whether or not the seconds have
\* rolled over in between.
DtIsElapsed ==
    pc = "report" => Nanos(rtclk_dt) = Nanos(rtclk_stop_time) - Nanos(rtclk_start_time)

\* The reported delay error is that of the last sleep that did not measure short:
\* delta_t leaves it alone when the difference is below the request, and nobody
\* looks at the ERROR it returns.
ErrorIsOfLastFullSleep == pc = "report" => Nanos(delay_error) = full

\* "request sleep time and repeat if time remains": as long as fewer than
\* max_sleep_calls interruptions have been met (they are counted over all tests),
\* every test sleeps for the whole request, so that the reported DT falls short of it
\* by no more than the clocks differ over its sleeps, one more than interruptions.
ShortOnlyAtLimit ==
    (pc = "report" /\ sleep_count < max_sleep_calls)
        => Nanos(rtclk_dt) + (sleep_count + 1) * MaxSlew >= TEST_NANOSECONDS
=============================================================================
