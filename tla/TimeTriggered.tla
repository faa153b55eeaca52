---------------------------- MODULE TimeTriggered ----------------------------
(***************************************************************************)
(* What a time-triggered scheduler promises, without table fields, flags   *)
(* or interrupts: a task installed with delay d and period p falls due on  *)
(* the tick d + 1 and, when p > 0, every p + 1 ticks from then on; a task  *)
(* that fell due runs exactly once before the next tick; a one-shot task   *)
(* leaves when it has run.                                                 *)
(***************************************************************************)
EXTENDS Integers

CONSTANTS Slot, Delays, Periods

VARIABLES
    wait,     \* ticks each slot lets pass before it falls due; Free without a task
    period,   \* ticks between two due dates less one; 0: once only
    pending   \* the slots that fell due at the last tick and have not run yet

avars == <<wait, period, pending>>

Free == -1

AInit ==
    /\ wait = [i \in Slot |-> Free]
    /\ period = [i \in Slot |-> 0]
    /\ pending = {}

Install(i, d, p) ==
    /\ wait[i] = Free
    /\ wait' = [wait EXCEPT ![i] = d]
    /\ period' = [period EXCEPT ![i] = p]
    /\ UNCHANGED pending

Remove(i) ==
    /\ wait' = [wait EXCEPT ![i] = Free]
    /\ period' = [period EXCEPT ![i] = 0]
    /\ pending' = pending \ {i}

\* A tick: nothing is left over from the tick before.
Tick ==
    /\ pending = {}
    /\ pending' = {i \in Slot : wait[i] = 0}
    /\ wait' = [i \in Slot |-> IF wait[i] = Free THEN Free
                               ELSE IF wait[i] = 0 THEN period[i] ELSE wait[i] - 1]
    /\ UNCHANGED period

Run(i) ==
    /\ i \in pending
    /\ IF period[i] = 0
       THEN Remove(i)
       ELSE pending' = pending \ {i} /\ UNCHANGED <<wait, period>>

ANext ==
    \/ \E i \in Slot, d \in Delays, p \in Periods : Install(i, d, p)
    \/ \E i \in Slot : Remove(i) \/ Run(i)
    \/ Tick

ASpec == AInit /\ [][ANext]_avars
=============================================================================
