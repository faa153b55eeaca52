----------------------------- MODULE MCSeqTimer -----------------------------
(* Few services stand for seven: the handler releases all but the first, at   *)
(* different rates (Service_4 and Service_7 in seqgen3.c); its sem_post for   *)
(* the first is commented out there, like that for Service_1.                *)
EXTENDS SeqTimer

MCEvery == [s \in 2 .. N |-> 4 - s]
=============================================================================
