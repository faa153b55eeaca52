---------------------------- MODULE MCSeqThread ----------------------------
(* Dividers scaled down from those of seqgen.c (10, 30, 60: 1, 3, 6) so that *)
(* every service is released several times, in different combinations.       *)
EXTENDS SeqThread

MCEvery == [s \in Service |-> IF s = 1 THEN 1 ELSE 3]
=============================================================================
