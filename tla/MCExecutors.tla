---------------------------- MODULE MCExecutors ----------------------------
(* Two executors that may share an id, and a pool; one thread each.          *)
EXTENDS Executors, TLC

CONSTANTS a, b, p, wa, wb, wp

MCHome == (wa :> a) @@ (wb :> b) @@ (wp :> p)
=============================================================================
