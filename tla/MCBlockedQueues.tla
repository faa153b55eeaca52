--------------------------- MODULE MCBlockedQueues ---------------------------
(* The queues to model-check: one with room for two values and one without bound. *)
EXTENDS BlockedQueues

QueueSizes == {2, Unbounded}
=============================================================================
