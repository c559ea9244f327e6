---------------------------- MODULE MCRingQueue -----------------------------
(* The ring buffer with a few elements and capacities. *)
EXTENDS RingQueue
=============================================================================
