---------------------------- MODULE MC_Reconcile ----------------------------
(* A service with two listeners, one of them on a protocol the provider   *)
(* rejects, and a pool; lost and 500 answers to create, no ERROR status.  *)
EXTENDS Reconcile

MCIds == 1..10
=============================================================================
