----------------------------- MODULE MC_K8sWatch -----------------------------
(* The objects, changes, lost connections and error answers the cfg sets. *)
EXTENDS K8sWatch
=============================================================================
