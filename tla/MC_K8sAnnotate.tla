---------------------------- MODULE MC_K8sAnnotate ----------------------------
(* Two annotation keys with two values each, two writes by other clients *)
(* and one failed patch.                                                  *)
EXTENDS K8sAnnotate
=============================================================================
