----------------------------- MODULE MC_CNIDaemon -----------------------------
(* Two pods, each with or without a VIF annotation, and three sandbox *)
(* ids.                                                                *)
EXTENDS CNIDaemon
=============================================================================
