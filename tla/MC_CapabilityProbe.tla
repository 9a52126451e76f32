-------------------------- MODULE MC_CapabilityProbe --------------------------
(* Discovery answers with up to two regions of up to two versions each,   *)
(* the configured region among them or not.  The versions straddle every *)
(* threshold, include a longer tuple and one whose minor exceeds theirs   *)
(* under a smaller major.                                                 *)
EXTENDS CapabilityProbe

MCVersionTuples ==
    {<<1, 20>>, <<2, 4>>, <<2, 5>>, <<2, 10>>, <<2, 11>>, <<2, 11, 1>>, <<2, 12>>}
=============================================================================
