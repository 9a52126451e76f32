-------------------------- MODULE MC_LBaaSv2Driver --------------------------
(* One service with a listener l1 (unique per port) and a pool p1 (the   *)
(* listener's default pool, a second one refused with 409), two injected  *)
(* faults, a timer that allows two polls and sg_mode 'create'.            *)
EXTENDS LBaaSv2Driver

MCIds == 1..12
=============================================================================
