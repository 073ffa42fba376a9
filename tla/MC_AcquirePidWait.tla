------------------------- MODULE MC_AcquirePidWait -------------------------
(* Three waiting ops competing for one or two packet ids.                   *)
EXTENDS AcquirePidWait

CONSTANTS a1, a2, a3

MC_Ops == {a1, a2, a3}
=============================================================================
