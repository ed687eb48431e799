---------------------------- MODULE MCDynclkMode ----------------------------
(***************************************************************************)
(* Instances of DynclkMode.  The frequencies are five times the pixel      *)
(* clocks of common video modes, and the ends of the ranges; the parents   *)
(* are the board's 100 MHz and the values where a bound of the loops       *)
(* changes.                                                                *)
(***************************************************************************)
EXTENDS DynclkMode

MCFreqs == {0, 3999, 4000, 4687, 125000, 125875, 162000, 200000, 325000, 371250,
            540000, 742500, 770000, 800000, 800001}
MCParents == {0, 9375, 9999, 10000, 18750, 33333, 50000, 100000, 150015, 200000, 450000,
              450001, 599999, 600001, 900000, 900001, 1200000, 1200001}
=============================================================================
