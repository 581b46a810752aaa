------------------------------ MODULE MCFmSweep ------------------------------
(* FmSweep for TLC: an ascending list, one with a repeated rate, one in the *)
(* wrong order and one that is too short.  A play may have a longer window  *)
(* than the one before it, and a load may arm fewer devices than another.   *)
EXTENDS FmSweep

MCRateLists == {<<1, 2>>, <<1, 1>>, <<2, 1>>, <<2>>}
=============================================================================
