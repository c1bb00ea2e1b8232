--------------------------------- MODULE MCPlayer ---------------------------------
(***************************************************************************)
(* Traces of up to MaxSteps steps over the runs 0, 1 and 2, any of which   *)
(* may have no steps.                                                      *)
(***************************************************************************)
EXTENDS Player

CONSTANT MaxSteps

SmallRuns == 0..2

SmallTraces ==
  {t \in UNION {[1..n -> SmallRuns] : n \in 0..MaxSteps} :
     \A i, j \in DOMAIN t : i <= j => t[i] <= t[j]}

SliderRange == 0..(MaxSteps - 1)
==============================================================================
