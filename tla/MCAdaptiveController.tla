------------------------ MODULE MCAdaptiveController ------------------------
(* Instances of AdaptiveController: settings that are missing, in any order   *)
(* of size, with and without an item rate, and limits large enough for an     *)
(* increase above one.                                                        *)
EXTENDS AdaptiveController

MCCap == [rate |-> 40, batch |-> 4, duty |-> 5]

Limit(r, b, d) == [rate |-> r, batch |-> b, duty |-> d]

MCDefault ==
  [floor |-> Limit(3, 2, 2), canary |-> Limit(19, 3, 3), ceiling |-> Limit(0, 4, 5),
   window |-> 2, delay |-> 1, maxDelay |-> 3]

MCFiles ==
  [floor : {Limit(Unset, Unset, 0), Limit(9, 9, 9)},
   canary : {Limit(1, 3, Unset), Limit(Unset, 0, 9)},
   ceiling : {Limit(Unset, Unset, Unset), Limit(0, 0, 0), Limit(24, 5, 4)},
   batchSize : {Unset, 3}, window : {0, Unset}, delay : {Unset}, maxDelay : {0, Unset}]
=============================================================================
