------------------------------ MODULE MCRseAtu ------------------------------
(***************************************************************************)
(* Two regions over a bus of sixteen addresses with pages of two: offsets  *)
(* below 8 are positive, 8 to 15 negative, and a page offset of 8 and more *)
(* overflows.                                                              *)
(***************************************************************************)
EXTENDS RseAtu, TLC

MCWords ==
  (0 :> [rsla |-> {1}, rela |-> {1, 3}, rav_l |-> {1}, rav_m |-> {}, roba |-> {},
         rgpv |-> {}])
  @@
  (1 :> [rsla |-> {0, 1}, rela |-> {1, 3}, rav_l |-> {0, 3}, rav_m |-> {1, 2},
         roba |-> {Zero, [nse |-> 0, prot1 |-> 3]}, rgpv |-> {0}])

MCMemories ==
  {{[lo |-> 0, hi |-> 3, host |-> 100], [lo |-> 4, hi |-> 15, host |-> 200]},
   {[lo |-> 3, hi |-> 8, host |-> 300]}}

=============================================================================
