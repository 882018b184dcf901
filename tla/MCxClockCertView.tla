-------------------------- MODULE MCxClockCertView --------------------------
(***************************************************************************)
(* Two members that both must vote and lead every other view.  The clocks  *)
(* put two of them in one view and the others in different ones, so that   *)
(* a view passes by the clock and by a certificate; the last clock lies    *)
(* far enough ahead for both members to end in the same view.              *)
(***************************************************************************)
EXTENDS xClockCertView

MCMember == {"m1", "m2"}
MCQuorum == {MCMember}
MCleaderOf == [v \in View |-> IF v % 2 = 0 THEN "m1" ELSE "m2"]

=============================================================================
