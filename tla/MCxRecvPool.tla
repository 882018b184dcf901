---------------------------- MODULE MCxRecvPool ----------------------------
(* Two receipts, in the first and the third of three blocks. *)
EXTENDS xRecvPool

MCReceipt == {"r1", "r2"}
MCclockOf == [r1 |-> 1, r2 |-> 2]
MCchain == <<{"r1"}, {}, {"r2"}>>

=============================================================================
