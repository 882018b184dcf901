---------------------------- MODULE MCxBFTViews ----------------------------
(***************************************************************************)
(* Two blocks in each of the views 1 and 2: in each, one is proposed by an *)
(* honest leader and its rival by the member outside Honest.               *)
(***************************************************************************)
EXTENDS xBFTVoting

MCBlock == {"g", "a1", "b1", "a2", "b2", "a3"}
MCheight == [g |-> 0, a1 |-> 1, b1 |-> 1, a2 |-> 2, b2 |-> 2, a3 |-> 3]
MCview == [g |-> 0, a1 |-> 1, b1 |-> 1, a2 |-> 2, b2 |-> 2, a3 |-> 3]
MCparent == [g |-> "g", a1 |-> "g", b1 |-> "g", a2 |-> "a1", b2 |-> "b1", a3 |-> "a2"]
MCjustify == [g |-> "g", a1 |-> "g", b1 |-> "g", a2 |-> "g", b2 |-> "g", a3 |-> "a1"]
MCleader == [g |-> "n1", a1 |-> "n1", b1 |-> "n4", a2 |-> "n2", b2 |-> "n4", a3 |-> "n3"]
MCroot == [b \in MCBlock |-> b]

MCHonest == {"n1", "n2", "n3"}
MCNode == MCHonest \cup {"n4"}
MCQuorum == {Q \in SUBSET MCNode : Cardinality(Q) = 3}

=============================================================================
