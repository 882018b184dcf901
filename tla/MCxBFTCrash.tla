---------------------------- MODULE MCxBFTCrash ----------------------------
(***************************************************************************)
(* A tree that forks at the genesis: both branches can be certified up to  *)
(* height 2, and height 3 decides between them.  The two honest members    *)
(* may both crash, and both must vote for a certificate.  Each leads one   *)
(* of the branches, b3x is what n1 would build on b2 if it were locked on  *)
(* a1, and c1 is a rival of b1 in its own view, proposed by a member       *)
(* outside Honest.                                                         *)
(***************************************************************************)
EXTENDS xBFTVoting

MCBlock == {"g", "a1", "b1", "a2", "b2", "a3", "b3", "b3x", "c1"}
MCheight == [g |-> 0, a1 |-> 1, b1 |-> 1, a2 |-> 2, b2 |-> 2, a3 |-> 3, b3 |-> 3,
             b3x |-> 3, c1 |-> 1]
MCview == [g |-> 0, a1 |-> 1, b1 |-> 2, a2 |-> 3, b2 |-> 4, a3 |-> 5, b3 |-> 6,
           b3x |-> 7, c1 |-> 2]
MCparent == [g |-> "g", a1 |-> "g", b1 |-> "g", a2 |-> "a1", b2 |-> "b1",
             a3 |-> "a2", b3 |-> "b2", b3x |-> "b2", c1 |-> "g"]
MCjustify == [g |-> "g", a1 |-> "g", b1 |-> "g", a2 |-> "g", b2 |-> "g",
              a3 |-> "a1", b3 |-> "b1", b3x |-> "a1", c1 |-> "g"]
MCleader == [g |-> "n1", a1 |-> "n1", b1 |-> "n2", a2 |-> "n1", b2 |-> "n2",
             a3 |-> "n1", b3 |-> "n2", b3x |-> "n1", c1 |-> "n3"]
MCroot == [b \in MCBlock |-> b]

MCHonest == {"n1", "n2"}
MCNode == {"n1", "n2", "n3"}
MCQuorum == {MCHonest, MCNode}

=============================================================================
