---------------------------- MODULE MCxBFTLong -----------------------------
(***************************************************************************)
(* A chain  g - a1 - a2 - a3 - a4, on which two blocks commit.             *)
(***************************************************************************)
EXTENDS xBFTDriver

MCBlock == {"g", "a1", "a2", "a3", "a4"}

MCheight == [b \in MCBlock |->
    CASE b = "g" -> 0 [] b = "a1" -> 1 [] b = "a2" -> 2 [] b = "a3" -> 3 [] b = "a4" -> 4]

MCparent == [b \in MCBlock |->
    CASE b \in {"g", "a1"} -> "g" [] b = "a2" -> "a1" [] b = "a3" -> "a2" [] b = "a4" -> "a3"]

MCleader == [b \in MCBlock |-> "o"]

MCroot == [b \in MCBlock |-> b]

MCjustify == [b \in MCBlock |-> CASE b = "a3" -> "a1" [] b = "a4" -> "a2" [] OTHER -> "g"]

\* Children come before their parents.
MCbyHash == <<"a4", "a3", "a2", "a1">>

\* What the histories leave out.
MCView == <<n, won>>

============================================================================
