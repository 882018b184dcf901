---------------------------- MODULE MCxBFTRestart ---------------------------
(***************************************************************************)
(* A chain  g - a1 - a2 - a3  whose last block the member leads.           *)
(***************************************************************************)
EXTENDS xBFTDriver

MCBlock == {"g", "a1", "a2", "a3"}

MCheight == [b \in MCBlock |->
    CASE b = "g" -> 0 [] b = "a1" -> 1 [] b = "a2" -> 2 [] b = "a3" -> 3]

MCparent == [b \in MCBlock |->
    CASE b \in {"g", "a1"} -> "g" [] b = "a2" -> "a1" [] b = "a3" -> "a2"]

MCleader == [b \in MCBlock |-> IF b = "a3" THEN "m" ELSE "o"]

MCroot == [b \in MCBlock |-> b]

MCjustify == [b \in MCBlock |-> IF b = "a3" THEN "a1" ELSE "g"]

\* Children come before their parents.
MCbyHash == <<"a3", "a2", "a1">>

============================================================================
