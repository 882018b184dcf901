---------------------------- MODULE MCxBFTFork -----------------------------
(***************************************************************************)
(* A fork from the first block on:  g - a1 - a2 - a3  and  g - b1 - b2.    *)
(* The member leads a2 and b2 itself.  Both first blocks have a            *)
(* certificate of view 1, as restarts make possible.                       *)
(***************************************************************************)
EXTENDS xBFTDriver

MCBlock == {"g", "a1", "a2", "a3", "b1", "b2"}

MCheight == [b \in MCBlock |->
    CASE b = "g" -> 0 [] b \in {"a1", "b1"} -> 1 [] b \in {"a2", "b2"} -> 2 [] b = "a3" -> 3]

MCview == [b \in MCBlock |->
    CASE b = "g" -> 0 [] b \in {"a1", "b1"} -> 1 [] b = "a2" -> 2 [] b = "b2" -> 3 [] b = "a3" -> 4]

MCparent == [b \in MCBlock |->
    CASE b \in {"g", "a1", "b1"} -> "g" [] b = "a2" -> "a1" [] b = "b2" -> "b1" [] b = "a3" -> "a2"]

MCleader == [b \in MCBlock |-> IF b \in {"a2", "b2"} THEN "m" ELSE "o"]

MCroot == [b \in MCBlock |-> b]

MCjustify == [b \in MCBlock |-> IF b = "a3" THEN "a1" ELSE "g"]

\* Children come before their parents.
MCbyHash == <<"a3", "b2", "a2", "b1", "a1">>

============================================================================
