--------------------------- MODULE MCxBlockStore ---------------------------
(***************************************************************************)
(* A fork at the first two heights:  g - a1 - a2 - a3 - a4  and g - b1 - b2. *)
(* b2 is certified late, so a node may lock b1 before it hears of a2.      *)
(***************************************************************************)
EXTENDS xBlockStore

MCBlock == {"g", "a1", "a2", "a3", "a4", "b1", "b2"}

MCheight == [b \in MCBlock |->
    CASE b = "g" -> 0 [] b \in {"a1", "b1"} -> 1 [] b \in {"a2", "b2"} -> 2
      [] b = "a3" -> 3 [] b = "a4" -> 4]

MCview == [b \in MCBlock |->
    CASE b = "g" -> 0 [] b = "a1" -> 1 [] b = "b1" -> 2 [] b = "b2" -> 3
      [] b = "a2" -> 4 [] b = "a3" -> 5 [] b = "a4" -> 6]

MCparent == [b \in MCBlock |->
    CASE b \in {"g", "a1", "b1"} -> "g" [] b = "a2" -> "a1" [] b = "b2" -> "b1"
      [] b = "a3" -> "a2" [] b = "a4" -> "a3"]

============================================================================
