---------------------------- MODULE xBlockTree ----------------------------
(***************************************************************************)
(* The blocks of one account.                                              *)
(*                                                                         *)
(* A block is identified by its hash, and a hash fixes the whole content   *)
(* of the block; so a block is a model value and its content is given by   *)
(* constant functions of it.  The tree holds every block that any leader   *)
(* may ever build.                                                         *)
(*                                                                         *)
(*   height, view, parent  xvblock_t::get_height, get_viewid,              *)
(*                         get_last_block_hash                             *)
(***************************************************************************)
EXTENDS Integers, FiniteSets

CONSTANTS
    Block,      \* all the blocks of one account's tree
    Genesis,    \* the block at height 0, known to and committed by everyone
    height, view, parent

ASSUME BlockAssumption ==
    /\ Genesis \in Block
    /\ height \in [Block -> Nat]
    /\ view \in [Block -> Nat]
    /\ parent \in [Block -> Block]
    /\ height[Genesis] = 0
    /\ \A b \in Block \ {Genesis} : height[b] = height[parent[b]] + 1

\* Every block but the genesis.
Proposed == Block \ {Genesis}

grandparent(b) == parent[parent[b]]

============================================================================
