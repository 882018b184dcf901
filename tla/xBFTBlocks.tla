---------------------------- MODULE xBFTBlocks ----------------------------
(***************************************************************************)
(* The block tree with the committee that votes on it: what every xBFT     *)
(* module about several members shares.                                    *)
(*                                                                         *)
(*   leader                the proposer named by the certificate           *)
(*                         (block_helper::get_leader_address)              *)
(*   root                  what a later block's justify names this block   *)
(*                         by: its hash for a unit, its output_root_hash   *)
(*                         for the other levels                            *)
(*   justify               xvqcert_t::get_justify_cert_hash                *)
(***************************************************************************)
EXTENDS xBlockTree

CONSTANTS
    leader, root, justify,
    Node,       \* the members of the committee
    Honest,     \* the members that run this code
    Quorum      \* the sets of members whose votes make a certificate

ASSUME LeaderAssumption == leader \in [Block -> Node]

(***************************************************************************)
(* justify names the leader's lock.  Two blocks at one height are told     *)
(* apart by it: true of hashes, an assumption on output_root_hash.         *)
(***************************************************************************)
ASSUME JustifyAssumption ==
    \A b, c \in Block : height[b] = height[c] /\ root[b] = root[c] => b = c

(***************************************************************************)
(* 2f+1 of 3f+1 (xproposal_t::is_vote_finish): two quorums share an honest *)
(* member, and no quorum is honest through its leader alone.               *)
(***************************************************************************)
ASSUME QuorumAssumption ==
    /\ Honest \subseteq Node
    /\ Quorum \subseteq SUBSET Node
    /\ \A Q, R \in Quorum : Q \cap R \cap Honest # {}
    /\ \A Q \in Quorum, n \in Node : (Q \ {n}) \cap Honest # {}

============================================================================
