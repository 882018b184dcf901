---------------------------- MODULE xBFTVoting ----------------------------
(***************************************************************************)
(* What the xBFT drivers of a committee promise each other: when an honest *)
(* member may vote, when it may move its lock, and when it may commit.     *)
(* This is the abstract specification that xBFTDriver implements; the      *)
(* pools, the messages and the verification jobs are left out.             *)
(*                                                                         *)
(* Nothing is assumed of the members outside Honest: their signature may   *)
(* stand under any block, so a certificate needs only the honest members   *)
(* of its quorum to have voted.                                            *)
(***************************************************************************)
EXTENDS xBFTBlocks

VARIABLES
    lock,       \* lock[n]: m_latest_lock_block of member n
    held,       \* held[n]: every block that was ever lock[n] (history)
    votedView,  \* votedView[n]: m_latest_voted_viewid
    votedHeight, \* votedHeight[n]: m_latest_voted_height
    accepted,   \* accepted[n]: blocks n put into m_proposal_blocks
    voted,      \* voted[n]: blocks n has signed a vote for
    restarted   \* the members that have crashed at least once (history)

vars == <<lock, held, votedView, votedHeight, accepted, voted, restarted>>

\* b carries enough votes for verify_muti_sign.
Certified(b) ==
    \/ b = Genesis
    \/ \E Q \in Quorum : \A n \in Q \cap Honest : b \in voted[n]

\* Its certificates commit b: it has a certified child and grandchild (do_execute).
Committed(b) ==
    \E d \in Proposed :
        /\ parent[d] # Genesis
        /\ grandparent(d) = b
        /\ Certified(d) /\ Certified(parent[d]) /\ Certified(b)

Init ==
    /\ lock = [n \in Honest |-> Genesis]
    /\ held = [n \in Honest |-> {Genesis}]
    /\ votedView = [n \in Honest |-> 0]
    /\ votedHeight = [n \in Honest |-> 0]
    /\ accepted = [n \in Honest |-> {}]
    /\ voted = [n \in Honest |-> {}]
    /\ restarted = {}

\* Mutant: the lock may move to another block of its own height.
AboveLock_mutant(n, b) ==
    /\ height[b] >= height[lock[n]]
    /\ view[b] > view[lock[n]]

\* b is above the lock, as safe_check_for_block asks of every block.
AboveLock(n, b) ==
    /\ height[b] > height[lock[n]]
    /\ view[b] > view[lock[n]]

\* What safe_check_follow_locked_branch leaves of a block one or two above the lock.
FollowsLock(n, b) ==
    \/ /\ height[b] = height[lock[n]] + 1
       /\ parent[b] = lock[n]
    \/ /\ height[b] = height[lock[n]] + 2
       /\ justify[b] = root[lock[n]]
       /\ Certified(parent[b])

\* Mutant: the view of the last proposal may be voted in again.
Accept_mutant(n, b) ==
    /\ view[b] >= votedView[n]
    /\ height[b] >= votedHeight[n]
    /\ AboveLock(n, b)
    /\ FollowsLock(n, b)
    /\ accepted' = [accepted EXCEPT ![n] = @ \cup {b}]
    /\ votedView' = [votedView EXCEPT ![n] = view[b]]
    /\ votedHeight' = [votedHeight EXCEPT ![n] = height[b]]

(***************************************************************************)
(* add_proposal after safe_precheck_for_voting: one proposal for a view,   *)
(* and never below the height of an earlier one.                           *)
(***************************************************************************)
Accept(n, b) ==
    /\ view[b] > votedView[n]
    /\ height[b] >= votedHeight[n]
    /\ AboveLock(n, b)
    /\ FollowsLock(n, b)
    /\ accepted' = [accepted EXCEPT ![n] = @ \cup {b}]
    /\ votedView' = [votedView EXCEPT ![n] = view[b]]
    /\ votedHeight' = [votedHeight EXCEPT ![n] = height[b]]

\* A replica takes in the proposal of another member and sends it to verification.
ReplicaAccept(n, b) ==
    /\ n # leader[b]
    /\ Accept(n, b)
    /\ UNCHANGED <<lock, held, voted>>

(***************************************************************************)
(* The leader votes for its own block when it proposes it.  It has just    *)
(* set the justify hash itself, and safe_finalcheck_for_voting is never    *)
(* applied to it: two above the lock, its block need not extend the lock.  *)
(***************************************************************************)
LeaderVote(n, b) ==
    /\ n = leader[b]
    /\ Certified(parent[b])
    /\ justify[b] = root[lock[n]]
    /\ Accept(n, b)
    /\ voted' = [voted EXCEPT ![n] = @ \cup {b}]
    /\ UNCHANGED <<lock, held>>

(***************************************************************************)
(* The verification of an accepted proposal has succeeded: the replica     *)
(* votes if safe_finalcheck_for_voting still finds that b extends its lock. *)
(***************************************************************************)
ReplicaVote(n, b) ==
    /\ n # leader[b]
    /\ b \in accepted[n] \ voted[n]
    /\ AboveLock(n, b)
    /\ FollowsLock(n, b)
    /\ height[b] = height[lock[n]] + 2 => grandparent(b) = lock[n]
    /\ voted' = [voted EXCEPT ![n] = @ \cup {b}]
    /\ UNCHANGED <<lock, held, votedView, votedHeight, accepted>>

\* b is above the lock and has a certified child: do_execute would lock it.
Lockable(n, b) ==
    /\ AboveLock(n, b)
    /\ Certified(b)
    /\ \E c \in Proposed : parent[c] = b /\ Certified(c)

\* Mutant: the voted height is taken from below the new lock.
Lock_mutant(n, b) ==
    /\ Lockable(n, b)
    /\ lock' = [lock EXCEPT ![n] = b]
    /\ held' = [held EXCEPT ![n] = @ \cup {b}]
    /\ votedHeight' = [votedHeight EXCEPT ![n] = height[b] - 2]
    /\ UNCHANGED <<votedView, accepted, voted>>

(***************************************************************************)
(* The lock moves up to the parent of a certified block.  No branch check  *)
(* is made: the new lock need not descend from the old one.  Proposals     *)
(* that are no longer above it are dropped.                                *)
(***************************************************************************)
Lock(n, b) ==
    /\ Lockable(n, b)
    /\ lock' = [lock EXCEPT ![n] = b]
    /\ held' = [held EXCEPT ![n] = @ \cup {b}]
    /\ votedView' = [votedView EXCEPT ![n] = IF view[b] > @ THEN view[b] ELSE @]
    /\ votedHeight' = [votedHeight EXCEPT ![n] = IF height[b] > @ THEN height[b] ELSE @]
    /\ accepted' = [accepted EXCEPT ![n] =
                        {c \in @ : height[c] > height[b] /\ view[c] > view[b]}]
    /\ UNCHANGED voted

(***************************************************************************)
(* A crash loses what xBFTRules keeps in memory.  The lock is read back    *)
(* from the blockstore, which may know of a newer one than the rules did;  *)
(* the voted view and height start from it.                                *)
(***************************************************************************)
Restart(n, b) ==
    /\ b = lock[n] \/ Lockable(n, b)
    /\ lock' = [lock EXCEPT ![n] = b]
    /\ held' = [held EXCEPT ![n] = @ \cup {b}]
    /\ votedView' = [votedView EXCEPT ![n] = view[b]]
    /\ votedHeight' = [votedHeight EXCEPT ![n] = height[b]]
    /\ accepted' = [accepted EXCEPT ![n] = {}]
    /\ UNCHANGED voted

Step(n) ==
    \E b \in Proposed :
        \/ ReplicaAccept(n, b)
        \/ LeaderVote(n, b)
        \/ ReplicaVote(n, b)
        \/ Lock(n, b)

Next ==
    /\ \E n \in Honest : Step(n)
    /\ UNCHANGED restarted

NextWithCrash ==
    \/ Next
    \/ \E n \in Honest, b \in Block : Restart(n, b) /\ restarted' = restarted \cup {n}

Spec == Init /\ [][Next]_vars
SpecWithCrash == Init /\ [][NextWithCrash]_vars

---------------------------------------------------------------------------

TypeOK ==
    /\ lock \in [Honest -> Block]
    /\ held \in [Honest -> SUBSET Block]
    /\ votedView \in [Honest -> Nat]
    /\ votedHeight \in [Honest -> Nat]
    /\ accepted \in [Honest -> SUBSET Block]
    /\ voted \in [Honest -> SUBSET Block]
    /\ restarted \subseteq Honest

(***************************************************************************)
(* No two honest members commit different blocks at one height: the three  *)
(* chain rule of xBFTcontext_t::do_execute is safe under the voting rules. *)
(***************************************************************************)
Agreement ==
    \A b, c \in {d \in Block : Committed(d)} : height[b] = height[c] => b = c

(***************************************************************************)
(* "each view# just allow one cert block": the views that add_proposal     *)
(* records leave room for a single certificate in each view.               *)
(***************************************************************************)
OneCertPerView ==
    \A b, c \in {d \in Proposed : Certified(d)} : view[b] = view[c] => b = c

(***************************************************************************)
(* What is left of it when members crash: two certificates in one view     *)
(* share a voter that has restarted in between.  Nothing else (a lock that *)
(* moves to another branch, a proposal dropped and offered again, a leader *)
(* that proposes twice) makes add_proposal and safe_precheck_for_voting    *)
(* let an honest member vote twice in a view.                              *)
(***************************************************************************)
DoubleCertNeedsRestart ==
    \A b, c \in {d \in Proposed : Certified(d)} :
        view[b] = view[c] /\ b # c =>
            \E n \in restarted : b \in voted[n] /\ c \in voted[n]

=============================================================================
