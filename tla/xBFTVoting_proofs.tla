------------------------- MODULE xBFTVoting_proofs -------------------------
(***************************************************************************)
(* Agreement and OneCertPerView for every tree, committee and quorum       *)
(* system that satisfies the assumptions of xBFTBlocks.                    *)
(*                                                                         *)
(* Agreement is not inductive.  What makes it so is the history held: the  *)
(* locks of one member never share a height (HeldUnique), every vote was   *)
(* cast over a lock (VoteJustified), and so, going back to the first       *)
(* certificate at a height under a given grandparent, a whole quorum must  *)
(* have been locked on that grandparent (BranchHeld).                      *)
(***************************************************************************)
EXTENDS xBFTVoting, TLAPS

\* lock[n] is the highest block n ever held.
LockIsHighest ==
    \A n \in Honest : /\ lock[n] \in held[n]
                      /\ \A b \in held[n] : height[b] <= height[lock[n]]

\* The locks of one member have different heights.
HeldUnique ==
    \A n \in Honest : \A b, c \in held[n] : height[b] = height[c] => b = c

\* A lock is a certified block with a certified child.
HeldCertified ==
    \A n \in Honest : \A b \in held[n] :
        /\ Certified(b)
        /\ b # Genesis => \E c \in Proposed : parent[c] = b /\ Certified(c)

\* The lock that allowed n to vote for b.
VotedOver(n, b) ==
    \/ parent[b] \in held[n]
    \/ \E l \in held[n] : /\ height[b] = height[l] + 2
                          /\ justify[b] = root[l]
                          /\ n # leader[b] => grandparent(b) = l

VoteJustified ==
    \A n \in Honest : \A b \in voted[n] : b \in Proposed /\ VotedOver(n, b)

\* Behind every certificate, a quorum was once locked on its grandparent.
BranchHeld ==
    \A d \in Proposed :
        Certified(d) /\ height[d] >= 2 =>
            \E Q \in Quorum : \A n \in Q \cap Honest : grandparent(d) \in held[n]

AgreementInv ==
    /\ TypeOK
    /\ LockIsHighest
    /\ HeldUnique
    /\ HeldCertified
    /\ VoteJustified
    /\ BranchHeld

---------------------------------------------------------------------------

LEMMA CertifiedMonotone ==
    ASSUME NEW b \in Block, Certified(b),
           \A n \in Honest : voted[n] \subseteq voted'[n]
    PROVE  Certified(b)'
BY DEF Certified

\* Certification and a quorum over two blocks meet in one honest member.
LEMMA CommonVoter ==
    ASSUME NEW b \in Proposed, NEW c \in Proposed, Certified(b), Certified(c)
    PROVE  \E n \in Honest : b \in voted[n] /\ c \in voted[n]
BY QuorumAssumption DEF Certified, Proposed

(***************************************************************************)
(* The type invariant, for steps and for crashes.                          *)
(***************************************************************************)
LEMMA TypeInit == Init => TypeOK
BY BlockAssumption DEF Init, TypeOK

LEMMA TypeStep == TypeOK /\ [NextWithCrash]_vars => TypeOK'
<1> SUFFICES ASSUME TypeOK, [NextWithCrash]_vars PROVE TypeOK'
    OBVIOUS
<1> USE BlockAssumption DEF TypeOK, Proposed
<1>1. ASSUME NEW n \in Honest, NEW b \in Proposed, ReplicaAccept(n, b), UNCHANGED restarted
      PROVE  TypeOK'
    BY <1>1 DEF ReplicaAccept, Accept
<1>2. ASSUME NEW n \in Honest, NEW b \in Proposed, LeaderVote(n, b), UNCHANGED restarted
      PROVE  TypeOK'
    BY <1>2 DEF LeaderVote, Accept
<1>3. ASSUME NEW n \in Honest, NEW b \in Proposed, ReplicaVote(n, b), UNCHANGED restarted
      PROVE  TypeOK'
    BY <1>3 DEF ReplicaVote
<1>4. ASSUME NEW n \in Honest, NEW b \in Proposed, Lock(n, b), UNCHANGED restarted
      PROVE  TypeOK'
    BY <1>4 DEF Lock
<1>5. ASSUME NEW n \in Honest, NEW b \in Block, Restart(n, b),
             restarted' = restarted \cup {n}
      PROVE  TypeOK'
    BY <1>5 DEF Restart
<1>6. CASE UNCHANGED vars
    BY <1>6 DEF vars
<1>7. CASE Next
    BY <1>7, <1>1, <1>2, <1>3, <1>4 DEF Next, Step
<1> QED
    BY <1>5, <1>6, <1>7 DEF NextWithCrash

(***************************************************************************)
(* Agreement.                                                              *)
(***************************************************************************)
LEMMA AgreementInit == Init => AgreementInv
<1> SUFFICES ASSUME Init PROVE AgreementInv
    OBVIOUS
<1>1. TypeOK
    BY TypeInit
<1>2. LockIsHighest /\ HeldUnique /\ HeldCertified /\ VoteJustified
    BY BlockAssumption DEF Init, LockIsHighest, HeldUnique, HeldCertified,
                           VoteJustified, Certified
<1>3. ASSUME NEW d \in Proposed PROVE ~ Certified(d)
    BY QuorumAssumption DEF Init, Certified, Proposed
<1>4. BranchHeld
    BY <1>3 DEF BranchHeld
<1> QED
    BY <1>1, <1>2, <1>4 DEF AgreementInv

(***************************************************************************)
(* A vote cast over a lock keeps the invariant.  If it completes the first *)
(* certificate under a grandparent, no member can be locked on the parent, *)
(* so every honest voter was locked on the grandparent: the replicas by    *)
(* their final check, the leader because one of them checked its justify.  *)
(***************************************************************************)
LEMMA VoteKeepsInv ==
    ASSUME AgreementInv, TypeOK',
           NEW n \in Honest, NEW b \in Proposed, VotedOver(n, b),
           voted' = [voted EXCEPT ![n] = @ \cup {b}],
           UNCHANGED <<lock, held>>
    PROVE  AgreementInv'
<1> USE DEF AgreementInv
<1>1. \A m \in Honest : voted[m] \subseteq voted'[m]
    BY DEF TypeOK
<1>2. LockIsHighest' /\ HeldUnique'
    BY DEF LockIsHighest, HeldUnique
<1>3. HeldCertified'
    <2> SUFFICES ASSUME NEW m \in Honest, NEW x \in held[m]
                 PROVE  /\ Certified(x)'
                        /\ x # Genesis => \E c \in Proposed : parent[c] = x /\ Certified(c)'
        BY DEF HeldCertified
    <2>1. x \in Block /\ Certified(x)
        BY DEF HeldCertified, TypeOK
    <2>2. Certified(x)'
        BY <2>1, <1>1, CertifiedMonotone
    <2>3. ASSUME NEW c \in Proposed, parent[c] = x, Certified(c) PROVE Certified(c)'
        BY <2>3, <1>1, CertifiedMonotone DEF Proposed
    <2> QED
        BY <2>2, <2>3 DEF HeldCertified
<1>4. VoteJustified'
    <2> SUFFICES ASSUME NEW m \in Honest, NEW x \in voted'[m]
                 PROVE  x \in Proposed /\ VotedOver(m, x)'
        BY DEF VoteJustified
    <2>1. x \in voted[m] \/ (m = n /\ x = b)
        BY DEF TypeOK
    <2>2. x \in Proposed /\ VotedOver(m, x)
        BY <2>1 DEF VoteJustified
    <2> QED
        BY <2>2 DEF VotedOver
<1>5. BranchHeld'
    <2> SUFFICES ASSUME NEW d \in Proposed, Certified(d)', height[d] >= 2
                 PROVE  \E Q \in Quorum : \A m \in Q \cap Honest : grandparent(d) \in held[m]
        BY DEF BranchHeld
    <2>1. CASE \E c \in Proposed : parent[c] = parent[d] /\ Certified(c)
        <3>1. PICK c \in Proposed : parent[c] = parent[d] /\ Certified(c)
            BY <2>1
        <3>2. height[c] = height[d] /\ grandparent(c) = grandparent(d)
            BY <3>1, BlockAssumption DEF Proposed, grandparent
        <3> QED
            BY <3>1, <3>2 DEF BranchHeld
    <2>2. CASE ~ \E c \in Proposed : parent[c] = parent[d] /\ Certified(c)
        <3>1. PICK Q \in Quorum : \A m \in Q \cap Honest : d \in voted'[m]
            BY DEF Certified, Proposed
        <3>2. parent[d] \in Block /\ parent[d] # Genesis /\ grandparent(d) \in Block
            BY BlockAssumption DEF Proposed, grandparent
        <3>3. height[d] = height[grandparent(d)] + 2
            BY <3>2, BlockAssumption DEF Proposed, grandparent
        <3>4. ASSUME NEW m \in Q \cap Honest
              PROVE  \E l \in held[m] : /\ height[d] = height[l] + 2
                                        /\ justify[d] = root[l]
                                        /\ m # leader[d] => grandparent(d) = l
            <4>1. VotedOver(m, d)
                BY <3>1, <1>4 DEF VoteJustified, VotedOver
            <4>2. parent[d] \notin held[m]
                BY <2>2, <3>2 DEF HeldCertified
            <4> QED
                BY <4>1, <4>2 DEF VotedOver
        <3>5. leader[d] \in Node
            BY LeaderAssumption DEF Proposed
        <3>6. PICK r \in Q \cap Honest : r # leader[d]
            BY <3>5, QuorumAssumption
        <3>7. justify[d] = root[grandparent(d)]
            BY <3>4, <3>6
        <3>8. ASSUME NEW m \in Q \cap Honest PROVE grandparent(d) \in held[m]
            <4>1. PICK l \in held[m] : height[d] = height[l] + 2 /\ justify[d] = root[l]
                BY <3>4
            <4>2. l \in Block /\ height[l] \in Nat /\ height[grandparent(d)] \in Nat
                BY <3>2, BlockAssumption DEF TypeOK
            <4>3. height[l] = height[grandparent(d)]
                BY <4>1, <4>2, <3>3
            <4>4. l = grandparent(d)
                BY <4>1, <4>2, <4>3, <3>2, <3>7, JustifyAssumption
            <4> QED
                BY <4>4
        <3> QED
            BY <3>8
    <2> QED
        BY <2>1, <2>2
<1> QED
    BY <1>2, <1>3, <1>4, <1>5

\* Moving the lock up to a certified block with a certified child keeps the invariant.
LEMMA LockKeepsInv ==
    ASSUME AgreementInv, TypeOK', NEW n \in Honest, NEW b \in Block, Lockable(n, b),
           lock' = [lock EXCEPT ![n] = b],
           held' = [held EXCEPT ![n] = @ \cup {b}],
           UNCHANGED voted
    PROVE  AgreementInv'
<1> USE DEF AgreementInv
<1>1. /\ voted' = voted
      /\ \A m \in Honest : held[m] \subseteq held'[m]
      /\ \A m \in Honest : \A x \in held'[m] : x \in held[m] \/ (m = n /\ x = b)
    BY DEF TypeOK
<1>2. \A x \in held[n] : height[x] < height[b]
    BY BlockAssumption DEF Lockable, AboveLock, LockIsHighest, TypeOK
<1>3. LockIsHighest'
    <2>1. ASSUME NEW m \in Honest
          PROVE  lock'[m] \in held'[m] /\ \A x \in held'[m] : height[x] <= height[lock'[m]]
        <3>1. CASE m = n
            <4>1. lock'[m] = b /\ b \in held'[m]
                BY <3>1 DEF TypeOK
            <4> QED
                BY <4>1, <3>1, <1>1, <1>2, BlockAssumption DEF TypeOK
        <3>2. CASE m # n
            BY <3>2 DEF TypeOK, LockIsHighest
        <3> QED
            BY <3>1, <3>2
    <2> QED
        BY <2>1 DEF LockIsHighest
<1>4. HeldUnique'
    <2> SUFFICES ASSUME NEW m \in Honest, NEW x \in held'[m], NEW y \in held'[m],
                        height[x] = height[y]
                 PROVE  x = y
        BY DEF HeldUnique
    <2>1. x \in Block /\ y \in Block /\ height[x] \in Nat /\ height[y] \in Nat
        BY BlockAssumption DEF TypeOK
    <2> QED
        BY <2>1, <1>1, <1>2 DEF HeldUnique
<1>5. HeldCertified'
    <2>1. Certified(b) /\ \E c \in Proposed : parent[c] = b /\ Certified(c)
        BY DEF Lockable
    <2>2. \A x \in Block : Certified(x)' <=> Certified(x)
        BY <1>1 DEF Certified
    <2>3. \A m \in Honest : held'[m] \subseteq Block
        BY DEF TypeOK
    <2> QED
        BY <2>1, <2>2, <2>3, <1>1 DEF HeldCertified, Proposed
<1>6. VoteJustified'
    BY <1>1 DEF VoteJustified, VotedOver
<1>7. BranchHeld'
    BY <1>1 DEF BranchHeld, Certified
<1> QED
    BY <1>3, <1>4, <1>5, <1>6, <1>7

LEMMA AgreementStep == AgreementInv /\ [NextWithCrash]_vars => AgreementInv'
<1> SUFFICES ASSUME AgreementInv, [NextWithCrash]_vars PROVE AgreementInv'
    OBVIOUS
<1>1. TypeOK'
    BY TypeStep DEF AgreementInv
<1>2. ASSUME UNCHANGED <<lock, held, voted>> PROVE AgreementInv'
    BY <1>1, <1>2 DEF AgreementInv, LockIsHighest, HeldUnique, HeldCertified,
                      VoteJustified, VotedOver, BranchHeld, Certified
<1>3. ASSUME NEW n \in Honest, NEW b \in Proposed, FollowsLock(n, b),
             n = leader[b] => justify[b] = root[lock[n]],
             n # leader[b] => (height[b] = height[lock[n]] + 2 => grandparent(b) = lock[n])
      PROVE  VotedOver(n, b)
    <2>1. lock[n] \in held[n]
        BY DEF AgreementInv, LockIsHighest
    <2> QED
        BY <2>1, <1>3 DEF FollowsLock, VotedOver
<1>4. ASSUME NEW n \in Honest, NEW b \in Proposed, ReplicaAccept(n, b) PROVE AgreementInv'
    BY <1>2, <1>4 DEF ReplicaAccept
<1>5. ASSUME NEW n \in Honest, NEW b \in Proposed, LeaderVote(n, b) PROVE AgreementInv'
    <2>1. VotedOver(n, b)
        BY <1>3, <1>5 DEF LeaderVote, Accept
    <2> QED
        BY <2>1, <1>1, <1>5, VoteKeepsInv DEF LeaderVote
<1>6. ASSUME NEW n \in Honest, NEW b \in Proposed, ReplicaVote(n, b) PROVE AgreementInv'
    <2>1. VotedOver(n, b)
        BY <1>3, <1>6 DEF ReplicaVote
    <2> QED
        BY <2>1, <1>1, <1>6, VoteKeepsInv DEF ReplicaVote
<1>7. ASSUME NEW n \in Honest, NEW b \in Proposed, Lock(n, b) PROVE AgreementInv'
    BY <1>1, <1>7, LockKeepsInv DEF Lock, Proposed
<1>8. ASSUME NEW n \in Honest, NEW b \in Block, Restart(n, b) PROVE AgreementInv'
    <2>1. CASE b = lock[n]
        <3>1. lock' = lock /\ held' = held /\ voted' = voted
            BY <2>1, <1>8 DEF Restart, AgreementInv, TypeOK, LockIsHighest
        <3> QED
            BY <3>1, <1>2
    <2>2. CASE Lockable(n, b)
        BY <2>2, <1>1, <1>8, LockKeepsInv DEF Restart
    <2> QED
        BY <2>1, <2>2, <1>8 DEF Restart
<1>9. CASE UNCHANGED vars
    BY <1>2, <1>9 DEF vars
<1> QED
    BY <1>4, <1>5, <1>6, <1>7, <1>8, <1>9 DEF NextWithCrash, Next, Step

\* Two committed blocks of one height were locked by a common honest member.
LEMMA AgreementInvImplies == AgreementInv => Agreement
<1> SUFFICES ASSUME AgreementInv, NEW b \in Block, NEW c \in Block,
                    Committed(b), Committed(c), height[b] = height[c]
             PROVE  b = c
    BY DEF Agreement
<1>1. ASSUME NEW x \in Block, Committed(x)
      PROVE  \E Q \in Quorum : \A n \in Q \cap Honest : x \in held[n]
    <2>1. PICK d \in Proposed : /\ parent[d] # Genesis
                                /\ grandparent(d) = x
                                /\ Certified(d)
        BY <1>1 DEF Committed
    <2>2. height[d] >= 2
        BY <2>1, BlockAssumption DEF Proposed, grandparent
    <2> QED
        BY <2>1, <2>2 DEF AgreementInv, BranchHeld
<1>2. PICK Q \in Quorum : \A n \in Q \cap Honest : b \in held[n]
    BY <1>1
<1>3. PICK R \in Quorum : \A n \in R \cap Honest : c \in held[n]
    BY <1>1
<1>4. PICK n \in Honest : n \in Q /\ n \in R
    BY QuorumAssumption
<1> QED
    BY <1>2, <1>3, <1>4 DEF AgreementInv, HeldUnique

(***************************************************************************)
(* Crashes and restarts included, the rules of xBFTRules never let two     *)
(* blocks of one height be committed: for every tree and quorum system.    *)
(***************************************************************************)
THEOREM AgreementTheorem == SpecWithCrash => []Agreement
BY AgreementInit, AgreementStep, AgreementInvImplies, PTL DEF SpecWithCrash

\* Type correctness of the voting rules, crashes included.
THEOREM TypeTheorem == SpecWithCrash => []TypeOK
BY TypeInit, TypeStep, PTL DEF SpecWithCrash

---------------------------------------------------------------------------

\* A member that has not crashed accepts, and so votes for, one block of a view.
OneVoteInv ==
    /\ TypeOK
    /\ \A n \in Honest \ restarted :
          /\ \A b \in accepted[n] \cup voted[n] : view[b] <= votedView[n]
          /\ \A b, c \in accepted[n] \cup voted[n] : view[b] = view[c] => b = c

LEMMA AcceptKeepsOneVote ==
    ASSUME OneVoteInv, TypeOK', NEW n \in Honest, NEW b \in Proposed, Accept(n, b),
           UNCHANGED restarted,
           \/ voted' = voted
           \/ voted' = [voted EXCEPT ![n] = @ \cup {b}]
    PROVE  OneVoteInv'
<1> SUFFICES ASSUME NEW m \in Honest \ restarted
             PROVE  /\ \A x \in accepted'[m] \cup voted'[m] : view[x] <= votedView'[m]
                    /\ \A x, y \in accepted'[m] \cup voted'[m] : view[x] = view[y] => x = y
    BY DEF OneVoteInv
<1>1. CASE m # n
    BY <1>1 DEF OneVoteInv, Accept, TypeOK
<1>2. CASE m = n
    <2> DEFINE S == accepted[m] \cup voted[m]
    <2>1. accepted'[m] = accepted[m] \cup {b} /\ votedView'[m] = view[b]
        BY <1>2 DEF Accept, OneVoteInv, TypeOK
    <2>2. voted'[m] \subseteq voted[m] \cup {b}
        BY <1>2 DEF OneVoteInv, TypeOK
    <2>3. \A x \in S : x \in Block /\ view[x] \in Nat /\ view[x] < view[b]
        BY <1>2, BlockAssumption DEF Accept, OneVoteInv, TypeOK, Proposed
    <2>4. view[b] \in Nat
        BY BlockAssumption DEF Proposed
    <2>5. \A x \in accepted'[m] \cup voted'[m] : x \in S \/ x = b
        BY <2>1, <2>2
    <2>6. \A x \in accepted'[m] \cup voted'[m] : view[x] <= votedView'[m]
        BY <2>1, <2>3, <2>4, <2>5
    <2>7. \A x, y \in accepted'[m] \cup voted'[m] : view[x] = view[y] => x = y
        BY <2>3, <2>4, <2>5 DEF OneVoteInv
    <2> QED
        BY <2>6, <2>7
<1> QED
    BY <1>1, <1>2

LEMMA OneVoteStep == OneVoteInv /\ [NextWithCrash]_vars => OneVoteInv'
<1> SUFFICES ASSUME OneVoteInv, [NextWithCrash]_vars PROVE OneVoteInv'
    OBVIOUS
<1>1. TypeOK'
    BY TypeStep DEF OneVoteInv
<1>2. ASSUME NEW n \in Honest, NEW b \in Proposed, ReplicaAccept(n, b), UNCHANGED restarted
      PROVE  OneVoteInv'
    BY <1>1, <1>2, AcceptKeepsOneVote DEF ReplicaAccept
<1>3. ASSUME NEW n \in Honest, NEW b \in Proposed, LeaderVote(n, b), UNCHANGED restarted
      PROVE  OneVoteInv'
    BY <1>1, <1>3, AcceptKeepsOneVote DEF LeaderVote
<1>4. ASSUME NEW n \in Honest, NEW b \in Proposed, ReplicaVote(n, b), UNCHANGED restarted
      PROVE  OneVoteInv'
    BY <1>1, <1>4 DEF OneVoteInv, TypeOK, ReplicaVote
<1>5. ASSUME NEW n \in Honest, NEW b \in Proposed, Lock(n, b), UNCHANGED restarted
      PROVE  OneVoteInv'
    BY <1>1, <1>5, BlockAssumption DEF OneVoteInv, TypeOK, Lock, Proposed
<1>6. ASSUME NEW n \in Honest, NEW b \in Block, Restart(n, b),
             restarted' = restarted \cup {n}
      PROVE  OneVoteInv'
    BY <1>1, <1>6 DEF OneVoteInv, TypeOK, Restart
<1>7. CASE UNCHANGED vars
    BY <1>1, <1>7 DEF OneVoteInv, vars
<1>8. CASE Next
    BY <1>8, <1>2, <1>3, <1>4, <1>5 DEF Next, Step
<1> QED
    BY <1>6, <1>7, <1>8 DEF NextWithCrash

(***************************************************************************)
(* Whatever crashes, two certificates of one view (xconscontext.h: "each   *)
(* view# just allow one cert block") have a voter that has restarted.      *)
(***************************************************************************)
THEOREM DoubleCertTheorem == SpecWithCrash => []DoubleCertNeedsRestart
<1>1. Init => OneVoteInv
    BY TypeInit DEF Init, OneVoteInv
<1>2. OneVoteInv => DoubleCertNeedsRestart
    BY CommonVoter DEF OneVoteInv, DoubleCertNeedsRestart
<1> QED
    BY <1>1, <1>2, OneVoteStep, PTL DEF SpecWithCrash

(***************************************************************************)
(* "each view# just allow one cert block" (xconscontext.h) is a theorem of *)
(* the voting rules as long as no member restarts.                         *)
(***************************************************************************)
THEOREM OneCertPerViewTheorem == Spec => []OneCertPerView
<1> DEFINE Inv == OneVoteInv /\ restarted = {}
<1>1. Init => Inv
    BY TypeInit DEF Init, OneVoteInv
<1>2. Inv /\ [Next]_vars => Inv'
    BY OneVoteStep DEF NextWithCrash, Next, vars
<1>3. Inv => OneCertPerView
    BY CommonVoter DEF OneVoteInv, OneCertPerView
<1> QED
    BY <1>1, <1>2, <1>3, PTL DEF Spec

=============================================================================
