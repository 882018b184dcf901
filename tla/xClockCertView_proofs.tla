------------------------ MODULE xClockCertView_proofs ------------------------
(***************************************************************************)
(* The order of view changes, the early proposals and the proposals of a   *)
(* leader, for every committee, clock and number of views.                 *)
(*                                                                         *)
(* What makes them inductive is where the packer stands between the queue  *)
(* and the view (Good): its last view is below everything in the queue,    *)
(* which is below the pacemaker's view; early proposals are at most one    *)
(* view after it, and its own proposals at most as late as it.             *)
(***************************************************************************)
EXTENDS xClockCertView, SequenceTheorems, TLAPS

\* q is increasing, above l and up to u.
Ordered(q, l, u) ==
    \A i \in DOMAIN q : /\ l < q[i] /\ q[i] <= u
                        /\ \A j \in DOMAIN q : j < i => q[j] < q[i]

\* A pacemaker p whose packer was last told view l.
Good(p, l) ==
    /\ p \in PacemakerState
    /\ l \in Nat /\ l <= p.view
    /\ Ordered(p.queue, l, p.view)

\* Proposals build on certified blocks, and their leaders have been told their views.
ProposalsFired ==
    \A v \in View : /\ Certified(block[v].parent)
                    /\ v \in Proposed => v <= last[leaderOf[v]]

PaceInv ==
    /\ TypeOK
    /\ \A n \in Member : /\ 0 \in stored[n]
                         /\ Good(pm[n], last[n])
                         /\ \A v \in early[n] : v <= last[n] + 1
    /\ ProposalsFired

---------------------------------------------------------------------------

LEMMA AppendOrdered ==
    ASSUME NEW q \in Seq(Nat), NEW l \in Nat, NEW u \in Nat, NEW w \in Nat,
           Ordered(q, l, u), l <= u, u < w
    PROVE  Append(q, w) \in Seq(Nat) /\ Ordered(Append(q, w), l, w)
<1>1. Append(q, w) \in Seq(Nat)
    OBVIOUS
<1>2. Len(q) \in Nat /\ DOMAIN q = 1 .. Len(q) /\ DOMAIN Append(q, w) = 1 .. Len(q) + 1
    OBVIOUS
<1>3. \A i \in 1 .. Len(q) : Append(q, w)[i] = q[i] /\ q[i] \in Nat
    OBVIOUS
<1>4. Append(q, w)[Len(q) + 1] = w
    OBVIOUS
<1> QED
    BY <1>1, <1>2, <1>3, <1>4 DEF Ordered

LEMMA TailOrdered ==
    ASSUME NEW q \in Seq(Nat), NEW l \in Nat, NEW u \in Nat, Ordered(q, l, u), q # <<>>
    PROVE  /\ Head(q) \in Nat /\ l < Head(q) /\ Head(q) <= u
           /\ Tail(q) \in Seq(Nat) /\ Ordered(Tail(q), Head(q), u)
<1>1. Len(q) \in Nat /\ Len(q) > 0 /\ DOMAIN q = 1 .. Len(q) /\ Head(q) = q[1]
    OBVIOUS
<1>2. Head(q) \in Nat /\ l < Head(q) /\ Head(q) <= u
    BY <1>1 DEF Ordered
<1>3. Tail(q) \in Seq(Nat) /\ DOMAIN Tail(q) = 1 .. Len(q) - 1
    BY <1>1
<1>4. \A i \in 1 .. Len(q) - 1 : Tail(q)[i] = q[i + 1] /\ i + 1 \in 1 .. Len(q)
    BY <1>1
<1>5. Ordered(Tail(q), Head(q), u)
    <2> SUFFICES ASSUME NEW i \in 1 .. Len(q) - 1
                 PROVE  /\ Head(q) < Tail(q)[i] /\ Tail(q)[i] <= u
                        /\ \A j \in 1 .. Len(q) - 1 : j < i => Tail(q)[j] < Tail(q)[i]
        BY <1>3 DEF Ordered
    <2>1. Head(q) < q[i + 1] /\ q[i + 1] <= u
        BY <1>1, <1>4 DEF Ordered
    <2>2. ASSUME NEW j \in 1 .. Len(q) - 1, j < i PROVE q[j + 1] < q[i + 1]
        <3>1. j + 1 \in DOMAIN q /\ i + 1 \in DOMAIN q /\ j + 1 < i + 1
            BY <1>1, <1>4, <2>2
        <3> QED
            BY <3>1 DEF Ordered
    <2> QED
        BY <2>1, <2>2, <1>4
<1> QED
    BY <1>2, <1>3, <1>5

LEMMA ViewOfType ==
    ASSUME TypeOK, NEW cert \in View, NEW clock \in {0} \cup Clock
    PROVE  ViewOf(cert, clock) \in Nat
<1>1. {0} \cup Clock \subseteq Nat /\ block[cert].clock \in {0} \cup Clock
    BY PaceAssumption DEF TypeOK, BlockState
<1>2. clock \in Nat /\ block[cert].clock \in Nat
    BY <1>1
<1>3. cert \in Nat
    BY PaceAssumption DEF View
<1> QED
    BY <1>2, <1>3 DEF ViewOf

\* update_view keeps the queue in order, and touches neither clock nor certificate.
LEMMA UpdateView ==
    ASSUME TypeOK, NEW p, NEW l, Good(p, l)
    PROVE  /\ Good(update_view(p), l)
           /\ update_view(p).cert = p.cert
           /\ update_view(p).clock = p.clock
<1>1. CASE p.clock # 0 /\ ViewOf(p.cert, p.clock) > p.view
    <2> DEFINE w == ViewOf(p.cert, p.clock)
    <2>1. w \in Nat
        BY ViewOfType, Zenon DEF Good, PacemakerState
    <2>2. p.queue \in Seq(Nat) /\ p.view \in Nat /\ p.view < w /\ l <= w
        BY <1>1, <2>1 DEF Good, PacemakerState
    <2>3. Append(p.queue, w) \in Seq(Nat) /\ Ordered(Append(p.queue, w), l, w)
        BY <2>1, <2>2, AppendOrdered DEF Good
    <2>4. update_view(p) = [p EXCEPT !.view = w, !.queue = Append(p.queue, w)]
        BY <1>1 DEF update_view, Good, PacemakerState
    <2> HIDE DEF w
    <2> QED
        BY <2>1, <2>2, <2>3, <2>4, Zenon DEF Good, PacemakerState
<1>2. CASE ~ (p.clock # 0 /\ ViewOf(p.cert, p.clock) > p.view)
    BY <1>2 DEF update_view
<1> QED
    BY <1>1, <1>2

LEMMA UpdateClock ==
    ASSUME TypeOK, NEW p, NEW l, Good(p, l), NEW c \in {0} \cup Clock
    PROVE  /\ Good(update_clock_cert(p, c), l)
           /\ update_clock_cert(p, c).cert = p.cert
<1> DEFINE r == [p EXCEPT !.clock = c]
<1>1. Good(r, l) /\ r.cert = p.cert
    BY DEF Good, PacemakerState
<1> HIDE DEF r
<1>2. Good(update_view(r), l) /\ update_view(r).cert = p.cert
    BY <1>1, UpdateView
<1> QED
    BY <1>2 DEF update_clock_cert, r

LEMMA UpdateCert ==
    ASSUME TypeOK, NEW p, NEW l, Good(p, l), NEW v \in View
    PROVE  /\ Good(update_vblock_cert(p, v), l)
           /\ update_vblock_cert(p, v).cert \in {p.cert, v}
<1> DEFINE r == [p EXCEPT !.cert = v]
<1>1. Good(r, l) /\ r.cert = v
    BY DEF Good, PacemakerState
<1> HIDE DEF r
<1>2. Good(update_view(r), l) /\ update_view(r).cert = v
    BY <1>1, UpdateView
<1> QED
    BY <1>2 DEF update_vblock_cert, r

LEMMA ProposalStart ==
    ASSUME TypeOK, NEW n \in Member, NEW p, NEW l, Good(p, l)
    PROVE  /\ Good(on_proposal_start(n, p), l)
           /\ on_proposal_start(n, p).cert \in {p.cert, top[n]}
<1>1. timer[n] \in {0} \cup Clock /\ top[n] \in View
    BY DEF TypeOK
<1> DEFINE r == update_clock_cert(p, timer[n])
<1>2. Good(r, l) /\ r.cert = p.cert
    BY <1>1, UpdateClock, Zenon
<1> HIDE DEF r
<1>3. Good(update_vblock_cert(r, top[n]), l)
    BY <1>1, <1>2, UpdateCert
<1>4. update_vblock_cert(r, top[n]).cert \in {p.cert, top[n]}
    BY <1>1, <1>2, UpdateCert
<1> QED
    BY <1>3, <1>4 DEF on_proposal_start, r

---------------------------------------------------------------------------

\* Certificates stay, whatever a step stores.
LEMMA CertifiedStays ==
    ASSUME TypeOK, \A n \in Member : stored[n] \subseteq stored'[n],
           NEW v \in View, Certified(v)
    PROVE  Certified(v)'
BY PaceAssumption DEF Certified

LEMMA PaceInit == Init => PaceInv
<1> SUFFICES ASSUME Init PROVE PaceInv
    OBVIOUS
<1> USE PaceAssumption DEF Init
<1>1. 0 \in View
    BY DEF View
<1>2. \A n \in Member : Good(pm[n], last[n])
    BY <1>1 DEF Good, PacemakerState, NewPacemaker, Ordered
<1>3. \A v \in View : Certified(block[v].parent) /\ v \notin Proposed
    BY <1>1 DEF Certified, NoBlock, Proposed
<1>4. TypeOK
    BY <1>1 DEF TypeOK, PacemakerState, BlockState, NewPacemaker, NoBlock, Certified
<1> QED
    BY <1>1, <1>2, <1>3, <1>4 DEF PaceInv, ProposalsFired

\* What a vote and the handling of a proposal may do to the blocks.
MayVote(n) ==
    block' = block \/ \E v \in Proposed : block' = [block EXCEPT ![v].votes = @ \cup {n}]

LEMMA VoteEffect ==
    ASSUME TypeOK, NEW n \in Member, MayVote(n)
    PROVE  /\ block' \in [View -> BlockState]
           /\ \A v \in View : block'[v].parent = block[v].parent
           /\ \A v \in View : v \in Proposed' => v \in Proposed
<1> USE DEF MayVote
<1>1. CASE block' = block
    BY <1>1 DEF TypeOK, Proposed
<1>2. CASE \E v \in Proposed : block' = [block EXCEPT ![v].votes = @ \cup {n}]
    <2>1. PICK v \in Proposed : block' = [block EXCEPT ![v].votes = @ \cup {n}]
        BY <1>2, Zenon
    <2>2. \A w \in View : w # v => block'[w] = block[w]
        BY <2>1 DEF TypeOK
    <2>3. v \in View /\ block'[v] = [block[v] EXCEPT !.votes = @ \cup {n}]
        BY <2>1 DEF TypeOK, Proposed
    <2>4. block' \in [View -> BlockState]
        <3>1. block[v] \in BlockState
            BY <2>3 DEF TypeOK
        <3>2. [block[v] EXCEPT !.votes = @ \cup {n}] \in BlockState
            BY <3>1 DEF BlockState
        <3>3. block' = [block EXCEPT ![v] = [block[v] EXCEPT !.votes = @ \cup {n}]]
            BY <2>1
        <3> QED
            BY <3>2, <3>3, <2>3 DEF TypeOK
    <2>5. \A w \in View : block'[w].parent = block[w].parent
        BY <2>2, <2>3 DEF TypeOK, BlockState
    <2>6. \A w \in View : w \in Proposed' => w \in Proposed
        BY <2>1, <2>2 DEF Proposed
    <2> QED
        BY <2>4, <2>5, <2>6
<1> QED
    BY <1>1, <1>2

(***************************************************************************)
(* A step that hands n the pacemaker state p, and changes nothing that the *)
(* proposals depend on besides adding votes.                               *)
(***************************************************************************)
LEMMA PacemakerStep ==
    ASSUME PaceInv, NEW n \in Member, NEW STATE p, Good(p, last[n]), Certified(p.cert),
           pm' = [pm EXCEPT ![n] = p],
           UNCHANGED <<stored, top, last>>,
           timer' \in [Member -> {0} \cup Clock],
           jobs' \in [Member -> SUBSET View],
           early' \in [Member -> SUBSET View],
           \A m \in Member : \A v \in early'[m] : v <= last[m] + 1,
           MayVote(n)
    PROVE  PaceInv'
<1>1. \A m \in Member : Good(pm'[m], last[m])
    BY DEF PaceInv, TypeOK
<1>2. \A m \in Member : pm'[m] \in PacemakerState /\ Certified(pm'[m].cert)
    BY <1>1 DEF PaceInv, TypeOK, Good
<1>3. /\ block' \in [View -> BlockState]
      /\ \A v \in View : block'[v].parent = block[v].parent
      /\ \A v \in View : v \in Proposed' => v \in Proposed
    BY VoteEffect DEF PaceInv
<1>4. \A v \in View : Certified(v)' <=> Certified(v)
    BY DEF Certified
<1>5. TypeOK'
    BY <1>2, <1>3, <1>4, Zenon DEF PaceInv, TypeOK, PacemakerState
<1>6. ProposalsFired'
    BY <1>3, <1>4 DEF PaceInv, ProposalsFired, TypeOK, BlockState
<1> QED
    BY <1>1, <1>5, <1>6 DEF PaceInv

\* A step that puts the certified block v into n's store and tells the pacemaker.
LEMMA StoreStep ==
    ASSUME PaceInv, NEW n \in Member, NEW v \in View, Store(n, v),
           n = leaderOf[v] \/ Certified(v),
           pm' = [pm EXCEPT ![n] = update_vblock_cert(@, v)],
           UNCHANGED <<timer, last, early, jobs>>,
           block' = block \/ block' = [block EXCEPT ![v].done = pm[n].clock]
    PROVE  PaceInv'
<1> USE DEF PaceInv
<1>1. /\ stored' \in [Member -> SUBSET View]
      /\ \A m \in Member : stored[m] \subseteq stored'[m]
      /\ v \in stored'[n]
    BY DEF Store, TypeOK
<1>2. Certified(v)'
    BY <1>1, CertifiedStays DEF Certified
<1>3. \A w \in View : Certified(w) => Certified(w)'
    BY <1>1, CertifiedStays
<1>4. top' \in [Member -> View] /\ \A m \in Member : top'[m] \in {top[m], v}
    BY DEF Store, TypeOK
<1>5. \A m \in Member : Good(pm'[m], last[m]) /\ pm'[m].cert \in {pm[m].cert, v}
    BY UpdateCert, Zenon DEF TypeOK
<1>6. \A m \in Member : pm'[m] \in PacemakerState /\ Certified(pm[m].cert)'
    BY <1>2, <1>3, <1>5, Zenon DEF TypeOK, Good, PacemakerState, Certified
<1>7. /\ block' \in [View -> BlockState]
      /\ \A w \in View : block'[w].parent = block[w].parent
      /\ \A w \in View : block'[w].votes = block[w].votes
    <2>1. CASE block' = block
        BY <2>1 DEF TypeOK
    <2>2. CASE block' = [block EXCEPT ![v].done = pm[n].clock]
        <3>1. block[v] \in BlockState /\ pm[n].clock \in {0} \cup Clock
            BY DEF TypeOK, PacemakerState
        <3>2. [block[v] EXCEPT !.done = pm[n].clock] \in BlockState
            BY <3>1 DEF BlockState
        <3>3. block' = [block EXCEPT ![v] = [block[v] EXCEPT !.done = pm[n].clock]]
            BY <2>2
        <3>4. \A w \in View : block'[w] \in BlockState
            BY <3>2, <3>3 DEF TypeOK
        <3>5. /\ block'[v] = [block[v] EXCEPT !.done = pm[n].clock]
              /\ \A w \in View : w # v => block'[w] = block[w]
            BY <3>3 DEF TypeOK
        <3>6. block'[v].parent = block[v].parent /\ block'[v].votes = block[v].votes
            BY <3>1, <3>5 DEF BlockState
        <3> QED
            BY <3>2, <3>3, <3>5, <3>6 DEF TypeOK
    <2> QED
        BY <2>1, <2>2
<1>8. TypeOK'
    <2>1. \A m \in Member : Certified(top[m])'
        BY <1>2, <1>3, <1>4 DEF TypeOK, Certified
    <2>2. pm' \in [Member -> PacemakerState]
        BY <1>6 DEF TypeOK
    <2> QED
        BY <1>1, <1>4, <1>6, <1>7, <2>1, <2>2 DEF TypeOK
<1>9. ProposalsFired'
    <2>1. \A w \in View : block[w].parent \in View
        BY DEF TypeOK, BlockState
    <2> QED
        BY <1>3, <1>7, <2>1 DEF ProposalsFired, Proposed
<1> QED
    BY <1>1, <1>5, <1>8, <1>9

\* What on_view_fire finds: a view after its last one, and no other early proposal.
LEMMA FireFacts ==
    ASSUME PaceInv, NEW n \in Member, pm[n].queue # <<>>
    PROVE  /\ Fired(n) \in Nat /\ last[n] < Fired(n)
           /\ Good(Fire(n), Fired(n)) /\ Fire(n).cert = pm[n].cert
           /\ StillEarly(n) \subseteq {Fired(n)}
<1> DEFINE q == pm[n].queue
<1>1. /\ pm[n] \in PacemakerState /\ q \in Seq(Nat) /\ pm[n].view \in Nat
      /\ last[n] \in Nat /\ Ordered(q, last[n], pm[n].view)
    BY DEF PaceInv, Good, PacemakerState
<1>2. /\ Head(q) \in Nat /\ last[n] < Head(q) /\ Head(q) <= pm[n].view
      /\ Tail(q) \in Seq(Nat) /\ Ordered(Tail(q), Head(q), pm[n].view)
    BY <1>1, TailOrdered
<1>3. Fire(n) = [pm[n] EXCEPT !.queue = Tail(q)] /\ Fired(n) = Head(q)
    BY DEF Fire, Fired
<1> HIDE DEF q
<1>4. Good(Fire(n), Fired(n)) /\ Fire(n).cert = pm[n].cert
    BY <1>1, <1>2, <1>3, Zenon DEF Good, PacemakerState
<1>5. StillEarly(n) \subseteq {Fired(n)}
    <2> SUFFICES ASSUME NEW v \in early[n], v >= Fired(n) PROVE v = Fired(n)
        BY DEF StillEarly
    <2>1. v \in Nat /\ v <= last[n] + 1
        BY PaceAssumption DEF PaceInv, TypeOK, View
    <2> QED
        BY <1>1, <1>2, <1>3, <2>1
<1> QED
    BY <1>2, <1>3, <1>4, <1>5

\* A step of on_view_fire.
LEMMA FireStep ==
    ASSUME PaceInv, NEW n \in Member, pm[n].queue # <<>>,
           NEW STATE p, Good(p, Fired(n)), Certified(p.cert),
           pm' = [pm EXCEPT ![n] = p],
           last' = [last EXCEPT ![n] = Fired(n)],
           NEW STATE E, E \subseteq StillEarly(n), early' = [early EXCEPT ![n] = E],
           UNCHANGED <<timer, stored, top>>,
           jobs' \in [Member -> SUBSET View],
           block' \in [View -> BlockState],
           \A v \in View : Certified(block'[v].parent),
           \A v \in Proposed' : v \in Proposed \/ (v = Fired(n) /\ leaderOf[v] = n)
    PROVE  PaceInv'
<1> USE DEF PaceInv
<1>1. Fired(n) \in Nat /\ last[n] < Fired(n) /\ StillEarly(n) \subseteq {Fired(n)}
    BY FireFacts
<1>2. \A m \in Member : last[m] \in Nat /\ last'[m] \in Nat /\ last[m] <= last'[m]
    BY <1>1 DEF TypeOK
<1>3. \A m \in Member : Good(pm'[m], last'[m]) /\ Certified(pm'[m].cert)
    BY DEF TypeOK
<1>4. /\ early' \in [Member -> SUBSET View]
      /\ \A m \in Member : \A v \in early'[m] : v <= last'[m] + 1
    <2>1. E \subseteq early[n] /\ E \subseteq {Fired(n)}
        BY <1>1 DEF StillEarly
    <2>2. \A m \in Member : early'[m] \subseteq View
        BY <2>1 DEF TypeOK
    <2>3. \A v \in early'[n] : v <= last'[n] + 1
        BY <1>1, <2>1 DEF TypeOK
    <2>4. ASSUME NEW m \in Member, m # n
          PROVE  early'[m] = early[m] /\ last'[m] = last[m]
        BY <2>4 DEF TypeOK
    <2> QED
        BY <2>1, <2>2, <2>3, <2>4 DEF TypeOK
<1>5. \A v \in View : Certified(v)' <=> Certified(v)
    BY DEF Certified
<1>6. \A m \in Member : pm'[m] \in PacemakerState
    BY <1>3 DEF Good
<1>7. pm' \in [Member -> PacemakerState] /\ last' \in [Member -> Nat]
    BY <1>1, <1>6 DEF TypeOK
<1>8. \A m \in Member : Certified(pm[m].cert)' /\ Certified(top[m])'
    BY <1>3, <1>5, <1>6 DEF TypeOK, PacemakerState, Certified
<1>9. \A v \in View : Certified(block[v].parent)'
    BY DEF Certified
<1>10. TypeOK'
    BY <1>4, <1>7, <1>8 DEF TypeOK
<1>11. \A v \in Proposed' : v <= last'[leaderOf[v]]
    <2> SUFFICES ASSUME NEW v \in Proposed' PROVE v <= last'[leaderOf[v]]
        OBVIOUS
    <2>1. v \in View /\ v \in Nat /\ leaderOf[v] \in Member
        BY PaceAssumption DEF Proposed, View
    <2>2. CASE v \in Proposed
        BY <2>1, <2>2, <1>2 DEF ProposalsFired
    <2>3. CASE v = Fired(n) /\ leaderOf[v] = n
        BY <2>1, <2>3, <1>1 DEF TypeOK
    <2> QED
        BY <2>2, <2>3
<1> QED
    BY <1>3, <1>4, <1>9, <1>10, <1>11 DEF ProposalsFired

\* Early proposals and those under verification have been proposed.
Pending == \A n \in Member : early[n] \subseteq Proposed /\ jobs[n] \subseteq Proposed

LEMMA HandleFacts ==
    ASSUME TypeOK, NEW n \in Member, NEW v \in Proposed, NEW STATE p, Handle(n, v, p)
    PROVE  /\ pm' = [pm EXCEPT ![n] = p]
           /\ jobs' \in [Member -> SUBSET View]
           /\ MayVote(n)
           /\ \A m \in Member : jobs'[m] \subseteq jobs[m] \cup {v}
<1>1. v \in View
    BY DEF Proposed
<1>2. CASE p.view = v
    BY <1>1, <1>2 DEF Handle, Vote, MayVote, TypeOK
<1>3. CASE p.view # v
    BY <1>1, <1>3 DEF Handle, MayVote, TypeOK
<1> QED
    BY <1>2, <1>3

LEMMA PaceStep == PaceInv /\ Pending /\ [Next]_vars => PaceInv'
<1> SUFFICES ASSUME PaceInv, Pending, [Next]_vars PROVE PaceInv'
    OBVIOUS
<1> USE DEF PaceInv
<1>1. \A m \in Member : Good(pm[m], last[m]) /\ Certified(pm[m].cert) /\ Certified(top[m])
    BY DEF TypeOK
<1>2. ASSUME NEW n \in Member, TimerStored(n) PROVE PaceInv'
    <2>1. pm' = [pm EXCEPT ![n] = pm[n]] /\ timer' \in [Member -> {0} \cup Clock]
        BY <1>2 DEF TimerStored, TypeOK
    <2> QED
        BY <1>1, <1>2, <2>1, PacemakerStep, Zenon DEF TimerStored, TypeOK, MayVote
<1>3. ASSUME NEW n \in Member, on_clock_fire(n) PROVE PaceInv'
    <2>1. PICK c \in Clock : pm' = [pm EXCEPT ![n] = update_clock_cert(pm[n], c)]
        BY <1>3, Zenon DEF on_clock_fire
    <2>2. /\ Good(update_clock_cert(pm[n], c), last[n])
          /\ Certified(update_clock_cert(pm[n], c).cert)
        BY <1>1, UpdateClock, Zenon
    <2> QED
        BY <1>3, <2>1, <2>2, PacemakerStep, Zenon DEF on_clock_fire, TypeOK, MayVote
<1>4. ASSUME NEW n \in Member, NEW v \in View, CommitClock(n, v) PROVE PaceInv'
    <2>1. block[v].done \in {0} \cup Clock
        BY DEF TypeOK, BlockState
    <2>2. /\ Good(update_clock_cert(pm[n], block[v].done), last[n])
          /\ Certified(update_clock_cert(pm[n], block[v].done).cert)
        BY <1>1, <2>1, UpdateClock
    <2> QED
        BY <1>4, <2>2, PacemakerStep, Zenon DEF CommitClock, TypeOK, MayVote
<1>5. ASSUME NEW n \in Member, NEW v \in View, Certificate(n, v) PROVE PaceInv'
    BY <1>5, StoreStep, Zenon DEF Certificate
<1>6. ASSUME NEW v \in View, on_proposal_finish(v) PROVE PaceInv'
    <2>1. leaderOf[v] \in Member
        BY PaceAssumption
    <2> QED
        BY <1>6, <2>1, StoreStep, Zenon DEF on_proposal_finish
<1>7. ASSUME NEW n \in Member, NEW v \in View, recv_in(n, v) PROVE PaceInv'
    <2> DEFINE p == on_proposal_start(n, pm[n])
    <2>1. Good(p, last[n]) /\ Certified(p.cert)
        BY <1>1, ProposalStart
    <2>2. Handle(n, v, p) /\ v \in Proposed
        BY <1>7 DEF recv_in
    <2> HIDE DEF p
    <2>3. /\ pm' = [pm EXCEPT ![n] = p]
          /\ jobs' \in [Member -> SUBSET View]
          /\ MayVote(n)
        BY <2>2, HandleFacts
    <2>4. /\ early' \in [Member -> SUBSET View]
          /\ \A m \in Member : \A w \in early'[m] : w <= last[m] + 1
        <3>1. last[n] + 1 <= last[n] + 1
            BY DEF TypeOK
        <3> QED
            BY <1>7, <3>1 DEF recv_in, filter_event, TypeOK
    <2>5. UNCHANGED <<timer, stored, top, last>>
        BY <1>7 DEF recv_in
    <2> QED
        BY <2>1, <2>3, <2>4, <2>5, PacemakerStep, Zenon DEF TypeOK
<1>8. ASSUME NEW n \in Member, NEW v \in View, after_verify_cert_job(n, v) PROVE PaceInv'
    <2> DEFINE r == update_clock_cert(pm[n], block[v].sent)
               p == update_vblock_cert(r, block[v].parent)
    <2>1. block[v].sent \in {0} \cup Clock /\ block[v].parent \in View
        BY DEF TypeOK, BlockState
    <2>2. Good(r, last[n]) /\ r.cert = pm[n].cert
        BY <1>1, <2>1, UpdateClock, Zenon
    <2> HIDE DEF r
    <2>3. Good(p, last[n]) /\ Certified(p.cert)
        BY <1>1, <2>1, <2>2, UpdateCert DEF ProposalsFired
    <2>4. /\ pm' = [pm EXCEPT ![n] = p] /\ Vote(n, v, p.view)
          /\ jobs' \in [Member -> SUBSET View]
          /\ UNCHANGED <<timer, stored, top, last, early>>
        BY <1>8 DEF after_verify_cert_job, TypeOK, r
    <2> HIDE DEF p
    <2>5. v \in Proposed
        BY <1>8 DEF after_verify_cert_job, Pending
    <2>6. MayVote(n)
        BY <2>4, <2>5 DEF Vote, MayVote
    <2> QED
        BY <2>3, <2>4, <2>6, PacemakerStep, Zenon DEF TypeOK
<1>9. ASSUME NEW n \in Member, ViewIdle(n) PROVE PaceInv'
    <2>0. pm[n].queue # <<>>
        BY <1>9 DEF ViewIdle
    <2>1. Good(Fire(n), Fired(n)) /\ Certified(Fire(n).cert)
        BY <1>1, <2>0, FireFacts
    <2>2. Proposed' = Proposed
        BY <1>9 DEF ViewIdle, Proposed
    <2> QED
        BY <1>9, <2>1, <2>2, FireStep, Zenon DEF ViewIdle, TypeOK, ProposalsFired
<1>10. ASSUME NEW n \in Member, ViewBackup(n) PROVE PaceInv'
    <2> DEFINE p == on_proposal_start(n, Fire(n))
    <2>0. pm[n].queue # <<>>
        BY <1>10 DEF ViewBackup
    <2>1. Good(Fire(n), Fired(n)) /\ Certified(Fire(n).cert)
        BY <1>1, <2>0, FireFacts
    <2>2. Good(p, Fired(n)) /\ Certified(p.cert)
        BY <1>1, <2>1, ProposalStart
    <2>3. Handle(n, Fired(n), p) /\ Fired(n) \in Proposed
        BY <1>10 DEF ViewBackup, Pending
    <2> HIDE DEF p
    <2>4. pm' = [pm EXCEPT ![n] = p] /\ jobs' \in [Member -> SUBSET View] /\ MayVote(n)
        BY <2>3, HandleFacts
    <2>5. /\ block' \in [View -> BlockState]
          /\ \A v \in View : block'[v].parent = block[v].parent
          /\ \A v \in Proposed' : v \in Proposed
        BY <2>4, VoteEffect DEF Proposed
    <2>6. \A v \in View : Certified(block'[v].parent)
        BY <2>5 DEF ProposalsFired
    <2>7. StillEarly(n) \ {Fired(n)} \subseteq StillEarly(n)
        OBVIOUS
    <2> QED
        BY <1>10, <2>2, <2>4, <2>5, <2>6, <2>7, FireStep, Zenon DEF ViewBackup
<1>11. ASSUME NEW n \in Member, ViewLead(n) PROVE PaceInv'
    <2> DEFINE p == on_proposal_start(n, Fire(n))
    <2>0. pm[n].queue # <<>>
        BY <1>11 DEF ViewLead
    <2>1. Good(Fire(n), Fired(n)) /\ Certified(Fire(n).cert)
        BY <1>1, <2>0, FireFacts
    <2>2. Good(p, Fired(n)) /\ Certified(p.cert)
        BY <1>1, <2>1, ProposalStart
    <2> HIDE DEF p
    <2>3. /\ block' \in [View -> BlockState]
          /\ \A v \in View : Certified(block'[v].parent)
          /\ \A v \in Proposed' : v \in Proposed \/ (v = Fired(n) /\ leaderOf[v] = n)
        <3>1. CASE block' = block
            BY <3>1 DEF TypeOK, ProposalsFired, Proposed
        <3>2. CASE block' # block
            <4> DEFINE b == [clock |-> IF timer[n] = 0 THEN p.clock ELSE timer[n],
                             height |-> block[top[n]].height + 1,
                             parent |-> top[n], sent |-> p.clock, done |-> 0,
                             votes |-> {n}]
            <4>1. /\ block' = [block EXCEPT ![Fired(n)] = b]
                  /\ Fired(n) \in View /\ leaderOf[Fired(n)] = n
                BY <1>11, <3>2 DEF ViewLead, p
            <4>2. b \in BlockState /\ b.parent = top[n]
                BY <2>2 DEF TypeOK, BlockState, Good, PacemakerState
            <4> HIDE DEF b
            <4>3. /\ block'[Fired(n)] = b
                  /\ \A v \in View : v # Fired(n) => block'[v] = block[v]
                BY <4>1 DEF TypeOK
            <4>4. block' \in [View -> BlockState]
                BY <4>1, <4>2 DEF TypeOK
            <4>5. \A v \in View : Certified(block'[v].parent)
                BY <1>1, <4>2, <4>3 DEF ProposalsFired
            <4>6. \A v \in Proposed' : v \in Proposed \/ v = Fired(n)
                BY <4>3 DEF Proposed
            <4> QED
                BY <4>1, <4>4, <4>5, <4>6
        <3> QED
            BY <3>1, <3>2
    <2>4. pm' = [pm EXCEPT ![n] = p] /\ jobs' \in [Member -> SUBSET View]
        BY <1>11 DEF ViewLead, TypeOK, p
    <2> QED
        BY <1>11, <2>2, <2>3, <2>4, FireStep, Zenon DEF ViewLead
<1>12. CASE UNCHANGED vars
    BY <1>12 DEF vars, TypeOK, ProposalsFired, Certified, Proposed
<1> QED
    BY <1>2, <1>3, <1>4, <1>5, <1>6, <1>7, <1>8, <1>9, <1>10, <1>11, <1>12 DEF Next

\* Proposals are never taken back, nor is a view proposed again.
LEMMA KeepsStep ==
    ASSUME PaceInv, Pending, Next
    PROVE  KeepsProposals /\ Proposed \subseteq Proposed'
<1> USE DEF PaceInv
<1> DEFINE Kept == \A v \in Proposed : /\ block'[v].clock = block[v].clock
                                       /\ block'[v].parent = block[v].parent
                                       /\ block[v].votes \subseteq block'[v].votes
                                       /\ block'[v].sent = block[v].sent
<1>1. ASSUME NEW n \in Member, MayVote(n) PROVE Kept
    <2>1. CASE block' = block
        BY <2>1
    <2>2. CASE \E v \in Proposed : block' = [block EXCEPT ![v].votes = @ \cup {n}]
        <3>1. PICK v \in Proposed : block' = [block EXCEPT ![v].votes = @ \cup {n}]
            BY <2>2, Zenon
        <3>2. /\ v \in View /\ block[v] \in BlockState
              /\ block'[v] = [block[v] EXCEPT !.votes = @ \cup {n}]
              /\ \A w \in View : w # v => block'[w] = block[w]
            BY <3>1 DEF Proposed, TypeOK
        <3>3. /\ block'[v].clock = block[v].clock /\ block'[v].parent = block[v].parent
              /\ block[v].votes \subseteq block'[v].votes /\ block'[v].sent = block[v].sent
            BY <3>2 DEF BlockState
        <3> QED
            BY <3>2, <3>3, Zenon DEF Proposed
    <2> QED
        BY <1>1, <2>1, <2>2 DEF MayVote
<1>2. ASSUME NEW v \in View, on_proposal_finish(v) PROVE Kept
    <2>1. PICK c : block' = [block EXCEPT ![v].done = c]
        BY <1>2, Zenon DEF on_proposal_finish
    <2>2. /\ block[v] \in BlockState
          /\ block'[v] = [block[v] EXCEPT !.done = c]
          /\ \A w \in View : w # v => block'[w] = block[w]
        BY <2>1 DEF TypeOK
    <2>3. /\ block'[v].clock = block[v].clock /\ block'[v].parent = block[v].parent
          /\ block[v].votes \subseteq block'[v].votes /\ block'[v].sent = block[v].sent
        BY <2>2 DEF BlockState
    <2> QED
        BY <2>2, <2>3, Zenon DEF Proposed
<1>3. ASSUME NEW n \in Member, ViewLead(n) PROVE Kept
    <2>1. CASE block' = block
        BY <2>1
    <2>2. CASE block' # block
        <3>1. /\ Fired(n) \in View /\ leaderOf[Fired(n)] = n
              /\ \A w \in View : w # Fired(n) => block'[w] = block[w]
            BY <1>3, <2>2 DEF ViewLead, TypeOK
        <3>2. last[n] \in Nat /\ Fired(n) \in Nat /\ last[n] < Fired(n)
            BY <1>3, FireFacts DEF ViewLead, TypeOK
        <3>3. Fired(n) \notin Proposed
            BY <3>1, <3>2 DEF ProposalsFired
        <3> QED
            BY <3>1, <3>3 DEF Proposed
    <2> QED
        BY <2>1, <2>2
<1>4. ASSUME block' = block PROVE Kept
    BY <1>4
<1>5. ASSUME NEW n \in Member, NEW v \in View, recv_in(n, v) PROVE MayVote(n)
    BY <1>5, HandleFacts DEF recv_in
<1>6. ASSUME NEW n \in Member, ViewBackup(n) PROVE MayVote(n)
    <2>1. Fired(n) \in Proposed /\ Handle(n, Fired(n), on_proposal_start(n, Fire(n)))
        BY <1>6 DEF ViewBackup, Pending
    <2> QED
        BY <2>1, HandleFacts
<1>7. ASSUME NEW n \in Member, NEW v \in View, after_verify_cert_job(n, v) PROVE MayVote(n)
    <2>1. v \in Proposed
        BY <1>7 DEF after_verify_cert_job, Pending
    <2> QED
        BY <1>7, <2>1 DEF after_verify_cert_job, Vote, MayVote
<1>8. Kept
    <2>1. ASSUME NEW n \in Member, TimerStored(n) \/ on_clock_fire(n) \/ ViewIdle(n)
          PROVE  block' = block
        BY <2>1 DEF TimerStored, on_clock_fire, ViewIdle
    <2>2. ASSUME NEW n \in Member, NEW v \in View, CommitClock(n, v) \/ Certificate(n, v)
          PROVE  block' = block
        BY <2>2 DEF CommitClock, Certificate
    <2> QED
        BY <1>1, <1>2, <1>3, <1>4, <1>5, <1>6, <1>7, <2>1, <2>2 DEF Next
<1>9. Proposed \subseteq Proposed'
    <2> SUFFICES ASSUME NEW v \in View, block[v].votes # {} PROVE block'[v].votes # {}
        BY DEF Proposed
    <2>1. block[v].votes \subseteq block'[v].votes
        BY <1>8 DEF Proposed
    <2> QED
        BY <2>1
<1> QED
    BY <1>8, <1>9 DEF KeepsProposals

LEMMA PendingStep ==
    ASSUME PaceInv, Pending, [Next]_vars
    PROVE  Pending'
<1> USE DEF PaceInv
<1>1. Proposed \subseteq Proposed'
    <2>1. CASE Next
        BY <2>1, KeepsStep
    <2>2. CASE UNCHANGED vars
        BY <2>2 DEF vars, Proposed
    <2> QED
        BY <2>1, <2>2
<1>2. ASSUME NEW m \in Member, early'[m] \subseteq Proposed, jobs'[m] \subseteq Proposed
      PROVE  early'[m] \subseteq Proposed' /\ jobs'[m] \subseteq Proposed'
    BY <1>1, <1>2
<1>3. CASE UNCHANGED <<early, jobs>>
    BY <1>2, <1>3 DEF Pending
<1>4. ASSUME NEW n \in Member, NEW v \in View, recv_in(n, v) PROVE Pending'
    <2>1. v \in Proposed /\ \A m \in Member : jobs'[m] \subseteq jobs[m] \cup {v}
        BY <1>4, HandleFacts DEF recv_in
    <2>2. \A m \in Member : early'[m] \subseteq early[m] \cup {v}
        BY <1>4 DEF recv_in, filter_event, TypeOK
    <2> QED
        BY <1>2, <2>1, <2>2 DEF Pending
<1>5. ASSUME NEW n \in Member, NEW v \in View, after_verify_cert_job(n, v) PROVE Pending'
    BY <1>2, <1>5 DEF after_verify_cert_job, Pending, TypeOK
<1>6. ASSUME NEW n \in Member, ViewIdle(n) \/ ViewLead(n) PROVE Pending'
    <2>1. early' = [early EXCEPT ![n] = StillEarly(n)] /\ jobs' = jobs
        BY <1>6 DEF ViewIdle, ViewLead
    <2>2. \A m \in Member : early'[m] \subseteq early[m]
        BY <2>1 DEF StillEarly, TypeOK
    <2> QED
        BY <1>2, <2>1, <2>2 DEF Pending
<1>7. ASSUME NEW n \in Member, ViewBackup(n) PROVE Pending'
    <2>1. Fired(n) \in Proposed /\ Handle(n, Fired(n), on_proposal_start(n, Fire(n)))
        BY <1>7 DEF ViewBackup, Pending
    <2>2. \A m \in Member : jobs'[m] \subseteq jobs[m] \cup {Fired(n)}
        BY <2>1, HandleFacts
    <2>3. \A m \in Member : early'[m] \subseteq early[m]
        BY <1>7 DEF ViewBackup, StillEarly, TypeOK
    <2> QED
        BY <1>2, <2>1, <2>2, <2>3 DEF Pending
<1>8. ASSUME NEW n \in Member, TimerStored(n) \/ on_clock_fire(n)
      PROVE  UNCHANGED <<early, jobs>>
    BY <1>8 DEF TimerStored, on_clock_fire
<1>9. ASSUME NEW n \in Member, NEW v \in View, CommitClock(n, v) \/ Certificate(n, v)
      PROVE  UNCHANGED <<early, jobs>>
    BY <1>9 DEF CommitClock, Certificate
<1>10. ASSUME NEW v \in View, on_proposal_finish(v) PROVE UNCHANGED <<early, jobs>>
    BY <1>10 DEF on_proposal_finish
<1> QED
    BY <1>3, <1>4, <1>5, <1>6, <1>7, <1>8, <1>9, <1>10 DEF Next, vars

---------------------------------------------------------------------------

LEMMA PaceInvariant == Spec => [](PaceInv /\ Pending)
<1>1. Init => Pending
    BY DEF Init, Pending
<1>2. PaceInv /\ Pending /\ [Next]_vars => Pending'
    BY PendingStep
<1> QED
    BY <1>1, <1>2, PaceInit, PaceStep, PTL DEF Spec

\* TypeOK, and with it that no pacemaker follows a certificate without its votes.
THEOREM PaceTypeTheorem == Spec => []TypeOK
<1>1. PaceInv /\ Pending => TypeOK
    BY DEF PaceInv
<1> QED
    BY <1>1, PaceInvariant, PTL

\* The views under way to the packers are in order: the assert of on_view_fire holds.
THEOREM FiresInOrderTheorem == Spec => []FiresInOrder
<1>1. PaceInv /\ Pending => FiresInOrder
    BY DEF PaceInv, FiresInOrder, Good, Ordered
<1> QED
    BY <1>1, PaceInvariant, PTL

\* The search of get_proposal_event ends.
THEOREM NoSpinTheorem == Spec => []NoSpin
<1>1. PaceInv /\ Pending => NoSpin
    BY FireFacts DEF NoSpin
<1> QED
    BY <1>1, PaceInvariant, PTL

\* No leader replaces its proposal of a view.
THEOREM ProposesOnceTheorem == Spec => ProposesOnce
<1>1. PaceInv /\ Pending /\ [Next]_vars => [KeepsProposals]_vars
    BY KeepsStep
<1> QED
    BY <1>1, PaceInvariant, PTL DEF Spec, ProposesOnce

=============================================================================
