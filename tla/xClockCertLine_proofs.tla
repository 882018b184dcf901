------------------------ MODULE xClockCertLine_proofs ------------------------
(***************************************************************************)
(* Why a certificate and a clock determine the view.  The weight of a      *)
(* block is how far its view is ahead of its clock.  A leader's view is at *)
(* least the one of its certificate and clock, so a block outweighs the    *)
(* one it is made on, and along a chain the newest certificate gives the   *)
(* largest view.                                                           *)
(***************************************************************************)
EXTENDS xClockCertView_proofs, NatSets

Done == {v \in View : Certified(v)}

Weight(b, v) == 3 * v - b[v].clock

\* ViewOf with the blocks named.
ViewIn(b, cert, clock) ==
    IF clock > b[cert].clock
    THEN cert + 1 + (clock - b[cert].clock) \div 3
    ELSE cert + 1

\* p's view was reached with a certificate in C and a clock that it knows...
Known(p, C, b) ==
    \/ p.view = 0
    \/ \E c \in C, k \in Clock : c <= p.cert /\ k <= p.clock /\ p.view = ViewIn(b, c, k)

\* ... and is not behind what it knows.
Reached(p, C, b) ==
    /\ Known(p, C, b)
    /\ p.clock # 0 => p.view >= ViewIn(b, p.cert, p.clock)

\* Only proposals are certified, and outweigh their parents unless they fork.
Heavier(v, C, b) ==
    /\ b[v].parent < v
    /\ \/ Weight(b, v) > Weight(b, b[v].parent)
       \/ \E u \in C : b[v].parent < u /\ u < v

LineInv ==
    /\ \A n \in Member : Reached(pm[n], Done, block)
    /\ Done \subseteq Proposed \cup {0}
    /\ \A v \in Proposed : Heavier(v, Done, block)

LEMMA ViewBounds ==
    ASSUME NEW b \in [View -> BlockState], NEW c \in View, NEW k \in Clock
    PROVE  /\ c \in Nat /\ k \in Nat /\ Weight(b, c) \in Int /\ ViewIn(b, c, k) \in Nat
           /\ ViewIn(b, c, k) >= c + 1
           /\ 3 * ViewIn(b, c, k) >= k + Weight(b, c) + 1
           /\ ViewIn(b, c, k) = c + 1 \/ 3 * ViewIn(b, c, k) <= k + Weight(b, c) + 3
<1>1. {0} \cup Clock \subseteq Nat /\ b[c].clock \in {0} \cup Clock
    BY PaceAssumption DEF BlockState
<1>2. k \in Nat /\ b[c].clock \in Nat /\ c \in Nat
    <2>1. k \in Nat /\ b[c].clock \in Nat
        BY <1>1
    <2>2. c \in Nat
        BY PaceAssumption DEF View
    <2> QED
        BY <2>1, <2>2
<1> DEFINE x == k - b[c].clock
           d == x \div 3
<1>3. x \in Int /\ d \in Int /\ 3 * d <= x /\ x <= 3 * d + 2 /\ (x > 0 => d >= 0)
    <2>1. x \in Int
        BY <1>2
    <2> HIDE DEF x
    <2>2. d \in Int /\ x % 3 \in 0 .. 2 /\ x = 3 * d + (x % 3)
        BY <2>1
    <2> HIDE DEF d
    <2> QED
        BY <2>1, <2>2
<1>4. ViewIn(b, c, k) = IF x > 0 THEN c + 1 + d ELSE c + 1
    BY <1>2 DEF ViewIn
<1> HIDE DEF x
<1>5. b[c].clock = k - x
    BY <1>2 DEF x
<1> HIDE DEF d
<1> QED
    BY <1>2, <1>3, <1>4, <1>5 DEF Weight

LEMMA RaiseView ==
    ASSUME TypeOK, NEW p \in PacemakerState, NEW C, Known(p, C, block), p.cert \in C
    PROVE  Reached(update_view(p), C, block)
<1> DEFINE w == ViewOf(p.cert, p.clock)
           r == update_view(p)
<1>1. w = ViewIn(block, p.cert, p.clock) /\ w \in Nat /\ p.view \in Nat
    BY ViewOfType, Zenon DEF ViewOf, ViewIn, PacemakerState
<1>2. p.clock # 0 => p.clock \in Clock /\ p.clock <= p.clock /\ p.cert <= p.cert
    <2>1. p.clock \in {0} \cup Clock /\ {0} \cup Clock \subseteq Nat /\ p.cert \in View
        BY PaceAssumption DEF PacemakerState
    <2>2. p.clock \in Nat
        BY <2>1
    <2>3. p.cert \in Nat
        BY <2>1, PaceAssumption DEF View
    <2> QED
        BY <2>1, <2>2, <2>3
<1>3. CASE p.clock # 0 /\ w > p.view
    <2>1. r.clock = p.clock /\ r.cert = p.cert /\ r.view = w
        BY <1>3 DEF update_view, PacemakerState
    <2> HIDE DEF w, r
    <2>2. Known(r, C, block)
        BY <1>1, <1>2, <1>3, <2>1, Zenon DEF Known
    <2>3. r.view >= ViewIn(block, r.cert, r.clock)
        BY <1>1, <2>1
    <2> QED
        BY <2>2, <2>3 DEF Reached, r
<1>4. CASE ~ (p.clock # 0 /\ w > p.view)
    <2>1. r = p
        BY <1>4 DEF update_view
    <2>2. p.clock # 0 => p.view >= w
        BY <1>1, <1>4
    <2> HIDE DEF w, r
    <2> QED
        BY <1>1, <2>1, <2>2, Zenon DEF Reached, r
<1> QED
    BY <1>3, <1>4

LEMMA RaiseClock ==
    ASSUME TypeOK, NEW p \in PacemakerState, NEW C, Reached(p, C, block), p.cert \in C,
           NEW c \in {0} \cup Clock
    PROVE  /\ Reached(update_clock_cert(p, c), C, block)
           /\ update_clock_cert(p, c).clock >= c
<1>0. c \in Nat /\ p.clock \in Nat /\ \A k \in Clock : k \in Nat
    <2>1. p.clock \in {0} \cup Clock /\ {0} \cup Clock \subseteq Nat
        BY PaceAssumption DEF PacemakerState
    <2> QED
        BY <2>1
<1>1. CASE c > p.clock
    <2> DEFINE r == [p EXCEPT !.clock = c]
    <2>1. r \in PacemakerState /\ r.cert = p.cert /\ r.view = p.view /\ r.clock = c
        BY DEF PacemakerState
    <2>2. update_clock_cert(p, c) = update_view(r)
        BY <1>1 DEF update_clock_cert
    <2> HIDE DEF r
    <2>3. \A k \in Clock : k <= p.clock => k <= r.clock
        BY <1>0, <1>1, <2>1
    <2>4. Known(r, C, block)
        BY <2>1, <2>3, Zenon DEF Reached, Known
    <2>5. Reached(update_view(r), C, block)
        BY <2>1, <2>4, RaiseView, Zenon
    <2>6. update_view(r).clock = c
        BY <2>1 DEF update_view, PacemakerState
    <2> QED
        BY <1>0, <2>2, <2>5, <2>6
<1>2. CASE ~ (c > p.clock)
    BY <1>0, <1>2 DEF update_clock_cert
<1> QED
    BY <1>1, <1>2

LEMMA RaiseCert ==
    ASSUME TypeOK, NEW p \in PacemakerState, NEW C, Reached(p, C, block), p.cert \in C,
           C \subseteq View, NEW v \in C
    PROVE  /\ Reached(update_vblock_cert(p, v), C, block)
           /\ update_vblock_cert(p, v).cert >= v
           /\ update_vblock_cert(p, v).clock = p.clock
<1>0. v \in Nat /\ p.cert \in Nat /\ \A c \in C : c \in Nat
    BY PaceAssumption DEF PacemakerState, View
<1>1. CASE v > p.cert
    <2> DEFINE r == [p EXCEPT !.cert = v]
    <2>1. r \in PacemakerState /\ r.cert = v /\ r.view = p.view /\ r.clock = p.clock
        BY DEF PacemakerState
    <2>2. update_vblock_cert(p, v) = update_view(r)
        BY <1>1 DEF update_vblock_cert
    <2> HIDE DEF r
    <2>3. \A c \in C : c <= p.cert => c <= r.cert
        BY <1>0, <1>1, <2>1
    <2>4. Known(r, C, block)
        BY <2>1, <2>3, Zenon DEF Reached, Known
    <2>5. Reached(update_view(r), C, block)
        BY <2>1, <2>4, RaiseView, Zenon
    <2>6. update_view(r).cert = v /\ update_view(r).clock = p.clock
        BY <2>1 DEF update_view, PacemakerState
    <2> QED
        BY <1>0, <2>2, <2>5, <2>6
<1>2. CASE ~ (v > p.cert)
    BY <1>0, <1>2 DEF update_vblock_cert
<1> QED
    BY <1>1, <1>2

LEMMA RaiseStart ==
    ASSUME TypeOK, NEW n \in Member, NEW p, NEW l, Good(p, l), NEW C, C \subseteq View,
           Reached(p, C, block), p.cert \in C, top[n] \in C
    PROVE  LET r == on_proposal_start(n, p)
           IN Reached(r, C, block) /\ r.cert >= top[n] /\ r.clock >= timer[n]
<1> DEFINE q == update_clock_cert(p, timer[n])
           r == update_vblock_cert(q, top[n])
<1>1. timer[n] \in {0} \cup Clock
    BY DEF TypeOK
<1>2. Reached(q, C, block) /\ q.clock >= timer[n]
    BY <1>1, RaiseClock, Zenon DEF Good
<1>3. q \in PacemakerState /\ q.cert = p.cert
    BY <1>1, UpdateClock, Zenon DEF Good
<1> HIDE DEF q
<1>4. Reached(r, C, block) /\ r.cert >= top[n] /\ r.clock = q.clock
    BY <1>2, <1>3, RaiseCert
<1> HIDE DEF r
<1> QED
    BY <1>2, <1>4 DEF on_proposal_start, q, r

\* What a pacemaker has reached stays so when more blocks are certified.
LEMMA ReachedStays ==
    ASSUME NEW p, NEW C, NEW D, NEW b, NEW d, C \subseteq D, p.cert \in C,
           \A v \in C : d[v].clock = b[v].clock,
           Reached(p, C, b)
    PROVE  Reached(p, D, d)
<1>1. \A c \in C, k \in Clock : ViewIn(d, c, k) = ViewIn(b, c, k)
    BY DEF ViewIn
<1>2. ViewIn(d, p.cert, p.clock) = ViewIn(b, p.cert, p.clock)
    BY DEF ViewIn
<1>3. Known(p, D, d)
    BY <1>1, Zenon DEF Reached, Known
<1> QED
    BY <1>2, <1>3 DEF Reached

\* So do proposals that outweigh their parents.
LEMMA HeavierStays ==
    ASSUME NEW v, NEW C, NEW D, NEW b, NEW d, C \subseteq D, b[v].parent \in C,
           d[v].clock = b[v].clock, d[v].parent = b[v].parent,
           \A u \in C : d[u].clock = b[u].clock,
           Heavier(v, C, b)
    PROVE  Heavier(v, D, d)
<1>1. Weight(d, v) = Weight(b, v) /\ Weight(d, d[v].parent) = Weight(b, b[v].parent)
    BY DEF Weight
<1> QED
    BY <1>1, Zenon DEF Heavier

(***************************************************************************)
(* A step keeps LineInv if it keeps the proposals, certifies only them,    *)
(* and leaves every pacemaker with a view it has reached, and every new    *)
(* proposal as heavy as it should be.                                      *)
(***************************************************************************)
LEMMA LineKept ==
    ASSUME PaceInv, PaceInv', LineInv, Pending, Next,
           \A n \in Member : Reached(pm'[n], Done', block),
           Done \subseteq Done', Done' \subseteq Proposed \cup {0},
           block'[0].clock = block[0].clock,
           \A v \in Proposed' : v \in Proposed \/ Heavier(v, Done, block')
    PROVE  LineInv'
<1>1. KeepsProposals /\ Proposed \subseteq Proposed'
    BY KeepsStep
<1>2. \A v \in Done' : block'[v].clock = block[v].clock
    BY <1>1 DEF KeepsProposals
<1>3. \A n \in Member : pm'[n].cert \in Done'
    BY DEF PaceInv, TypeOK, Done, Certified, PacemakerState
<1>4. \A n \in Member : Reached(pm'[n], Done', block')
    BY <1>2, <1>3, ReachedStays
<1>5. \A v \in Proposed' : Heavier(v, Done', block')
    <2> SUFFICES ASSUME NEW v \in Proposed' PROVE Heavier(v, Done', block')
        OBVIOUS
    <2>1. CASE v \in Proposed
        <3>1. Heavier(v, Done, block) /\ block[v].parent \in Done
            BY <2>1, Zenon DEF LineInv, PaceInv, ProposalsFired, Done, Proposed, TypeOK, BlockState
        <3>2. block'[v].clock = block[v].clock /\ block'[v].parent = block[v].parent
            BY <1>1, <2>1 DEF KeepsProposals
        <3> QED
            BY <1>2, <3>1, <3>2, HeavierStays
    <2>2. CASE Heavier(v, Done, block')
        BY <2>2, Zenon DEF Heavier
    <2> QED
        BY <2>1, <2>2
<1>6. Done' \subseteq Proposed' \cup {0}
    BY <1>1
<1> QED
    BY <1>4, <1>5, <1>6 DEF LineInv

LEMMA VoteClock ==
    ASSUME TypeOK, NEW n \in Member, MayVote(n)
    PROVE  \A w \in View : block'[w].clock = block[w].clock
<1>1. CASE block' = block
    BY <1>1
<1>2. CASE \E v \in Proposed : block' = [block EXCEPT ![v].votes = @ \cup {n}]
    <2>1. PICK v \in Proposed : block' = [block EXCEPT ![v].votes = @ \cup {n}]
        BY <1>2, Zenon
    <2>2. /\ v \in View /\ block[v] \in BlockState
          /\ block'[v] = [block[v] EXCEPT !.votes = @ \cup {n}]
          /\ \A w \in View : w # v => block'[w] = block[w]
        BY <2>1 DEF Proposed, TypeOK
    <2>3. block'[v].clock = block[v].clock
        BY <2>2 DEF BlockState
    <2> QED
        BY <2>2, <2>3, Zenon
<1> QED
    BY <1>1, <1>2 DEF MayVote

\* A step that certifies nothing and at most adds a vote.
LEMMA LineVote ==
    ASSUME PaceInv, PaceInv', LineInv, Pending, Next, NEW n \in Member, NEW p,
           Reached(p, Done, block), pm' = [pm EXCEPT ![n] = p],
           stored' = stored, MayVote(n)
    PROVE  LineInv'
<1>1. Done' = Done
    BY DEF Done, Certified
<1>2. \A m \in Member : Reached(pm'[m], Done', block)
    BY <1>1 DEF LineInv, PaceInv, TypeOK
<1>3. 0 \in View
    BY PaceAssumption DEF View
<1>4. block'[0].clock = block[0].clock
    BY <1>3, VoteClock DEF PaceInv
<1>5. \A v \in Proposed' : v \in Proposed
    BY VoteEffect DEF PaceInv, Proposed
<1> QED
    BY <1>1, <1>2, <1>4, <1>5, LineKept DEF LineInv

\* A step that stores the block v, which has been voted for.
LEMMA LineStore ==
    ASSUME PaceInv, PaceInv', LineInv, Pending, Next, NEW n \in Member, NEW v \in View,
           Store(n, v), v \in Proposed \cup {0}, n = leaderOf[v] \/ Certified(v),
           pm' = [pm EXCEPT ![n] = update_vblock_cert(@, v)],
           block' = block \/ block' = [block EXCEPT ![v].done = pm[n].clock]
    PROVE  LineInv'
<1> USE DEF PaceInv
<1>1. Done' = Done \cup {v} /\ Done' \subseteq View
    BY PaceAssumption DEF Store, Done, Certified, TypeOK
<1>2. \A m \in Member : pm[m].cert \in Done /\ Reached(pm[m], Done, block)
    BY DEF TypeOK, PacemakerState, Done, LineInv
<1>3. \A m \in Member : Reached(pm[m], Done', block)
    BY <1>1, <1>2, ReachedStays
<1>4. Reached(update_vblock_cert(pm[n], v), Done', block)
    <2>1. pm[n] \in PacemakerState /\ pm[n].cert \in Done' /\ v \in Done'
        BY <1>1, <1>2 DEF TypeOK
    <2> QED
        BY <1>1, <1>3, <2>1, RaiseCert, Zenon
<1>5. \A m \in Member : Reached(pm'[m], Done', block)
    BY <1>3, <1>4 DEF TypeOK
<1>6. \A w \in View : block'[w].clock = block[w].clock /\ block'[w].votes = block[w].votes
    BY DEF TypeOK, BlockState
<1>7. Proposed' = Proposed /\ block'[0].clock = block[0].clock
    BY <1>6, PaceAssumption DEF Proposed, View
<1> QED
    BY <1>1, <1>5, <1>7, LineKept, Zenon DEF LineInv

\* What on_view_fire starts from.
LEMMA FireReached ==
    ASSUME PaceInv, LineInv, NEW n \in Member, pm[n].queue # <<>>
    PROVE  /\ Good(Fire(n), Fired(n)) /\ Fire(n).cert \in Done
           /\ Reached(Fire(n), Done, block)
<1>1. Good(Fire(n), Fired(n)) /\ Fire(n).cert = pm[n].cert
    BY FireFacts
<1>2. pm[n] \in PacemakerState /\ pm[n].cert \in Done /\ Reached(pm[n], Done, block)
    BY DEF PaceInv, TypeOK, PacemakerState, Done, LineInv
<1>3. Fire(n).clock = pm[n].clock /\ Fire(n).view = pm[n].view
    BY <1>2 DEF Fire, PacemakerState
<1> QED
    BY <1>1, <1>2, <1>3, Zenon DEF Reached, Known

\* The block of a leader outweighs the certificate that the leader knows.
LEMMA LeadHeavier ==
    ASSUME PaceInv, LineInv, NEW n \in Member, ViewLead(n), block' # block
    PROVE  /\ Fired(n) # 0 /\ Heavier(Fired(n), Done, block')
           /\ \A w \in View : w # Fired(n) => block'[w] = block[w]
<1> USE DEF PaceInv
<1> DEFINE v == Fired(n)
           p == on_proposal_start(n, Fire(n))
<1>1. Good(Fire(n), v) /\ Fire(n).cert \in Done /\ Reached(Fire(n), Done, block)
    BY FireReached DEF ViewLead
<1>2. Done \subseteq View /\ top[n] \in Done
    BY DEF Done, TypeOK
<1>3. Good(p, v) /\ p.cert \in {Fire(n).cert, top[n]}
    BY <1>1, ProposalStart, Zenon
<1>4. Reached(p, Done, block) /\ p.cert >= top[n] /\ p.clock >= timer[n]
    BY <1>1, <1>2, RaiseStart
<1>5. v \in View /\ v > top[n] /\ p.view = v
    BY <1>3, FireFacts DEF ViewLead
<1> DEFINE b == [clock |-> IF timer[n] = 0 THEN p.clock ELSE timer[n],
                 height |-> block[top[n]].height + 1,
                 parent |-> top[n], sent |-> p.clock, done |-> 0,
                 votes |-> {n}]
<1>6. block' = [block EXCEPT ![v] = b]
    BY DEF ViewLead
<1>7. b.clock \in {timer[n], p.clock} /\ b.parent = top[n]
    OBVIOUS
<1> HIDE DEF b, p, v
<1>8. block'[v] = b /\ \A w \in View : w # v => block'[w] = block[w]
    BY <1>5, <1>6 DEF TypeOK
<1>9. /\ v \in Nat /\ top[n] \in Nat /\ p.cert \in Nat /\ p.cert \in View
      /\ p.clock \in {0} \cup Clock
    BY <1>1, <1>2, <1>3, <1>5, PaceAssumption DEF View, Good, PacemakerState
<1>10. p.clock \in Clock
    <2>1. v # 0
        BY <1>5, <1>9
    <2>2. PICK k \in Clock : k <= p.clock
        BY <1>4, <1>5, <2>1, Zenon DEF Reached, Known
    <2>3. k \in Nat /\ k # 0
        BY PaceAssumption
    <2> QED
        BY <1>9, <2>2, <2>3
<1>11. /\ p.view >= ViewIn(block, p.cert, p.clock)
       /\ p.clock \in Nat /\ Weight(block, p.cert) \in Int /\ ViewIn(block, p.cert, p.clock) \in Nat
       /\ ViewIn(block, p.cert, p.clock) >= p.cert + 1
       /\ 3 * ViewIn(block, p.cert, p.clock) >= p.clock + Weight(block, p.cert) + 1
    <2>1. p.clock # 0
        BY <1>10, PaceAssumption
    <2> QED
        BY <1>4, <1>9, <1>10, <2>1, ViewBounds DEF Reached, TypeOK
<1>12. v >= p.cert + 1 /\ 3 * v - p.clock > Weight(block, p.cert)
    BY <1>5, <1>9, <1>11
<1>13. b.clock \in Nat /\ b.clock <= p.clock
    <2>1. timer[n] \in Nat
        <3>1. timer[n] \in {0} \cup Clock /\ {0} \cup Clock \subseteq Nat
            BY PaceAssumption DEF TypeOK
        <3> QED
            BY <3>1
    <2> QED
        BY <1>4, <1>7, <1>11, <2>1
<1>14. Weight(block', v) > Weight(block, p.cert)
    BY <1>8, <1>9, <1>11, <1>12, <1>13 DEF Weight
<1>15. CASE p.cert = top[n]
    <2>1. top[n] # v /\ top[n] \in View
        BY <1>2, <1>5, <1>9
    <2>2. Weight(block', top[n]) = Weight(block, top[n])
        BY <1>8, <2>1 DEF Weight
    <2>3. block'[v].parent = top[n]
        BY <1>7, <1>8
    <2> QED
        BY <1>5, <1>8, <1>9, <1>14, <1>15, <2>2, <2>3 DEF Heavier, v
<1>16. CASE p.cert # top[n]
    <2>1. p.cert \in Done /\ top[n] < p.cert /\ p.cert < v
        BY <1>1, <1>3, <1>4, <1>9, <1>12, <1>16
    <2>2. block'[v].parent = top[n] /\ top[n] < v
        BY <1>5, <1>7, <1>8, <1>9
    <2>3. Heavier(v, Done, block')
        BY <2>1, <2>2, Zenon DEF Heavier
    <2> QED
        BY <1>5, <1>8, <1>9, <2>3 DEF v
<1> QED
    BY <1>15, <1>16

LEMMA LineStep ==
    ASSUME PaceInv, PaceInv', LineInv, Pending, Next
    PROVE  LineInv'
<1> USE DEF PaceInv
<1>1. /\ \A m \in Member : /\ Good(pm[m], last[m]) /\ pm[m] \in PacemakerState
                            /\ pm[m].cert \in Done /\ top[m] \in Done
                            /\ Reached(pm[m], Done, block)
      /\ Done \subseteq View
    BY DEF TypeOK, PacemakerState, Done, LineInv
<1>2. ASSUME NEW n \in Member, TimerStored(n) PROVE LineInv'
    <2>1. pm' = [pm EXCEPT ![n] = pm[n]] /\ stored' = stored /\ MayVote(n)
        BY <1>2 DEF TimerStored, TypeOK, MayVote
    <2> QED
        BY <1>1, <2>1, LineVote, Zenon
<1>3. ASSUME NEW n \in Member, on_clock_fire(n) PROVE LineInv'
    <2>1. PICK c \in Clock : pm' = [pm EXCEPT ![n] = update_clock_cert(pm[n], c)]
        BY <1>3, Zenon DEF on_clock_fire
    <2>2. Reached(update_clock_cert(pm[n], c), Done, block)
        BY <1>1, RaiseClock, Zenon
    <2>3. stored' = stored /\ MayVote(n)
        BY <1>3 DEF on_clock_fire, MayVote
    <2> QED
        BY <2>1, <2>2, <2>3, LineVote, Zenon
<1>4. ASSUME NEW n \in Member, NEW v \in View, CommitClock(n, v) PROVE LineInv'
    <2>1. block[v].done \in {0} \cup Clock
        BY DEF TypeOK, BlockState
    <2>2. Reached(update_clock_cert(pm[n], block[v].done), Done, block)
        BY <1>1, <2>1, RaiseClock, Zenon
    <2>3. /\ pm' = [pm EXCEPT ![n] = update_clock_cert(pm[n], block[v].done)]
          /\ stored' = stored /\ MayVote(n)
        BY <1>4 DEF CommitClock, MayVote
    <2> QED
        BY <2>2, <2>3, LineVote, Zenon
<1>5. ASSUME NEW n \in Member, NEW v \in View, Certificate(n, v) PROVE LineInv'
    <2>1. v \in Proposed \cup {0} /\ Certified(v)
        BY <1>5 DEF Certificate, LineInv, Done
    <2> QED
        BY <1>5, <2>1, LineStore, Zenon DEF Certificate
<1>6. ASSUME NEW v \in View, on_proposal_finish(v) PROVE LineInv'
    <2>1. leaderOf[v] \in Member
        BY PaceAssumption
    <2>2. v \in Proposed
        BY <1>6, PaceAssumption, Zenon DEF on_proposal_finish, Proposed
    <2> QED
        BY <1>6, <2>1, <2>2, LineStore, Zenon DEF on_proposal_finish
<1>7. ASSUME NEW n \in Member, NEW v \in View, recv_in(n, v) PROVE LineInv'
    <2> DEFINE p == on_proposal_start(n, pm[n])
    <2>1. Reached(p, Done, block)
        BY <1>1, RaiseStart
    <2>2. Handle(n, v, p) /\ v \in Proposed /\ stored' = stored
        BY <1>7 DEF recv_in
    <2> HIDE DEF p
    <2>3. pm' = [pm EXCEPT ![n] = p] /\ MayVote(n)
        BY <2>2, HandleFacts
    <2> QED
        BY <2>1, <2>2, <2>3, LineVote, Zenon
<1>8. ASSUME NEW n \in Member, NEW v \in View, after_verify_cert_job(n, v) PROVE LineInv'
    <2> DEFINE r == update_clock_cert(pm[n], block[v].sent)
               p == update_vblock_cert(r, block[v].parent)
    <2>1. block[v].sent \in {0} \cup Clock /\ block[v].parent \in Done
        BY DEF TypeOK, BlockState, ProposalsFired, Done
    <2>2. Good(r, last[n]) /\ r.cert = pm[n].cert
        BY <1>1, <2>1, UpdateClock, Zenon
    <2>3. Reached(r, Done, block)
        BY <1>1, <2>1, RaiseClock, Zenon
    <2> HIDE DEF r
    <2>4. Reached(p, Done, block)
        BY <1>1, <2>1, <2>2, <2>3, RaiseCert DEF Good
    <2>5. pm' = [pm EXCEPT ![n] = p] /\ Vote(n, v, p.view) /\ stored' = stored
        BY <1>8 DEF after_verify_cert_job, r
    <2> HIDE DEF p
    <2>6. v \in Proposed
        BY <1>8 DEF after_verify_cert_job, Pending
    <2>7. MayVote(n)
        BY <2>5, <2>6 DEF Vote, MayVote
    <2> QED
        BY <2>4, <2>5, <2>7, LineVote, Zenon
<1>9. ASSUME NEW n \in Member, ViewIdle(n) PROVE LineInv'
    <2>1. Reached(Fire(n), Done, block)
        BY <1>9, FireReached DEF ViewIdle
    <2>2. pm' = [pm EXCEPT ![n] = Fire(n)] /\ stored' = stored /\ MayVote(n)
        BY <1>9 DEF ViewIdle, MayVote
    <2> QED
        BY <2>1, <2>2, LineVote, Zenon
<1>10. ASSUME NEW n \in Member, ViewBackup(n) PROVE LineInv'
    <2> DEFINE p == on_proposal_start(n, Fire(n))
    <2>1. Good(Fire(n), Fired(n)) /\ Fire(n).cert \in Done /\ Reached(Fire(n), Done, block)
        BY <1>10, FireReached DEF ViewBackup
    <2>2. Reached(p, Done, block)
        BY <1>1, <2>1, RaiseStart
    <2>3. Handle(n, Fired(n), p) /\ Fired(n) \in Proposed /\ stored' = stored
        BY <1>10 DEF ViewBackup, Pending
    <2> HIDE DEF p
    <2>4. pm' = [pm EXCEPT ![n] = p] /\ MayVote(n)
        BY <2>3, HandleFacts
    <2> QED
        BY <2>2, <2>3, <2>4, LineVote, Zenon
<1>11. ASSUME NEW n \in Member, ViewLead(n) PROVE LineInv'
    <2> DEFINE p == on_proposal_start(n, Fire(n))
    <2>1. Good(Fire(n), Fired(n)) /\ Fire(n).cert \in Done /\ Reached(Fire(n), Done, block)
        BY <1>11, FireReached, SMTT(30) DEF ViewLead
    <2>2. Reached(p, Done, block)
        BY <1>1, <2>1, RaiseStart
    <2>3. pm' = [pm EXCEPT ![n] = p] /\ stored' = stored
        BY <1>11 DEF ViewLead
    <2> HIDE DEF p
    <2>4. CASE block' = block
        BY <2>2, <2>3, <2>4, LineVote, Zenon DEF MayVote
    <2>5. CASE block' # block
        <3>1. /\ Fired(n) # 0 /\ Heavier(Fired(n), Done, block')
              /\ \A w \in View : w # Fired(n) => block'[w] = block[w]
            BY <1>11, <2>5, LeadHeavier
        <3>2. Done' = Done
            BY <2>3 DEF Done, Certified
        <3>3. \A m \in Member : Reached(pm'[m], Done', block)
            BY <1>1, <2>2, <2>3, <3>2 DEF TypeOK
        <3>4. block'[0].clock = block[0].clock
            BY <3>1, PaceAssumption DEF View
        <3>5. \A v \in Proposed' : v \in Proposed \/ Heavier(v, Done, block')
            BY <3>1 DEF Proposed
        <3> QED
            BY <3>2, <3>3, <3>4, <3>5, LineKept DEF LineInv
    <2> QED
        BY <2>4, <2>5
<1> QED
    BY <1>2, <1>3, <1>4, <1>5, <1>6, <1>7, <1>8, <1>9, <1>10, <1>11, SMTT(30) DEF Next

LEMMA LineInvariant == Spec => [](PaceInv /\ LineInv)
<1>1. Init => LineInv
    <2> SUFFICES ASSUME Init PROVE LineInv
        OBVIOUS
    <2>1. \A n \in Member : Reached(pm[n], Done, block)
        BY DEF Init, NewPacemaker, Reached, Known
    <2>2. Done \subseteq {0} /\ Proposed = {}
        BY PaceAssumption DEF Init, Done, Certified, Proposed, NoBlock
    <2> QED
        BY <2>1, <2>2 DEF LineInv
<1>2. PaceInv /\ PaceInv' /\ LineInv /\ Pending /\ [Next]_vars => LineInv'
    <2> SUFFICES ASSUME PaceInv, PaceInv', LineInv, Pending, UNCHANGED vars PROVE LineInv'
        BY LineStep
    <2> QED
        BY DEF vars, LineInv, Done, Proposed, Certified
<1> QED
    BY <1>1, <1>2, PaceInvariant, PTL DEF Spec

\* Along a chain of certified blocks the weights rise.
LEMMA WeightsRise ==
    ASSUME PaceInv, LineInv, NEW c \in View, InLine(c),
           NEW u \in Done, NEW v \in Done, u < v, v <= c
    PROVE  Weight(block, u) < Weight(block, v)
<1>0. Done \subseteq Nat /\ c \in Nat /\ \A w \in Done : Weight(block, w) \in Int /\ w \in View
    <2>1. \A w \in Done : w \in View /\ w \in Nat
        BY PaceAssumption DEF Done, View
    <2>2. \A w \in View : block[w].clock \in {0} \cup Clock
        BY DEF PaceInv, TypeOK, BlockState
    <2>3. {0} \cup Clock \subseteq Nat
        BY PaceAssumption
    <2>4. \A w \in View : block[w].clock \in Nat
        BY <2>2, <2>3
    <2>5. c \in Nat
        BY PaceAssumption DEF View
    <2> QED
        BY <2>1, <2>4, <2>5 DEF Weight
<1> DEFINE Bad == {x \in Done : /\ x <= c
                                 /\ \E w \in Done : w < x /\ Weight(block, w) >= Weight(block, x)}
<1>1. SUFFICES ASSUME v \in Bad PROVE FALSE
    BY <1>0
<1>2. PICK x \in Bad : \A y \in Bad : x <= y
    <2>1. Bad \in SUBSET Nat /\ Bad # {}
        BY <1>0, <1>1, Zenon
    <2> HIDE DEF Bad
    <2> QED
        BY <2>1, LeastExists
<1>3. PICK w \in Done : w < x /\ Weight(block, w) >= Weight(block, x)
    BY <1>2
<1> DEFINE p == block[x].parent
<1>4. x \in Done /\ x \in Nat /\ w \in Nat /\ x <= c /\ x # 0 /\ x \in View
    BY <1>0, <1>2, <1>3
<1>5. p \in Done /\ p \in Nat /\ w <= p
    <2>1. p \in View /\ Certified(p)
        BY <1>4 DEF PaceInv, TypeOK, BlockState, ProposalsFired
    <2>2. w <= p
        BY <1>3, <1>4 DEF InLine, Done
    <2> QED
        BY <1>0, <2>1, <2>2 DEF Done
<1>6. Heavier(x, Done, block)
    BY <1>4 DEF LineInv
<1> HIDE DEF p
<1>7. Weight(block, x) > Weight(block, p) /\ p < x
    <2>1. \A q \in Done : q < x => q <= p
        BY <1>4 DEF InLine, Done, p
    <2>2. ~ \E q \in Done : p < q /\ q < x
        BY <1>0, <1>5, <2>1
    <2> QED
        BY <1>6, <2>2 DEF Heavier, p
<1>8. CASE w = p
    BY <1>0, <1>3, <1>4, <1>5, <1>7, <1>8
<1>9. CASE w < p
    <2>1. p \notin Bad
        BY <1>2, <1>4, <1>5, <1>7
    <2>2. Weight(block, w) < Weight(block, p)
        BY <1>0, <1>3, <1>4, <1>5, <1>7, <1>9, <2>1
    <2> QED
        BY <1>0, <1>3, <1>4, <1>5, <1>7, <2>2
<1> QED
    BY <1>4, <1>5, <1>8, <1>9

\* Where the certificates form a chain, the view is the one of the newest.
LEMMA ViewExact ==
    ASSUME PaceInv, LineInv, NEW n \in Member, InLine(pm[n].cert), pm[n].clock # 0
    PROVE  pm[n].view = ViewIn(block, pm[n].cert, pm[n].clock)
<1> DEFINE p == pm[n]
           w == ViewIn(block, p.cert, p.clock)
<1>1. /\ p \in PacemakerState /\ p.cert \in Done /\ p.cert \in View
      /\ p.clock \in Clock /\ p.view \in Nat /\ block \in [View -> BlockState]
      /\ Reached(p, Done, block)
    BY DEF PaceInv, TypeOK, PacemakerState, Done, LineInv
<1> HIDE DEF p
<1>2. /\ p.cert \in Nat /\ p.clock \in Nat /\ w \in Nat /\ w >= p.cert + 1
      /\ Weight(block, p.cert) \in Int
      /\ 3 * w >= p.clock + Weight(block, p.cert) + 1
    BY <1>1, ViewBounds
<1>3. p.view >= w
    BY <1>1 DEF Reached, p
<1> HIDE DEF w
<1>4. p.view # 0
    BY <1>1, <1>2, <1>3
<1>5. PICK c \in Done, k \in Clock :
          c <= p.cert /\ k <= p.clock /\ p.view = ViewIn(block, c, k)
    BY <1>1, <1>4, Zenon DEF Reached, Known
<1>6. /\ c \in Nat /\ k \in Nat /\ Weight(block, c) \in Int
      /\ p.view = c + 1 \/ 3 * p.view <= k + Weight(block, c) + 3
    BY <1>1, <1>5, ViewBounds DEF Done
<1>7. Weight(block, c) <= Weight(block, p.cert)
    <2>1. CASE c = p.cert
        BY <1>2, <2>1
    <2>2. CASE c < p.cert
        BY <1>1, <1>2, <1>6, <2>2, WeightsRise DEF p
    <2> QED
        BY <1>2, <1>5, <1>6, <2>1, <2>2
<1>8. p.view <= w
    BY <1>1, <1>2, <1>5, <1>6, <1>7
<1> QED
    BY <1>1, <1>2, <1>3, <1>8 DEF p, w

\* Members that know the same certificate, on a chain, and the same clock are in the
\* same view: update_view forgets how they came to know them.
THEOREM SameViewTheorem == Spec => []SameView
<1>1. ASSUME PaceInv, LineInv PROVE SameView
    <2> SUFFICES ASSUME NEW m \in Member, NEW n \in Member, pm[m].cert = pm[n].cert,
                        pm[m].clock = pm[n].clock, InLine(pm[m].cert)
                 PROVE  pm[m].view = pm[n].view
        BY DEF SameView
    <2>1. CASE pm[m].clock # 0
        BY <1>1, <2>1, ViewExact
    <2>2. CASE pm[m].clock = 0
        <3>1. \A k \in Clock : ~ (k <= 0)
            BY PaceAssumption
        <3>2. ASSUME NEW i \in Member, pm[i].clock = 0 PROVE pm[i].view = 0
            BY <1>1, <3>1, <3>2, Zenon DEF LineInv, Reached, Known
        <3> QED
            BY <2>2, <3>2, Zenon
    <2> QED
        BY <2>1, <2>2
<1> QED
    BY <1>1, LineInvariant, PTL

=============================================================================
