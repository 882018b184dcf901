--------------------------- MODULE xClockCertView ---------------------------
(***************************************************************************)
(* The pacemakers (xclockcert_view) of a committee, with the batch packers *)
(* above them.  A pacemaker derives its view from the newest clock and the *)
(* newest certificate it knows, and tells the packer through a queue; the  *)
(* packer of the view's leader proposes a block.                           *)
(*                                                                         *)
(* A leader proposes once in a view (ProposesOnce), so a block is named by *)
(* its view.  The driver below is left to xBFTDriver: here it may refuse   *)
(* any proposal, but takes only aligned ones on a block it has.            *)
(***************************************************************************)
EXTENDS Integers, Sequences, FiniteSets

CONSTANTS
    Member,     \* the honest members of the committee
    Quorum,     \* sets of members whose votes certify a block
    leaderOf,   \* leaderOf[v]: get_leader_xip of view v
    Clock,      \* the clocks of the timer blocks
    MaxView     \* bound: no block is proposed in a later view

View == 0 .. MaxView

ASSUME PaceAssumption ==
    /\ MaxView \in Nat
    /\ Clock \subseteq Nat \ {0}
    /\ leaderOf \in [View -> Member]
    /\ Quorum \subseteq SUBSET Member
    /\ {} \notin Quorum

VARIABLES
    timer,   \* timer[n]: clock of the newest timer block in n's block store
    stored,  \* stored[n]: the certified blocks in n's block store
    top,     \* top[n]: the newest of the highest of them, get_latest_cert_block
    pm,      \* pm[n]: the pacemaker of n
    last,    \* last[n]: m_last_view_id of n's packer
    early,   \* early[n]: m_unorder_events, proposals for the next view
    jobs,    \* jobs[n]: proposals under fire_verify_pduevent_job
    block    \* block[v]: the block proposed in view v

vars == <<timer, stored, top, pm, last, early, jobs, block>>

\* clock: the block's own; sent, done: the leader's with the proposal and the commit.
NoBlock == [clock |-> 0, height |-> 0, parent |-> 0, sent |-> 0, done |-> 0, votes |-> {}]

\* clock, cert, view: m_latest_clock_cert, m_latest_vblock_cert, m_latest_view_id;
\* queue: the views of the fire_view calls under way.
NewPacemaker == [clock |-> 0, cert |-> 0, view |-> 0, queue |-> <<>>]

Proposed == {v \in View : block[v].votes # {}}

\* Certified and known to its leader, who sends the commit message.
Certified(v) == v \in stored[leaderOf[v]]

\* n's block store takes in v, which query_latest_block may now find first.
Store(n, v) ==
    /\ stored' = [stored EXCEPT ![n] = @ \cup {v}]
    /\ top' = [top EXCEPT ![n] =
                  IF \/ block[v].height > block[@].height
                     \/ block[v].height = block[@].height /\ v > @
                  THEN v ELSE @]

Init ==
    /\ timer = [n \in Member |-> 0]
    /\ stored = [n \in Member |-> {0}]
    /\ top = [n \in Member |-> 0]
    /\ pm = [n \in Member |-> NewPacemaker]
    /\ last = [n \in Member |-> 0]
    /\ early = [n \in Member |-> {}]
    /\ jobs = [n \in Member |-> {}]
    /\ block = [v \in View |-> NoBlock]

---------------------------------------------------------------------------
(* The pacemaker of one member, as operators on its state p. *)

\* The view that a certificate and a clock stand for.
ViewOf(cert, clock) ==
    IF clock > block[cert].clock
    THEN cert + 1 + (clock - block[cert].clock) \div 3
    ELSE cert + 1

\* Mutant: the same view is fired again.
update_view_mutant(p) ==
    IF p.clock # 0 /\ ViewOf(p.cert, p.clock) >= p.view
    THEN [p EXCEPT !.view = ViewOf(p.cert, p.clock),
                   !.queue = Append(@, ViewOf(p.cert, p.clock))]
    ELSE p

\* The view is only raised, and the new one is fired later, as it is now.
update_view(p) ==
    IF p.clock # 0 /\ ViewOf(p.cert, p.clock) > p.view
    THEN [p EXCEPT !.view = ViewOf(p.cert, p.clock),
                   !.queue = Append(@, ViewOf(p.cert, p.clock))]
    ELSE p

update_clock_cert(p, clock) ==
    IF clock > p.clock THEN update_view([p EXCEPT !.clock = clock]) ELSE p

\* Mutant: the view is left to the next clock.
update_vblock_cert_mutant(p, cert) ==
    IF cert > p.cert THEN [p EXCEPT !.cert = cert] ELSE p

update_vblock_cert(p, cert) ==
    IF cert > p.cert THEN update_view([p EXCEPT !.cert = cert]) ELSE p

\* on_proposal_start with what the account has read from the block store.
on_proposal_start(n, p) ==
    update_vblock_cert(update_clock_cert(p, timer[n]), top[n])

---------------------------------------------------------------------------
(* Timer blocks and certificates. *)

\* A newer timer block is stored; some may have been missed.
TimerStored(n) ==
    /\ \E c \in Clock :
          /\ c > timer[n]
          /\ timer' = [timer EXCEPT ![n] = c]
    /\ UNCHANGED <<stored, top, pm, last, early, jobs, block>>

\* The event of a stored timer block reaches the pacemaker.
on_clock_fire(n) ==
    /\ \E c \in Clock :
          /\ pm[n].clock < c /\ c <= timer[n]
          /\ pm' = [pm EXCEPT ![n] = update_clock_cert(@, c)]
    /\ UNCHANGED <<timer, stored, top, last, early, jobs, block>>

\* The commit message of v, not aligned: its clock is verified and taken.
CommitClock(n, v) ==
    /\ Certified(v) /\ v \in Proposed
    /\ n # leaderOf[v]
    /\ v # pm[n].view
    /\ block[v].done > pm[n].clock
    /\ pm' = [pm EXCEPT ![n] = update_clock_cert(@, block[v].done)]
    /\ UNCHANGED <<timer, stored, top, last, early, jobs, block>>

\* Mutant: the pacemaker is not told.
Certificate_mutant(n, v) ==
    /\ Certified(v)
    /\ v \notin stored[n]
    /\ Store(n, v)
    /\ UNCHANGED <<timer, pm, last, early, jobs, block>>

\* n gets the certificate of v, from the commit message or by synchronisation.
Certificate(n, v) ==
    /\ Certified(v)
    /\ v \notin stored[n]
    /\ Store(n, v)
    /\ pm' = [pm EXCEPT ![n] = update_vblock_cert(@, v)]
    /\ UNCHANGED <<timer, last, early, jobs, block>>

\* The leader has a quorum of votes: on_proposal_finish, and the commit message.
on_proposal_finish(v) ==
    LET n == leaderOf[v]
    IN  /\ ~ Certified(v)
        /\ \E Q \in Quorum : Q \subseteq block[v].votes
        /\ Store(n, v)
        /\ pm' = [pm EXCEPT ![n] = update_vblock_cert(@, v)]
        /\ block' = [block EXCEPT ![v].done = pm[n].clock]
        /\ UNCHANGED <<timer, last, early, jobs>>

---------------------------------------------------------------------------
(* Proposals. *)

\* The driver gets proposal v in view `at`; the vote counts if the leader is still in v.
Vote(n, v, at) ==
    \/ block' = block
    \/ /\ at = v
       /\ block[v].parent \in stored[n]
       /\ pm[leaderOf[v]].view = v
       /\ block' = [block EXCEPT ![v].votes = @ \cup {n}]

\* recv_in below the cache: aligned packets go down, the others to verification.
Handle(n, v, p) ==
    /\ pm' = [pm EXCEPT ![n] = p]
    /\ IF p.view = v
       THEN Vote(n, v, v) /\ UNCHANGED jobs
       ELSE jobs' = [jobs EXCEPT ![n] = @ \cup {v}] /\ UNCHANGED block

\* Mutant: kept is the proposal after the pacemaker's view, not after the packer's.
filter_event_mutant(n, v) ==
    IF v = pm[n].view + 1 THEN early[n] \cup {v} ELSE early[n]

\* Only the next view's proposal is kept for later.
filter_event(n, v) ==
    IF v = last[n] + 1 THEN early[n] \cup {v} ELSE early[n]

\* recv_in of the packer: whether kept or not, the proposal goes on to the driver, so
\* that it finds out if the member is behind.
recv_in(n, v) ==
    /\ v \in Proposed
    /\ n # leaderOf[v]
    /\ early' = [early EXCEPT ![n] = filter_event(n, v)]
    /\ Handle(n, v, on_proposal_start(n, pm[n]))
    /\ UNCHANGED <<timer, stored, top, last>>

\* Mutant: the certificate of the proposal itself is taken, which it does not have yet.
after_verify_cert_job_mutant(n, v) ==
    LET p == update_vblock_cert(update_clock_cert(pm[n], block[v].sent), v)
    IN  /\ v \in jobs[n]
        /\ jobs' = [jobs EXCEPT ![n] = @ \ {v}]
        /\ pm' = [pm EXCEPT ![n] = p]
        /\ Vote(n, v, p.view)
        /\ UNCHANGED <<timer, stored, top, last, early>>

\* The certificates of an unaligned proposal are verified; the view is compared again.
after_verify_cert_job(n, v) ==
    LET p == update_vblock_cert(update_clock_cert(pm[n], block[v].sent), block[v].parent)
    IN  /\ v \in jobs[n]
        /\ jobs' = [jobs EXCEPT ![n] = @ \ {v}]
        /\ pm' = [pm EXCEPT ![n] = p]
        /\ Vote(n, v, p.view)
        /\ UNCHANGED <<timer, stored, top, last, early>>

---------------------------------------------------------------------------
(* on_view_fire of the packer. *)

\* The head of the queue, after which older early proposals are dropped.
Fired(n) == Head(pm[n].queue)
Fire(n) == [pm[n] EXCEPT !.queue = Tail(@)]
StillEarly(n) == {v \in early[n] : v >= Fired(n)}

\* Nothing to do: the view is over, blocks are missing or there is nothing to pack.
ViewIdle(n) ==
    /\ pm[n].queue # <<>>
    /\ pm' = [pm EXCEPT ![n] = Fire(n)]
    /\ last' = [last EXCEPT ![n] = Fired(n)]
    /\ early' = [early EXCEPT ![n] = StillEarly(n)]
    /\ UNCHANGED <<timer, stored, top, jobs, block>>

\* A backup handles the proposal that came before the view, if there is one.
ViewBackup(n) ==
    /\ pm[n].queue # <<>>
    /\ Fired(n) > top[n]
    /\ Fired(n) \in View => leaderOf[Fired(n)] # n
    /\ Fired(n) \in early[n]
    /\ last' = [last EXCEPT ![n] = Fired(n)]
    /\ early' = [early EXCEPT ![n] = StillEarly(n) \ {Fired(n)}]
    /\ Handle(n, Fired(n), on_proposal_start(n, Fire(n)))
    /\ UNCHANGED <<timer, stored, top>>

\* Mutant: a proposal is moved to the new view instead of being stopped.
ViewLead_mutant(n) ==
    LET v == Fired(n)
        p == on_proposal_start(n, Fire(n))
    IN  /\ pm[n].queue # <<>>
        /\ v \in View /\ leaderOf[v] = n
        /\ v > top[n]
        /\ last' = [last EXCEPT ![n] = v]
        /\ early' = [early EXCEPT ![n] = StillEarly(n)]
        /\ pm' = [pm EXCEPT ![n] = p]
        /\ p.view \in View
        /\ block' = [block EXCEPT ![p.view] =
                        [clock |-> timer[n], height |-> block[top[n]].height + 1,
                         parent |-> top[n], sent |-> p.clock, done |-> 0, votes |-> {n}]]
        /\ UNCHANGED <<timer, stored, top, jobs>>

\* The leader makes a block, with the pacemaker's clock if the store has none.  It is
\* proposed unless the view has moved on meanwhile or the driver refuses it.
ViewLead(n) ==
    LET v == Fired(n)
        p == on_proposal_start(n, Fire(n))
    IN  /\ pm[n].queue # <<>>
        /\ v \in View /\ leaderOf[v] = n
        /\ v > top[n]
        /\ last' = [last EXCEPT ![n] = v]
        /\ early' = [early EXCEPT ![n] = StillEarly(n)]
        /\ pm' = [pm EXCEPT ![n] = p]
        /\ \/ block' = block
           \/ /\ p.view = v
              /\ block' = [block EXCEPT ![v] =
                              [clock |-> IF timer[n] = 0 THEN p.clock ELSE timer[n],
                               height |-> block[top[n]].height + 1,
                               parent |-> top[n], sent |-> p.clock, done |-> 0,
                               votes |-> {n}]]
        /\ UNCHANGED <<timer, stored, top, jobs>>

Next ==
    \/ \E n \in Member : \/ TimerStored(n) \/ on_clock_fire(n)
                         \/ ViewIdle(n) \/ ViewBackup(n) \/ ViewLead(n)
    \/ \E n \in Member, v \in View : \/ CommitClock(n, v) \/ Certificate(n, v)
                                     \/ recv_in(n, v) \/ after_verify_cert_job(n, v)
    \/ \E v \in View : on_proposal_finish(v)

Spec == Init /\ [][Next]_vars

\* The clock goes on, its events are handled, and every certificate reaches everybody.
Fairness ==
    \A n \in Member :
        /\ WF_vars(TimerStored(n))
        /\ WF_vars(on_clock_fire(n))
        /\ \A v \in View : WF_vars(Certificate(n, v))

FairSpec == Spec /\ Fairness

---------------------------------------------------------------------------

PacemakerState ==
    [clock : {0} \cup Clock, cert : View, view : Nat, queue : Seq(Nat)]

BlockState ==
    [clock : {0} \cup Clock, height : Nat, parent : View,
     sent : {0} \cup Clock, done : {0} \cup Clock, votes : SUBSET Member]

\* Types, and that every certificate a pacemaker or a store has was completed by votes.
TypeOK ==
    /\ timer \in [Member -> {0} \cup Clock]
    /\ stored \in [Member -> SUBSET View]
    /\ top \in [Member -> View]
    /\ pm \in [Member -> PacemakerState]
    /\ last \in [Member -> Nat]
    /\ early \in [Member -> SUBSET View]
    /\ jobs \in [Member -> SUBSET View]
    /\ block \in [View -> BlockState]
    /\ \A n \in Member : Certified(pm[n].cert) /\ Certified(top[n])

(***************************************************************************)
(* "xassert(view_ev->get_viewid() >= m_last_view_id)" in on_view_fire: the *)
(* views under way to a packer are later than its last one, in order and   *)
(* without repetition, however clocks, certificates and packets raise the  *)
(* view between update_view and the call it has queued.                    *)
(***************************************************************************)
FiresInOrder ==
    \A n \in Member : \A i \in DOMAIN pm[n].queue :
        /\ pm[n].queue[i] > last[n]
        /\ \A j \in DOMAIN pm[n].queue : j < i => pm[n].queue[j] < pm[n].queue[i]

(***************************************************************************)
(* get_proposal_event looks for the fired view in the early proposals with *)
(* a loop that never advances: it ends only if the first one left is of    *)
(* that view.  With room for one view ahead, nothing else is ever left.    *)
(***************************************************************************)
NoSpin ==
    \A n \in Member : pm[n].queue # <<>> => StillEarly(n) \subseteq {Fired(n)}

\* The certified blocks up to c are a chain: each was made on the one before it.
InLine(c) ==
    \A u, v \in View : Certified(u) /\ Certified(v) /\ u < v /\ v <= c => u <= block[v].parent

(***************************************************************************)
(* Two members that know the same certificate and the same clock are in    *)
(* the same view, whatever they have missed or learnt out of order: the    *)
(* view kept by update_view when it is the larger one never comes from an  *)
(* older certificate.  Certified blocks that fork are the exception: the   *)
(* abandoned one may have been ahead of its clock, and its view is kept.   *)
(***************************************************************************)
SameView ==
    \A m, n \in Member :
        /\ pm[m].cert = pm[n].cert
        /\ pm[m].clock = pm[n].clock
        /\ InLine(pm[m].cert)
        => pm[m].view = pm[n].view

(***************************************************************************)
(* A leader proposes once in a view, although on_view_fire runs after the  *)
(* view was raised and on_proposal_start may find yet another one: no step *)
(* replaces a proposal or takes a vote back.                               *)
(***************************************************************************)
KeepsProposals ==
    \A v \in Proposed :
        /\ block'[v].clock = block[v].clock
        /\ block'[v].parent = block[v].parent
        /\ block[v].votes \subseteq block'[v].votes
        /\ block'[v].sent = block[v].sent

ProposesOnce == [][KeepsProposals]_vars

(***************************************************************************)
(* With a clock that goes on and certificates that reach everybody, the    *)
(* members end up on the same certificate and in the same view, wherever   *)
(* lost proposals and commits have left them: update_view needs nothing    *)
(* but the two.                                                            *)
(***************************************************************************)
ViewsMeet ==
    <>[](\A m, n \in Member : pm[m].cert = pm[n].cert /\ pm[m].view = pm[n].view)

=============================================================================
