---------------------------- MODULE xBFTDriver -----------------------------
(***************************************************************************)
(* What one member does with the messages, the verification jobs, the      *)
(* timers and the other modules around it: the handlers of xBFTdriver_t    *)
(* and xBFTSyncdrv, with everything they cause in the layers above.        *)
(*                                                                         *)
(* The other members may have certified any block that none of our own     *)
(* blocks is below and still without certificate; a message about a block  *)
(* may come at any time, again and again, or not.                          *)
(* The view of the pacemaker is an input: a proposal may or may not find   *)
(* its view aligned.                                                       *)
(***************************************************************************)
EXTENDS xBFTMember

CONSTANTS
    MaxJobs,    \* bound: jobs and callbacks under way
    MaxRequests \* bound: sync requests under way

VARIABLES
    n,          \* the member
    won,        \* the blocks of ours that have a certificate
    votes,      \* history: the blocks the member voted for
    taken,      \* history: the proposals above its lock that it accepted
    held        \* history: every block that was its lock

RECURSIVE PathTo(_)

PathTo(b) == IF b = Genesis THEN {b} ELSE {b} \cup PathTo(parent[b])

\* A block and the blocks it stands on.
Path == [b \in Block |-> PathTo(b)]

\* The blocks that have a certificate.
certified == {b \in Block : \A c \in Path[b] : leader[c] = me => c \in won}

vars == <<n, won, votes, taken, held>>

\* The lock the rules use, or will read from the store.
LockOf(m) == IF m.lock = {} THEN LatestLock(m.store) ELSE The(m.lock)

\* A member that has just started on the store s.
Started(s) ==
    [store |-> [s EXCEPT !.trail = <<>>], pool |-> {}, linked |-> {},
     child |-> [b \in Block |-> {}], ctxLock |-> {}, commit |-> {}, lock |-> {},
     certs |-> {}, props |-> {}, ready |-> {}, votedView |-> 0, votedHeight |-> 0,
     requests |-> {}, jobs |-> <<>>, calls |-> <<>>, told |-> FALSE, turn |-> {},
     late |-> FALSE, commits |-> <<>>]

Init ==
    /\ n = Started(init(EmptyDisk))
    /\ won = {}
    /\ votes = {}
    /\ taken = {}
    /\ held = {Genesis}

\* The member turns into m, having accepted the proposals S.
BecomeWith(m, S) ==
    /\ Cardinality(m.requests) <= MaxRequests
    /\ n' = [m EXCEPT !.store.trail = <<>>, !.ready = @ \cap m.props]
    /\ held' = held \cup {LockOf(m)}
    /\ taken' = {b \in S : Above(b, LockOf(m))}

Become(m) == BecomeWith(m, taken)

Job(kind, b) == [kind |-> kind, block |-> b]

Queue(m, kind, b) == [m EXCEPT !.jobs = Append(@, Job(kind, b))]

Free == Len(n.jobs) + Len(n.calls) < MaxJobs

\* A block of b's view is known already.
HasCert(m, b) == \E c \in m.certs : view[c] = view[b]

---------------------------------------------------------------------------

(***************************************************************************)
(* A proposal reaches xcsaccount_t::on_pdu_event_down, which first tells   *)
(* the layers below what the store knows.  The pacemaker may keep the      *)
(* message while the worker verifies the certificate it carries.           *)
(***************************************************************************)
ProposalArrives ==
    /\ Become([proposal_start(n, {LatestCert(n.store)}) EXCEPT !.told = TRUE])
    /\ UNCHANGED <<won, votes>>

(***************************************************************************)
(* Step 3 of handle_proposal_msg: [s |-> the store, ask |-> the block that *)
(* must be pulled from the leader before b can be judged, if any].         *)
(***************************************************************************)
Missing(m, b) ==
    LET l == The(m.lock)
        Below(r) == [s |-> r.s, ask |-> IF r.got = {} THEN {parent[l]} ELSE {}]
    IN  CASE height[b] > height[l] + 1 /\ parent[b] \notin m.certs ->
                [s |-> m.store, ask |-> {parent[b]}]
          [] height[b] > height[l] + 2 /\ parent[b] \in m.certs ->
                [s |-> m.store, ask |-> {grandparent(b)}]
          [] OTHER ->
                IF height[l] > 1 /\ l \notin m.store.prev
                THEN Below(load_block_object(m.store, height[l] - 1))
                ELSE [s |-> m.store, ask |-> {}]

Seen(m, b) == HasCert(m, b) \/ \E c \in m.props : view[c] = view[b]

\* The proposal passes the first check of the voting rules.
Accept(m, missing, b) ==
    /\ ~ Seen(m, b)
    /\ missing.ask = {}
    /\ safe_precheck_for_voting(m, b)
    /\ BecomeWith(Queue(add_proposal([m EXCEPT !.store = missing.s], b), "proposal", b),
                  taken \cup {b})

AcceptUnlessMissing(m, b) == Accept(m, Missing(m, b), b)

\* The driver takes the proposal in: it may be voted for once it is verified.
AcceptProposal(b) ==
    /\ n.told /\ leader[b] # me
    /\ Free
    /\ AcceptUnlessMissing(get_lock_block(n), b)
    /\ UNCHANGED <<won, votes>>

\* There is no request for the genesis block.
Ask(m, missing) ==
    [m EXCEPT !.store = missing.s, !.requests = @ \cup (missing.ask \ {Genesis})]

Refuse(m, b) == IF Seen(m, b) THEN m ELSE Ask(m, Missing(m, b))

\* The driver drops the proposal, or first pulls a block it misses.
RefuseProposal(b) ==
    /\ n.told /\ leader[b] # me
    /\ Become(Refuse(get_lock_block(n), b))
    /\ UNCHANGED <<won, votes>>

(***************************************************************************)
(* xbatch_packer::on_view_fire on the leader: it proposes on the latest    *)
(* certificate of its store.  The rest of the turn is LeaderPropose.       *)
(***************************************************************************)
LeaderStart(b) ==
    LET Propose(m) == justify[b] = root[The(m.lock)] /\ Become([m EXCEPT !.turn = {b}])
    IN  /\ leader[b] = me
        /\ parent[b] = LatestCert(n.store)
        /\ view[b] > view[parent[b]]
        /\ Propose(proposal_start(n, {}))
        /\ UNCHANGED <<won, votes>>

\* Steps 2 to 5 of on_proposal_start: the leader signs and sends the proposal, or not.
LeaderPropose(b) ==
    LET m == [n EXCEPT !.turn = {}]
        ok == safe_precheck_for_voting(m, b)
    IN  /\ n.turn = {b}
        /\ CASE height[b] > height[The(m.lock)] + 2 -> Become(m)
             [] height[b] <= height[The(m.lock)] + 2 /\ ok ->
                    BecomeWith(add_proposal(m, b), taken \cup {b})
             [] OTHER -> Become([m EXCEPT !.late = TRUE])
        /\ votes' = IF b \in n'.props THEN votes \cup {b} ELSE votes
        /\ UNCHANGED won

\* async_fire_proposal_finish_event with enum_xconsensus_error_outofdate.
OutOfDate ==
    /\ n.late
    /\ Become(store_blocks([n EXCEPT !.late = FALSE],
                           <<HighestView(n.certs), n.ctxLock, n.commit>>))
    /\ UNCHANGED <<won, votes>>

\* handle_vote_msg: the vote that completes the certificate goes to the worker.
VoteMsg(b) ==
    /\ b \in n.props /\ leader[b] = me
    /\ AboveLock(n, b)
    /\ Job("votes", b) \notin Range(n.jobs) \cup Range(n.calls)
    /\ Free
    /\ Become(Queue(n, "votes", b))
    /\ UNCHANGED <<won, votes>>

(***************************************************************************)
(* handle_commit_msg: the leader of b has its certificate.  The proposal   *)
(* that matches needs its output, which its verification computes; a block *)
(* without body has it from the start.                                     *)
(***************************************************************************)
CommitMsg(b) ==
    LET Handle(m) ==
            /\ AboveLock(m, b)
            /\ ~ HasCert(m, b)
            /\ \/ b \in n.props /\ Free /\ Become(Queue(m, "commit", b))
               \/ b \notin n.ready /\ Become(Request(m, b))
    IN  /\ b \in certified /\ leader[b] # me
        /\ Job("commit", b) \notin Range(n.calls)
        /\ Handle(get_lock_block(n))
        /\ UNCHANGED <<won, votes>>

\* handle_commit_msg: the leader of b gave up; the message carries the certificate of c.
CommitFailMsg(b, c) ==
    LET Handle(m) ==
            /\ AboveLock(m, b)
            /\ ~ HasCert(m, b)
            /\ \/ b \in n.props /\ Become(remove_proposal(m, b))
               \/ /\ b \notin n.ready
                  /\ view[c] > view[The(m.lock)] /\ ~ HasCert(m, c)
                  /\ Become(Request(m, c))
    IN  /\ c \in certified /\ leader[b] # me
        /\ Job("commit", b) \notin Range(n.calls)
        /\ Handle(get_lock_block(n))
        /\ UNCHANGED <<won, votes>>

\* handle_votereport_msg: a replica has a commit, a lock or a certificate c we lack.
VoteReportMsg(c) ==
    LET Handle(m) == /\ \/ height[c] + 1 > height[The(m.lock)]
                        \/ Passes(c, m.certs)
                     /\ Become(Request(m, c))
    IN  /\ c \in certified
        /\ Handle(get_lock_block(n))
        /\ UNCHANGED <<won, votes>>

\* handle_sync_respond_msg: a block that was asked for.
SyncRespondMsg(b) ==
    /\ b \in n.requests \cap certified
    /\ ~ HasCert(n, b)
    /\ follow(n, b) # "no"
    /\ Free
    /\ Become(Queue([n EXCEPT !.requests = @ \ {b}], "sync", b))
    /\ UNCHANGED <<won, votes>>

---------------------------------------------------------------------------

\* The worker verifies the next job and dispatches its callback.
Worker ==
    LET j == Head(n.jobs)
        m == [n EXCEPT !.jobs = Tail(@), !.calls = Append(@, j)]
    IN  /\ n.jobs # <<>>
        /\ Become(IF j.kind = "proposal" THEN [m EXCEPT !.ready = @ \cup {j.block}] ELSE m)
        /\ won' = IF j.kind = "votes" THEN won \cup {j.block} ELSE won
        /\ UNCHANGED votes

\* The worker finds a proposal invalid, or its signature: then there is no callback.
WorkerRejects ==
    LET j == Head(n.jobs)
        m == [n EXCEPT !.jobs = Tail(@)]
    IN  /\ n.jobs # <<>> /\ j.kind = "proposal"
        /\ \/ Become(m)
           \/ Become([m EXCEPT !.calls = Append(@, Job("failed", j.block))])
        /\ UNCHANGED <<won, votes>>

\* _after_verify_proposal_job
AfterProposal(m, b) ==
    /\ Become(m)
    /\ votes' = IF safe_finalcheck_for_voting(m, b) THEN votes \cup {b} ELSE votes

\* The certificate of b was added, as r says: it goes up unless it is not new.
FinishCert(r, b, kind) ==
    LET cert == remove_proposal(r.n, b)
        hqc == IF kind = "sync" /\ cert.props # r.n.props THEN HighestView(cert.certs) ELSE {}
    IN  IF r.ok THEN Deliver(cert, b, hqc) ELSE r.n

\* The callback of a verified certificate, by the kind of the job.
AfterCert(m, b, kind) ==
    LET first == IF kind = "votes" THEN remove_proposal(m, b) ELSE m
    IN  FinishCert(add_cert_block(first, b), b, kind)

RunCall(m, j) ==
    CASE j.kind = "proposal" -> AfterProposal(m, j.block)
      [] j.kind = "failed" -> Become(remove_proposal(m, j.block)) /\ votes' = votes
      [] OTHER -> Become(AfterCert(m, j.block, j.kind)) /\ votes' = votes

\* The engine runs the next callback.
Callback ==
    /\ n.calls # <<>>
    /\ RunCall(get_lock_block([n EXCEPT !.calls = Tail(@)]), Head(n.calls))
    /\ UNCHANGED won

\* on_view_fire: proposals of earlier views are given up.
ViewFire(v) ==
    /\ \E b \in n.props : view[b] < v
    /\ Become([n EXCEPT !.props = {b \in @ : view[b] >= v}])
    /\ UNCHANGED <<won, votes>>

\* on_clock_fire of xBFTSyncdrv: a request has expired.
ClockFire(b) ==
    /\ b \in n.requests
    /\ Become([n EXCEPT !.requests = @ \ {b}])
    /\ UNCHANGED <<won, votes>>

\* The sync module stores a block that this member has no object of.
SyncStore(b) ==
    /\ b \in certified
    /\ b \notin n.store.cache \cup n.pool \cup n.certs \cup n.props
    /\ \A j \in Range(n.jobs) \cup Range(n.calls) : j.block # b
    /\ parent[b] \in n.store.cache
    /\ Become([n EXCEPT !.store = sync_store_block(@, b)])
    /\ UNCHANGED <<won, votes>>

\* A crash between two turns: only the disk is left.
Restart ==
    /\ BecomeWith([Started(init(n.store.disk)) EXCEPT !.commits = n.commits], {})
    /\ UNCHANGED <<won, votes>>

\* A turn that is not the second half of LeaderStart.
Turn(b) ==
    \/ AcceptProposal(b)
    \/ RefuseProposal(b)
    \/ LeaderStart(b)
    \/ VoteMsg(b)
    \/ CommitMsg(b)
    \/ \E c \in Proposed : CommitFailMsg(b, c)
    \/ VoteReportMsg(b)
    \/ SyncRespondMsg(b)
    \/ ViewFire(view[b] + 1)
    \/ ClockFire(b)
    \/ SyncStore(b)

Next ==
    \/ n.turn = {} /\ \E b \in Proposed : Turn(b)
    \/ n.turn = {} /\ (ProposalArrives \/ OutOfDate \/ Worker \/ WorkerRejects \/ Callback)
    \/ \E b \in n.turn : LeaderPropose(b)

NextWithCrash == Next \/ Restart

Spec == Init /\ [][Next]_vars
SpecWithCrash == Init /\ [][NextWithCrash]_vars

---------------------------------------------------------------------------

TypeOK ==
    /\ \A f \in {"pool", "linked", "certs", "props", "ready", "requests"} : n[f] \subseteq Block
    /\ \A f \in {"ctxLock", "commit", "lock", "turn"} :
            n[f] \subseteq Block /\ Cardinality(n[f]) <= 1
    /\ \A b \in Block : n.child[b] \subseteq Block /\ Cardinality(n.child[b]) <= 1
    /\ n.votedView \in Nat /\ n.votedHeight \in Nat
    /\ \A S \in {n.pool, n.certs, n.props} : \A b, c \in S : view[b] = view[c] => b = c
    /\ Range(n.commits) \subseteq Block

(***************************************************************************)
(* The voting rules and the context keep a lock each, and the context      *)
(* moves its own in do_execute, update_lock_block and update_commit_block  *)
(* while the rules are told only by do_submit and on_proposal_start.  At   *)
(* the end of every turn the two agree.                                    *)
(***************************************************************************)
SameLock == n.turn = {} /\ n.ctxLock # {} => n.lock = n.ctxLock

(***************************************************************************)
(* Consensus_commit is reported once for a block, and for blocks of one    *)
(* branch only, although certificates come in any order, the sync module   *)
(* commits blocks of the pool, and nodes join the pool again (do_submit).  *)
(***************************************************************************)
CommitsOnce ==
    \A i, j \in 1..Len(n.commits) :
        LET b == n.commits[i]
            c == n.commits[j]
        IN  i # j => b # c /\ (b \in Path[c] \/ c \in Path[b])

(***************************************************************************)
(* What was reported as committed is in the database as committed: the     *)
(* account stores a block with its proofs before the report (store_blocks  *)
(* in on_consensus_commit), and no rule of the store drops it.             *)
(***************************************************************************)
CommitStored == Range(n.commits) \subseteq n.store.disk.committed

(***************************************************************************)
(* The state of the rules that xBFTVoting speaks of.  Before the rules     *)
(* have read their lock it is what they will find in the store.            *)
(***************************************************************************)
voting ==
    [lock |-> LockOf(n),
     votedView |-> IF n.lock = {} THEN view[LockOf(n)] ELSE n.votedView,
     votedHeight |-> IF n.lock = {} THEN height[LockOf(n)] ELSE n.votedHeight,
     accepted |-> taken,
     voted |-> votes]

NoVotes == [lock |-> Genesis, votedView |-> 0, votedHeight |-> 0,
            accepted |-> {}, voted |-> {}]

\* The others are one node, whose votes alone make a certificate.
Two(mine, theirs) == [x \in {me, "others"} |-> IF x = me THEN mine ELSE theirs]

V == INSTANCE xBFTVoting WITH
        Node <- {me, "others"}, Honest <- {me, "others"}, Quorum <- {{"others"}},
        lock <- Two(voting.lock, Genesis),
        held <- Two(held, {Genesis}),
        votedView <- Two(voting.votedView, 0),
        votedHeight <- Two(voting.votedHeight, 0),
        accepted <- Two(voting.accepted, {}),
        voted <- Two(voting.voted, certified),
        restarted <- {}

(***************************************************************************)
(* A block is marked as committed, in memory or in the database, only when *)
(* its own, its child's and its grandchild's certificates exist: what      *)
(* xBFTVoting counts as committed.  Both do_execute of the context and     *)
(* process_block of the store mark blocks, on objects they share.          *)
(***************************************************************************)
CommitProven ==
    \A b \in (n.store.committed \cup n.store.disk.committed) \ {Genesis} : V!Committed(b)

(***************************************************************************)
(* The member implements the voting rules that agreement rests on: every   *)
(* turn of the handlers is a step of xBFTVoting or leaves the state of the *)
(* rules alone.  No order of messages, callbacks, timeouts and stores      *)
(* makes the member vote, or move its lock, against the rules.             *)
(***************************************************************************)
Implements == voting = NoVotes /\ [][V!Step(me)]_voting

(***************************************************************************)
(* With crashes the member forgets which views it voted in, as xBFTVoting  *)
(* allows it to, but comes back with its lock or a newer one.              *)
(***************************************************************************)
ImplementsWithCrash ==
    voting = NoVotes /\ [][V!Step(me) \/ \E b \in Block : V!Restart(me, b)]_voting

============================================================================
