---------------------------- MODULE xBFTMember -----------------------------
(***************************************************************************)
(* The consensus stack that one member runs for one account: xcsaccount_t  *)
(* over xBFTcontext_t over xBFTdriver_t (with the xBFTRules and xBFTSyncdrv *)
(* it is derived from), above the block store of xBlockAcct.  An event runs *)
(* through the layers in one turn of the engine thread, so the operators   *)
(* below take the state of the member and return the next one.             *)
(*                                                                         *)
(* The state is a record n:                                                *)
(*   store            the block store; its flags are those of the block    *)
(*                    objects, which store and consensus share             *)
(*   pool             m_hash_pool of the context                           *)
(*   linked           pool nodes whose parent pointer is set               *)
(*   child            the child pointer of a node, a set of at most one    *)
(*   ctxLock, commit  m_latest_lock_block and m_latest_commit_block of the *)
(*                    context, empty when NULL                             *)
(*   lock             m_latest_lock_block of the rules, empty when NULL    *)
(*   certs, props     m_certified_blocks and m_proposal_blocks             *)
(*   ready            proposals whose verification computed their output   *)
(*   votedView, votedHeight                                                *)
(*   requests         m_syncing_requests                                   *)
(*   jobs, calls      the verification jobs on the worker thread of the    *)
(*                    account, and their callbacks on the engine thread    *)
(*   told, turn, late a proposal has come in; the leader is between the    *)
(*                    two halves of its turn; an out-of-date event waits   *)
(*   commits          history: the blocks reported with consensus_commit   *)
(* A block is one object here, as it is unless a peer sends it again while *)
(* another object of it is alive.                                          *)
(***************************************************************************)
EXTENDS xBlockAcct

CONSTANTS
    me,                     \* the member
    leader, root, justify,  \* as in xBFTBlocks
    byHash                  \* the blocks in the order of their hashes

LowestView(S) == {b \in S : \A c \in S : view[b] <= view[c]}

Above(b, c) == height[b] > height[c] /\ view[b] > view[c]

The(S) == CHOOSE b \in S : TRUE

\* The block with the highest view: get_latest_cert_block, get_latest_proposal_block.
HighestView(S) == {b \in S : \A c \in S : view[c] <= view[b]}

---------------------------------------------------------------------------
RECURSIVE store_blocks(_, _)

(***************************************************************************)
(* xcsaccount_t: a batch of blocks goes to the store in the order given.   *)
(***************************************************************************)
store_blocks(n, batch) ==
    CASE batch = <<>> -> n
      [] batch # <<>> /\ Head(batch) = {} -> store_blocks(n, Tail(batch))
      [] OTHER -> store_blocks([n EXCEPT !.store = store_block(@, The(Head(batch)))],
                               Tail(batch))

---------------------------------------------------------------------------
(***************************************************************************)
(* xBFTRules                                                               *)
(***************************************************************************)

\* safe_check_for_block; every block of the tree has view >= height.
AboveLock(n, b) == \A l \in n.lock : Above(b, l)

(***************************************************************************)
(* The lock only moves up.  Proposals that are no longer above it leave as *)
(* out of date, upon which the account stores the latest blocks.           *)
(***************************************************************************)
set_lock_block(n, S) ==
    LET l == The(S)
        m == [n EXCEPT !.lock = S,
                       !.votedHeight = Higher(@, height[l]),
                       !.votedView = Higher(@, view[l]),
                       !.certs = {c \in @ : Above(c, l)},
                       !.props = {c \in @ : Above(c, l)}]
    IN  CASE S = {} -> n
          [] S # {} /\ ~ AboveLock(n, l) -> n
          [] OTHER -> IF m.props = n.props
                      THEN m
                      ELSE store_blocks(m, <<HighestView(m.certs), m.ctxLock, m.commit>>)

\* get_lock_block reads the lock from the store the first time.
get_lock_block(n) ==
    IF n.lock = {} THEN set_lock_block(n, {LatestLock(n.store)}) ELSE n

(***************************************************************************)
(* safe_check_follow_locked_branch: "yes", "no", or "unknown" when b is    *)
(* too far from the lock.                                                  *)
(***************************************************************************)
follow(n, b) ==
    LET l == The(n.lock)
        Test(yes) == IF yes THEN "yes" ELSE "no"
    IN  CASE height[b] = height[l] - 1 -> Test(b = parent[l])
          [] height[b] = height[l]     -> Test(b = l)
          [] height[b] = height[l] + 1 -> Test(parent[b] = l)
          [] height[b] = height[l] + 2 -> Test(justify[b] = root[l])
          [] OTHER                     -> "unknown"

\* Neither the latest certificate nor the latest proposal S reaches b's view or height.
Passes(b, S) == \A c \in HighestView(S) : Above(b, c)

\* A bug: a proposal in a view that was voted in already passes.
safe_precheck_for_voting_mutant(n, b) ==
    /\ AboveLock(n, b)
    /\ height[b] >= n.votedHeight
    /\ Passes(b, n.certs)
    /\ Passes(b, n.props)
    /\ follow(n, b) # "no"

safe_precheck_for_voting(n, b) ==
    /\ AboveLock(n, b)
    /\ view[b] > n.votedView
    /\ height[b] >= n.votedHeight
    /\ Passes(b, n.certs)
    /\ Passes(b, n.props)
    /\ follow(n, b) # "no"

safe_finalcheck_for_voting(n, b) ==
    /\ AboveLock(n, b)
    /\ Passes(b, n.certs)
    /\ follow(n, b) = "yes"
    /\ \A l \in n.lock : height[b] = height[l] + 2 =>
            parent[b] \in n.certs /\ grandparent(b) = l

\* A bug: the view may have a certificate already.
AddCert_mutant(n, b) ==
    LET ok == follow(n, b) # "no"
    IN  [n |-> IF ok THEN [n EXCEPT !.certs = @ \cup {b}] ELSE n, ok |-> ok]

\* [n |-> the next state, ok |-> the block is new].
AddCert(n, b) ==
    LET ok == follow(n, b) # "no" /\ \A c \in n.certs : view[c] # view[b]
    IN  [n |-> IF ok THEN [n EXCEPT !.certs = @ \cup {b}] ELSE n, ok |-> ok]

add_cert_block(n, b) == AddCert(get_lock_block(n), b)

add_proposal(n, b) ==
    [n EXCEPT !.votedHeight = Higher(@, height[b]),
              !.votedView = Higher(@, view[b]),
              !.props = @ \cup {b}]

remove_proposal(n, b) == [n EXCEPT !.props = {c \in @ : view[c] # view[b]}]

\* send_sync_request: there is no request for the genesis block.
Request(n, b) == [n EXCEPT !.requests = @ \cup ({b} \ {Genesis})]

---------------------------------------------------------------------------
(***************************************************************************)
(* xBFTcontext_t                                                           *)
(***************************************************************************)
Ahead(b, S) == \A c \in S : Above(b, c)

update_lock_block(n, b) ==
    IF b \in n.store.locked \cup n.store.committed /\ Ahead(b, n.ctxLock)
    THEN [n EXCEPT !.ctxLock = {b}]
    ELSE n

\* The first commit block is the first lock too.
update_commit_block(n, b) ==
    CASE b \notin n.store.committed \/ ~ Ahead(b, n.commit) -> n
      [] b \in n.store.committed /\ n.commit = {} ->
            update_lock_block([n EXCEPT !.commit = {b}], b)
      [] OTHER -> [n EXCEPT !.commit = {b}]

\* The parent node of b that is still in the pool, if any.
Up(n, b) == {p \in n.pool : b \in n.linked /\ p = parent[b]}

RECURSIVE Chain(_, _)

\* The nodes that b is linked to, from its parent up.
Chain(n, b) == IF Up(n, b) = {} THEN <<>> ELSE <<parent[b]>> \o Chain(n, parent[b])

\* A bug: a certificate commits its parent.
do_execute_mutant(n, b) ==
    LET chain == Chain(n, b)
        locked == [n EXCEPT !.store.locked = @ \cup Range(chain),
                            !.store.committed = @ \cup Range(chain)]
    IN  IF chain = <<>> THEN n
        ELSE update_commit_block(update_lock_block(locked, chain[1]), chain[1])

(***************************************************************************)
(* do_execute: the certificate of b locks its parent and commits all the   *)
(* ancestors that the pool links above.                                    *)
(***************************************************************************)
do_execute(n, b) ==
    LET chain == Chain(n, b)
        Below(c) == IF c = chain[1] THEN {b}
                    ELSE {chain[i - 1] : i \in {j \in 2..Len(chain) : chain[j] = c}}
        older == Range(chain) \ {chain[1]}
        locked == update_lock_block(
                    [n EXCEPT !.store.locked = @ \cup {chain[1]},
                              !.child = [c \in Block |-> IF c \in Range(chain)
                                                         THEN Below(c) ELSE @[c]]],
                    chain[1])
    IN  CASE chain = <<>> -> n
          [] Len(chain) = 1 -> locked
          [] OTHER -> update_commit_block(
                        [locked EXCEPT !.store.locked = @ \cup {chain[2]},
                                       !.store.committed = @ \cup older],
                        chain[2])

RECURSIVE ExecuteAll(_, _)

ExecuteAll(n, seq) ==
    IF seq = <<>> THEN n ELSE ExecuteAll(do_execute(n, Head(seq)), Tail(seq))

\* b is the parent of nodes that came before it: every node is executed again, in hash order.
LinkDown(n, b) ==
    LET children == {c \in n.pool \ n.linked : parent[c] = b}
    IN  IF children = {} THEN n
        ELSE ExecuteAll([n EXCEPT !.linked = @ \cup children],
                        SelectSeq(byHash, LAMBDA c : c \in n.pool))

(***************************************************************************)
(* do_update: a certified block joins the pool, [n |-> the next state,     *)
(* ok |-> it is new and above the lock].                                   *)
(***************************************************************************)
do_update(n, b) ==
    LET ok == /\ b \notin n.store.committed
              /\ Ahead(b, n.ctxLock)
              /\ \A c \in n.pool : view[c] # view[b]
        node == [n EXCEPT !.pool = @ \cup {b}, !.child[b] = {},
                          !.linked = IF parent[b] \in n.pool THEN @ \cup {b} ELSE @ \ {b}]
    IN  [n |-> IF ok THEN LinkDown(do_execute(node, b), b) ELSE n, ok |-> ok]

RECURSIVE Report(_, _, _)

(***************************************************************************)
(* Each block of done is reported in the order of the views, and the       *)
(* account stores it after the blocks that prove its commit.               *)
(***************************************************************************)
Report(n, done, hqc) ==
    LET b == The(LowestView(done))
        next == UNION {n.child[c] : c \in n.child[b]}
        proof == IF next # {} THEN <<next, n.child[b], {b}>> ELSE <<hqc, n.ctxLock, {b}>>
    IN  IF done = {} THEN n
        ELSE Report([store_blocks(n, proof) EXCEPT !.commits = Append(@, b)], done \ {b}, hqc)

\* A bug: the driver does not learn the lock, and committed nodes stay in the pool.
do_submit_mutant(n, hqc) == Report(n, n.pool \cap n.store.committed, hqc)

\* do_submit: committed nodes leave the pool, and the driver learns the lock first.
do_submit(n, hqc) ==
    LET done == n.pool \cap n.store.committed
    IN  Report(set_lock_block([n EXCEPT !.pool = @ \ done], n.ctxLock), done, hqc)

(***************************************************************************)
(* do_clean: nodes at or below the commit block, below the lock or beside  *)
(* it leave the pool (all of them while no block is known to be committed). *)
(***************************************************************************)
do_clean(n) ==
    LET Old(b) == \/ n.commit = {}
                  \/ ~ Ahead(b, n.commit)
                  \/ \E l \in n.ctxLock : \/ height[b] < height[l]
                                          \/ height[b] = height[l] /\ view[b] # view[l]
        pool == {b \in n.pool : ~ Old(b)}
    IN  [n EXCEPT !.pool = pool,
                  !.linked = {b \in @ \cap pool : parent[b] \in pool \ n.store.committed}]

\* A bug: a block that does not commit anything is not stored.
Deliver_mutant(n, b, hqc) ==
    LET r == do_update(n, b)
    IN  IF r.ok THEN do_clean(do_submit(r.n, hqc)) ELSE n

StoreCert(n, b) == store_blocks(n, <<{b}, n.ctxLock>>)

(***************************************************************************)
(* on_proposal_finish and on_replicate_finish of the context and then of   *)
(* the account: the driver has a new certificate.  What the context drops  *)
(* is not stored.                                                          *)
(***************************************************************************)
Deliver(n, b, hqc) ==
    LET r == do_update(n, b)
    IN  IF r.ok THEN StoreCert(do_clean(do_submit(r.n, hqc)), b) ELSE n

Add(n, b) == IF \E c \in n.pool : view[c] = view[b] THEN n ELSE do_update(n, b).n

\* The commit and the lock of the store; the pool is cleaned when one is new.
UpdateTo(n, commit, lock) ==
    LET Clean(m) == IF m.ctxLock # n.ctxLock \/ m.commit # n.commit THEN do_clean(m) ELSE m
    IN  Clean(update_commit_block(update_lock_block(n, lock), commit))

\* The driver learns the lock of the context, and the latest certificate.
SetLock(n) == set_lock_block(n, n.ctxLock)

SetCert(n, S) == IF S = {} THEN n ELSE add_cert_block(n, The(S)).n

(***************************************************************************)
(* on_proposal_start of the context and the driver: what the store knows   *)
(* of the commit, the lock and (S, unless the proposal is our own) the     *)
(* latest certificate goes down.                                           *)
(***************************************************************************)
proposal_start(n, S) ==
    LET lock == LatestLock(n.store)
        known == Add(IF S = {} THEN n ELSE Add(n, The(S)), lock)
    IN  SetCert(SetLock(UpdateTo(known, LatestCommit(n.store), lock)), S)

============================================================================
