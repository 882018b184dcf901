----------------------------- MODULE xRecvPool -----------------------------
(***************************************************************************)
(* The receiving side of one table of the transaction pool: the cache of   *)
(* the receipts that committed table blocks have received                  *)
(* (xtransaction_recv_cache_t), the receipts that wait in the pool, and    *)
(* the threads that meet there.  The network thread pushes receipts, the   *)
(* pool's own thread takes the events of committed blocks from its         *)
(* mailbox, and the consensus thread packs or verifies receipts.           *)
(*                                                                         *)
(* The table's chain is given; the block store gets its committed blocks   *)
(* in any order, and sends the event of a block when it is connected.      *)
(* Bounds: a unit takes one receipt, and a clock read before a mutex is at *)
(* most one tick old when the mutex is taken.                              *)
(***************************************************************************)
EXTENDS Naturals, Sequences, FiniteSetsExt

CONSTANTS
    Receipt,    \* the receipts of transactions sent to the table's accounts
    clockOf,    \* clockOf[r]: get_clock of r, the clock of the send unit
    chain,      \* chain[h]: the receipts received in table block h
    Window,     \* get_receipt_valid_window
    More,       \* MORE_BLOCK_HEIGHT
    MaxClock,   \* bound: the clock stops here
    MaxMail     \* enum_max_mailbox_num

Height == 1 .. Len(chain)
MaxHeight == Len(chain) + 1    \* MAX_HEIGHT: more than any height

ASSUME RecvAssumption ==
    /\ clockOf \in [Receipt -> Nat]
    /\ chain \in Seq(SUBSET Receipt)
    /\ {Window, More, MaxClock, MaxMail} \subseteq Nat

VARIABLES
    clock,      \* logic_time
    cert,       \* the highest certified table block
    stored,     \* the committed table blocks in the block store
    mail,       \* the events of committed blocks in the pool's mailbox
    cache,      \* the receipt cache
    waiting,    \* the receipts that wait in the pool
    judged,     \* receipts that push_recv_tx found new and has yet to insert
    lock,       \* the account's lock, or none before the packer verified block cert
    task,       \* what the consensus thread does, and the latest blocks it read
    hung,       \* the consensus thread waits for a mutex that it holds
    passed      \* the receipt that it passed in its last step, and for which blocks

vars == <<clock, cert, stored, mail, cache, waiting, judged, lock, task, hung, passed>>

\* seen: m_transaction_recv_cache; latest: m_latest_block_height; full: m_old_cache_full;
\* blocks: those taken in, of which the code keeps the lowest and the highest.
NewCache == [seen |-> {}, blocks |-> {}, latest |-> 0, full |-> FALSE]

MinBlock(c) == Min(c.blocks \cup {MaxHeight})   \* m_min_cache_block_height
MaxBlock(c) == Max(c.blocks \cup {0})           \* m_max_cache_block_height

Task(role, commit, high) == [role |-> role, commit |-> commit, cert |-> high]
Idle == Task("none", 0, 0)
Passed(R, t) == [receipts |-> R, commit |-> t.commit, cert |-> t.cert]
Nothing == Passed({}, Idle)

Init ==
    /\ clock = 0
    /\ cert = 0
    /\ stored = {}
    /\ mail = <<>>
    /\ cache = NewCache
    /\ waiting = {}
    /\ judged = {}
    /\ lock = "none"
    /\ task = Idle
    /\ hung = FALSE
    /\ passed = Nothing

---------------------------------------------------------------------------
(* The block store. *)

Received(H) == UNION {chain[h] : h \in H \cap Height}

\* get_latest_committed_block, which need not be connected.
Top == Max(stored \cup {0})

\* The highest block that all lower ones come with.
Connected(H) == Max({k \in 0 .. Len(chain) : 1 .. k \subseteq H})

---------------------------------------------------------------------------
(* The receipt cache, as operators on its state c. *)

insert_block_tx_to_cache(c, H) ==
    [c EXCEPT !.seen = @ \cup Received(H),
              !.blocks = @ \cup H]

\* Mutant: the last block is not loaded.
LoadUp_mutant(c, h) ==
    insert_block_tx_to_cache(c,
        {k \in MaxBlock(c) + 1 .. h - 1 : MaxBlock(c) + 1 .. k \subseteq stored})

\* Blocks are loaded upwards to h, as far as none is missing.
LoadUp(c, h) ==
    insert_block_tx_to_cache(c,
        {k \in MaxBlock(c) + 1 .. h : MaxBlock(c) + 1 .. k \subseteq stored})

\* The cache begins with the highest committed block.
Begin(c) ==
    IF c.latest = 0
    THEN insert_block_tx_to_cache([c EXCEPT !.latest = Top], {Top})
    ELSE c

\* Blocks up to m_latest_block_height, and from there to the commit height.
LoadLatest(c) == LoadUp(Begin(c), Begin(c).latest)

LoadCommit(c, commit) ==
    LET d == LoadUp(c, commit)
    IN [d EXCEPT !.latest = IF MaxBlock(d) > @ THEN MaxBlock(d) ELSE @]

cache_latest_blocks(c, commit) ==
    IF commit = 0 THEN c
    ELSE IF commit = MaxHeight \/ MaxBlock(LoadLatest(c)) < LoadLatest(c).latest
    THEN LoadLatest(c)
    ELSE LoadCommit(LoadLatest(c), commit)

\* Whether nothing was missing.
LatestCached(c, commit) ==
    \/ commit = 0
    \/ LET d == cache_latest_blocks(c, commit)
       IN MaxBlock(d) >= d.latest /\ (commit = MaxHeight \/ d.latest >= commit)

\* The height down to which an empty cache looks for receipts.
OldestWanted(c) ==
    IF \E h \in 1 .. MinBlock(c) - 1 : chain[h] # {}
    THEN Max({h \in 1 .. MinBlock(c) - 1 : chain[h] # {}})
    ELSE 1

\* An empty cache is filled from older blocks.
LoadOld(c) ==
    insert_block_tx_to_cache(c,
        {h \in OldestWanted(c) .. MinBlock(c) - 1 : h .. MinBlock(c) - 1 \subseteq stored})

Looks(c) == ~c.full /\ MinBlock(c) # MaxHeight /\ c.seen = {} /\ MinBlock(c) > 1

\* The oldest clock in the cache, and the clock from which the cache is trusted.
Trusted(c) == Min({clockOf[r] : r \in c.seen}) + More

\* Once the trusted clock leaves the window, no older block is asked for.  The loop
\* that loads older blocks starts only if the return above it was taken: it never runs.
MarkFull(c, old) ==
    [c EXCEPT !.full = @ \/ /\ c.seen # {}
                            /\ old < Trusted(c)
                            /\ Trusted(c) + Window <= clock]

cache_old_blocks(c, old) ==
    IF c.full THEN c
    ELSE IF Looks(c) THEN IF OldestWanted(c) .. MinBlock(c) - 1 \subseteq stored
                          THEN MarkFull(LoadOld(c), old)
                          ELSE LoadOld(c)
    ELSE MarkFull(c, old)

OldCached(c) == Looks(c) => OldestWanted(c) .. MinBlock(c) - 1 \subseteq stored

check_timer_height_trusted_section_by_left(c, commit) ==
    MaxBlock(c) = c.latest /\ commit \in {MaxHeight, c.latest}

Expired(r, now) == clockOf[r] + Window < now

\* The cache after is_receipt_duplicated, and its answer; now was read earlier.
Checked(c, r, now, commit) ==
    IF Expired(r, now) THEN c
    ELSE IF ~LatestCached(c, commit) THEN cache_latest_blocks(c, commit)
    ELSE cache_old_blocks(cache_latest_blocks(c, commit), clockOf[r])

\* Mutant: the cache is searched before it is loaded.
is_receipt_duplicated_mutant(c, r, now, commit) ==
    IF Expired(r, now) THEN "expired"
    ELSE IF r \in c.seen THEN "duplicate"
    ELSE IF /\ LatestCached(c, commit)
            /\ OldCached(cache_latest_blocks(c, commit))
            /\ check_timer_height_trusted_section_by_left(Checked(c, r, now, commit), commit)
    THEN "new"
    ELSE "not_synced"

is_receipt_duplicated(c, r, now, commit) ==
    IF Expired(r, now) THEN "expired"
    ELSE IF r \in Checked(c, r, now, commit).seen THEN "duplicate"
    ELSE IF /\ LatestCached(c, commit)
            /\ OldCached(cache_latest_blocks(c, commit))
            /\ check_timer_height_trusted_section_by_left(Checked(c, r, now, commit), commit)
    THEN "new"
    ELSE "not_synced"

\* Mutant: receipts on the last clock of the window are deleted too.
delete_expired_cache_mutant(c) ==
    IF c.full /\ clock >= Window
    THEN [c EXCEPT !.seen = {r \in @ : ~Expired(r, clock + 1)}]
    ELSE c

delete_expired_cache(c) ==
    IF c.full /\ clock >= Window
    THEN [c EXCEPT !.seen = {r \in @ : ~Expired(r, clock)}]
    ELSE c

\* Mutant: m_latest_block_height is not raised.
Updated_mutant(c, h) ==
    LoadLatest(IF h = MaxBlock(c) + 1 \/ MaxBlock(c) = 0
               THEN insert_block_tx_to_cache(c, {h})
               ELSE c)

\* What update_tx_cache has loaded before it deletes.
Updated(c, h) ==
    LET d == [c EXCEPT !.latest = IF h > @ THEN h ELSE @]
    IN LoadLatest(IF h = MaxBlock(d) + 1 \/ MaxBlock(d) = 0
                  THEN insert_block_tx_to_cache(d, {h})
                  ELSE d)

update_tx_cache(c, h) == delete_expired_cache(Updated(c, h))

---------------------------------------------------------------------------
(* Clock and blocks. *)

Tick ==
    /\ clock < MaxClock
    /\ clock' = clock + 1
    /\ passed' = Nothing
    /\ UNCHANGED <<cert, stored, mail, cache, waiting, judged, lock, task, hung>>

\* The blocks above the given chain are empty.  A new certified block has another
\* hash than m_latest_cert_block_hash of the packer.
Certify ==
    /\ cert < Top + 2
    /\ cert < Len(chain) + 2
    /\ cert' = cert + 1
    /\ lock' = "none"
    /\ passed' = Nothing
    /\ UNCHANGED <<clock, stored, mail, cache, waiting, judged, task, hung>>

\* As many of the events from lo to hi as the mailbox takes.
Post(lo, hi) ==
    mail \o [i \in 1 .. Min({hi - lo + 1, MaxMail - Len(mail)}) |-> lo + i - 1]

\* A table block is committed, by consensus or by synchronisation; the events of
\* the blocks that it connects are posted, or dropped if the mailbox is full.
Commit(h) ==
    /\ h \notin stored
    /\ stored' = stored \cup {h}
    /\ cert' = Max({cert, h})
    /\ lock' = IF cert' = cert THEN lock ELSE "none"
    /\ mail' = Post(Connected(stored) + 1, Connected(stored'))
    /\ passed' = Nothing
    /\ UNCHANGED <<clock, cache, waiting, judged, task, hung>>

---------------------------------------------------------------------------
(* The pool. *)

\* A clock that was read before the mutex of the cache was taken.
Recent == {clock} \cup {n \in 0 .. MaxClock : n + 1 = clock}

\* push_recv_tx up to the answer of the cache: what was loaded leaves the pool.
CheckRecv(r, now) ==
    /\ ~hung
    /\ r \notin judged
    /\ cache' = Checked(cache, r, now, MaxHeight)
    /\ waiting' = waiting \ (cache'.seen \ cache.seen)
    /\ judged' = IF is_receipt_duplicated(cache, r, now, MaxHeight) = "new"
                 THEN judged \cup {r} ELSE judged
    /\ passed' = Nothing
    /\ UNCHANGED <<clock, cert, stored, mail, lock, task, hung>>

\* The rest of push_recv_tx, under the mutex of the table.
push_recv_tx(r) ==
    /\ ~hung
    /\ r \in judged
    /\ judged' = judged \ {r}
    /\ waiting' = waiting \cup {r}
    /\ passed' = Nothing
    /\ UNCHANGED <<clock, cert, stored, mail, cache, lock, task, hung>>

\* update_committed_table_block
UpdateCommitted(h) ==
    /\ cache' = update_tx_cache(cache, h)
    /\ waiting' = waiting \ (Updated(cache, h).seen \ cache.seen)

on_block_confirmed ==
    /\ ~hung
    /\ mail # <<>>
    /\ UpdateCommitted(Head(mail))
    /\ mail' = Tail(mail)
    /\ passed' = Nothing
    /\ UNCHANGED <<clock, cert, stored, judged, lock, task, hung>>

\* unsubscribe_tables: the pool is cleared, the cache is not.
clear ==
    /\ ~hung
    /\ waiting' = {}
    /\ passed' = Nothing
    /\ UNCHANGED <<clock, cert, stored, mail, cache, judged, lock, task, hung>>

---------------------------------------------------------------------------
(* The consensus thread. *)

\* verify_latest_blocks: the three latest blocks follow each other, and the
\* committed one is executed, hence connected.
verify_latest_blocks ==
    /\ Top = Connected(stored)
    /\ cert = Top + 2 \/ (Top = 0 /\ cert < 2)

\* Mutant: the certified block is looked at, the locked one is not.
update_blocks_mutant == IF Received({cert} \ {Top}) = {} THEN "free" ELSE "locked"

\* update_lock_blocks: an uncommitted block holds a unit of the account.
update_blocks == IF Received(Top + 1 .. cert) = {} THEN "free" ELSE "locked"

\* The leader's block follows one that is not committed, above a connected one.
check_cert_connect == cert <= 1 \/ (Top < cert /\ Top = Connected(stored))

\* Mutant: the pool is not updated.
on_view_fire_mutant ==
    /\ ~hung
    /\ task = Idle
    /\ lock # "none" \/ verify_latest_blocks
    /\ lock' = IF lock = "none" THEN update_blocks ELSE lock
    /\ task' = IF lock' = "locked" \/ waiting = {} \/ ~check_cert_connect
               THEN Idle ELSE Task("leader", Top, cert)
    /\ passed' = Nothing
    /\ UNCHANGED <<clock, cert, stored, mail, cache, waiting, judged, hung>>

\* A leader reads the latest blocks, verifies them if the certified one is new to it,
\* updates the pool and looks for transactions.
on_view_fire ==
    /\ ~hung
    /\ task = Idle
    /\ lock # "none" \/ verify_latest_blocks
    /\ lock' = IF lock = "none" THEN update_blocks ELSE lock
    /\ UpdateCommitted(Top)
    /\ task' = IF lock' = "locked" \/ waiting' = {} \/ ~check_cert_connect
               THEN Idle ELSE Task("leader", Top, cert)
    /\ passed' = Nothing
    /\ UNCHANGED <<clock, cert, stored, mail, judged, hung>>

\* get_account_txs holds the mutex of the table while it checks a receipt; receipts
\* loaded by the check are to be deleted under the same mutex.
get_account_txs(r, now) ==
    /\ ~hung
    /\ task.role = "leader"
    /\ r \in waiting
    /\ cache' = Checked(cache, r, now, task.commit)
    /\ hung' = (cache'.seen # cache.seen)
    /\ LET answer == is_receipt_duplicated(cache, r, now, task.commit)
       IN /\ waiting' = IF ~hung' /\ answer \in {"duplicate", "expired"}
                        THEN waiting \ {r} ELSE waiting
          /\ passed' = IF ~hung' /\ answer = "new" THEN Passed({r}, task) ELSE Nothing
    /\ task' = IF hung' THEN task ELSE Idle
    /\ UNCHANGED <<clock, cert, stored, mail, judged, lock>>

\* The pool was emptied in the meantime.
NoTxs ==
    /\ task.role = "leader" /\ waiting = {}
    /\ task' = Idle
    /\ passed' = Nothing
    /\ UNCHANGED <<clock, cert, stored, mail, cache, waiting, judged, lock, hung>>

\* A backup reads the latest blocks and updates the pool, connected or not.
verify_proposal ==
    /\ ~hung
    /\ task = Idle
    /\ UpdateCommitted(Top)
    /\ task' = Task("backup", Top, Top)
    /\ passed' = Nothing
    /\ UNCHANGED <<clock, cert, stored, mail, judged, lock, hung>>

\* check_proposal_connect asks for a connected block below the proposal; then
\* verify_txs checks its receipt without the mutex of the table.
verify_txs(r, now) ==
    /\ ~hung
    /\ task.role = "backup"
    /\ Top = Connected(stored)
    /\ cache' = Checked(cache, r, now, task.commit)
    /\ waiting' = waiting \ (cache'.seen \ cache.seen)
    /\ passed' = IF is_receipt_duplicated(cache, r, now, task.commit) = "new"
                 THEN Passed({r}, task) ELSE Nothing
    /\ task' = Idle
    /\ UNCHANGED <<clock, cert, stored, mail, judged, lock, hung>>

NotConnected ==
    /\ task.role = "backup"
    /\ Top # Connected(stored)
    /\ task' = Idle
    /\ passed' = Nothing
    /\ UNCHANGED <<clock, cert, stored, mail, cache, waiting, judged, lock, hung>>

\* A restart of the node loses all but the block store.
Restart ==
    /\ mail' = <<>>
    /\ cache' = NewCache
    /\ waiting' = {}
    /\ judged' = {}
    /\ lock' = "none"
    /\ task' = Idle
    /\ hung' = FALSE
    /\ passed' = Nothing
    /\ UNCHANGED <<clock, cert, stored>>

Next ==
    \/ Tick \/ Certify \/ (\E h \in Height : Commit(h))
    \/ \E r \in Receipt, now \in Recent :
          CheckRecv(r, now) \/ get_account_txs(r, now) \/ verify_txs(r, now)
    \/ \E r \in Receipt : push_recv_tx(r)
    \/ on_block_confirmed \/ clear
    \/ on_view_fire \/ NoTxs \/ verify_proposal \/ NotConnected
    \/ Restart

Spec == Init /\ [][Next]_vars

---------------------------------------------------------------------------
(* Properties *)

\* The state is well typed, and no receipt waits to be inserted twice.
TypeOK ==
    /\ clock \in 0 .. MaxClock
    /\ stored \subseteq Height
    /\ cert \in Top .. Len(chain) + 2
    /\ mail \in Seq(Height) /\ Len(mail) <= MaxMail
    /\ cache \in [seen : SUBSET Receipt, blocks : SUBSET (Height \cup {0}),
                  latest : Height \cup {0}, full : BOOLEAN]
    /\ MaxBlock(cache) <= cache.latest
    /\ waiting \subseteq Receipt /\ judged \subseteq Receipt
    /\ lock \in {"none", "free", "locked"}
    /\ task.role \in {"none", "leader", "backup"}
    /\ task.commit \in Height \cup {0} /\ task.cert >= task.commit
    /\ hung \in BOOLEAN
    /\ passed.receipts \subseteq Receipt

LowestBlock == Min((cache.blocks \ {0}) \cup {MaxHeight})

\* The cache has every receipt that was received in its lowest block or later
\* and that is still valid (insert_block_tx_to_cache, delete_expired_cache).
CacheCovers ==
    \A h \in LowestBlock .. MaxBlock(cache) : \A r \in chain[h] :
        r \in cache.seen \/ Expired(r, clock)

\* A receipt that the leader packs or a backup accepts was not received in a
\* committed block, unless below the lowest one in the cache or out of date by now
\* (is_receipt_duplicated with the clock read before the mutex).
PassedIsNew ==
    \A r \in passed.receipts : \A h \in 1 .. passed.commit :
        r \in chain[h] => h < LowestBlock \/ Expired(r, clock)

\* What the leader packs is not in a certified block under way (update_blocks, is_account_lock).
NotInFlight ==
    \A r \in passed.receipts : r \notin Received(passed.commit + 1 .. passed.cert)

\* The leader never loads receipts while it holds m_table_mutex, which it would
\* then lock again (txs_validity_check_leader, delete_committed_recv_txs).
NeverRelocks == ~hung

\* Once the store has every block and the consensus thread has read the last one,
\* no receipt is refused as not synced (cache_latest_blocks, cache_old_blocks).
SyncsUp ==
    stored = Height /\ task.role # "none" /\ task.commit = Len(chain) =>
        \A r \in Receipt :
            is_receipt_duplicated(cache, r, clock, task.commit) # "not_synced"

\* What the comments on is_receipt_duplicated promise: a receipt that is neither
\* expired nor refused as not synced was not received before.
ReceivedOnce ==
    \A r \in passed.receipts :
        r \notin Received(1 .. passed.commit) \/ Expired(r, clock)

=============================================================================
