----------------------------- MODULE xSendPool -----------------------------
(***************************************************************************)
(* The sending side of the transaction pool for one account: the queue of  *)
(* its send transactions and of the confirmations it has to pack           *)
(* (xaccountobj_t), and the cache of its unconfirmed sends with the        *)
(* receipts to send again (xunconfirm_sendtx_cache_t).  Clients and the    *)
(* network push transactions, the pool's thread handles the events of      *)
(* committed units, the timer cleans the receipts, and the consensus       *)
(* thread packs or verifies.                                               *)
(*                                                                         *)
(* The account's units are given.  The block store commits and executes    *)
(* them in order.  Receipts to other accounts are left to xRecvPool, self  *)
(* transactions are left out.  Bound: a unit confirms one transaction.     *)
(***************************************************************************)
EXTENDS Integers, Sequences, FiniteSetsExt

CONSTANTS
    Tx,            \* the send transactions of the account
    nonceOf,       \* get_last_nonce
    prevOf,        \* the transaction whose hash get_last_hash is, or NoTx
    fireOf,        \* get_fire_timestamp
    expires,       \* expires[t]: the last clock at which t may be packed
    outdated,      \* outdated[t]: the last clock at which t's receipt is valid
    NoTx,
    Chains,        \* the unit chains to look at
    QueueMax,      \* m_send_tx_queue_max_num
    SendMax,       \* enum_max_table_send_tx_num
    UnconfirmMax,  \* enum_max_table_unconfirm_tx_num
    MaxMail,       \* enum_max_mailbox_num
    MaxClock       \* bound: the clock stops here

\* What the consensus grants of the account's units: the nonces of the sends rise, and
\* a unit confirms sends of the units before it.
IsChain(c) ==
    /\ c \in Seq([sends : Seq(Tx), confirms : SUBSET Tx, full : BOOLEAN])
    /\ \A g, h \in DOMAIN c : \A i \in DOMAIN c[g].sends, j \in DOMAIN c[h].sends :
            g < h \/ (g = h /\ i < j) => nonceOf[c[g].sends[i]] < nonceOf[c[h].sends[j]]
    /\ \A h \in DOMAIN c : \A t \in c[h].confirms :
            \E g \in 1 .. h - 1 : t \in Range(c[g].sends)

ASSUME SendAssumption ==
    /\ IsFiniteSet(Tx) /\ NoTx \notin Tx
    /\ nonceOf \in [Tx -> Nat] /\ fireOf \in [Tx -> Nat]
    /\ expires \in [Tx -> Nat] /\ outdated \in [Tx -> Nat]
    /\ \A c \in Chains : IsChain(c)
    /\ {SendMax, UnconfirmMax, MaxMail, MaxClock} \subseteq Nat /\ QueueMax \in Nat \ {0}

VARIABLES
    units,         \* the units of the account: sends, confirmed sends, full or light
    clock,
    committed,     \* the units committed in the block store
    executed,      \* the units whose effect is in the account's state
    mail,          \* the events of committed units in the pool's mailbox
    acct,          \* the account's object in the pool, if any
    unconf,        \* the cache of unconfirmed sends
    judged,        \* confirmations that push_recv_ack_tx has yet to insert
    covered,       \* whether the table is subscribed
    task,          \* what the consensus thread does, on which unit
    passed,        \* what it passed in its last step, on which unit
    unchecked      \* history: what was last queued without a look at its last hash

vars == <<units, clock, committed, executed, mail, acct, unconf, judged, covered, task,
          passed, unchecked>>

NoAccount == [nonce |-> 0 - 1, last |-> NoTx, queue |-> <<>>, acks |-> {}]

\* has, receipts, height: the account's entry in m_accounts_cache; live and dead:
\* the entries of m_retry_cache that are not, or that are, confirmed.
NewUnconf == [has |-> FALSE, receipts |-> {}, height |-> 0,
              live |-> [t \in Tx |-> 0], dead |-> 0]

Task(role, unit, txs) == [role |-> role, unit |-> unit, txs |-> txs]
Idle == Task("none", 0, {})
Passed(kind, unit, txs) == [kind |-> kind, unit |-> unit, txs |-> txs]
Nothing == Passed("none", 0, <<>>)

Init ==
    /\ units \in Chains
    /\ clock = 0
    /\ committed = 0
    /\ executed = 0
    /\ mail = <<>>
    /\ acct = NoAccount
    /\ unconf = NewUnconf
    /\ judged = {}
    /\ covered = FALSE
    /\ task = Idle
    /\ passed = Nothing
    /\ unchecked = {}

---------------------------------------------------------------------------
(* The units. *)

Sent(lo, hi) == UNION {Range(units[h].sends) : h \in lo .. hi}
Confirmed(lo, hi) == UNION {units[h].confirms : h \in lo .. hi}

\* get_unconfirm_sendtx_num and is_prev_sendtx_confirmed of unit h.
UnconfirmNum(h) == Cardinality(Sent(1, h)) - Cardinality(Confirmed(1, h))
PrevConfirmed(h) == Cardinality(Sent(1, h - 1)) = Cardinality(Confirmed(1, h))

Last(q) == q[Len(q)]                         \* *rbegin()

\* account_send_trans_number and _hash after h units.
LastSent(h) ==
    LET S == {k \in 1 .. h : units[k].sends # <<>>}
    IN IF S = {} THEN NoTx ELSE Last(units[Max(S)].sends)
NonceAt(h) == IF LastSent(h) = NoTx THEN 0 ELSE nonceOf[LastSent(h)] + 1

---------------------------------------------------------------------------
(* The account's object, as operators on its state a. *)

Queued(a) == Range(a.queue) \cup a.acks      \* m_tx_map

\* find_account_and_create_new
Found(a) ==
    IF a = NoAccount
    THEN [NoAccount EXCEPT !.nonce = NonceAt(executed), !.last = LastSent(executed)]
    ELSE a

\* The place of the first transaction of S in the queue q, or the place after its end.
First(q, S) == Min({i \in 1 .. Len(q) : q[i] \in S} \cup {Len(q) + 1})

\* clear_send_queue_by_iter: that transaction leaves with all that follow it.
Before(q, S) == SubSeq(q, 1, First(q, S) - 1)

\* The first transactions leave, up to that one.
From(q, S) == SubSeq(q, First(q, S), Len(q))

Expired(t) == clock > expires[t]

\* Mutant: the expired transactions alone are removed.
clear_expire_txs_mutant(a) == [a EXCEPT !.queue = SelectSeq(@, LAMBDA t : ~Expired(t))]

\* An expired transaction leaves with all that follow it.
clear_expire_txs(a) == [a EXCEPT !.queue = Before(@, {t \in Tx : Expired(t)})]

\* t comes after the last queued transaction, or after the last one of the chain.
Follows(a, t) ==
    IF a.queue = <<>>
    THEN nonceOf[t] = a.nonce /\ prevOf[t] = a.last
    ELSE nonceOf[t] = nonceOf[Last(a.queue)] + 1 /\ prevOf[t] = Last(a.queue)

\* t's nonce is taken, and t is not older than the transaction that has it.
Replaces(a, t) ==
    /\ a.queue # <<>>
    /\ nonceOf[t] <= nonceOf[Last(a.queue)]
    /\ \A u \in Range(a.queue) : nonceOf[u] = nonceOf[t] => fireOf[t] >= fireOf[u]

\* check_and_erase_old_nonce_duplicate_tx: a rival of t leaves with all that follow it.
WithoutRival(q, t) == Before(q, {u \in Tx : nonceOf[u] = nonceOf[t]})

\* t goes to its place in the queue, which is ordered by nonce.
Insert(q, t) ==
    LET later == {u \in Tx : nonceOf[u] > nonceOf[t]}
    IN IF Len(q) >= QueueMax THEN q ELSE Before(q, later) \o <<t>> \o From(q, later)

\* push_send_tx of the account.  What replaces a rival is not asked for its last hash.
PushSend(a, t) ==
    LET b == clear_expire_txs(a)
    IN IF nonceOf[t] < a.nonce THEN a
       ELSE IF t \in Queued(b) THEN b
       ELSE IF Follows(b, t) THEN [b EXCEPT !.queue = Insert(@, t)]
       ELSE IF Replaces(b, t) THEN [b EXCEPT !.queue = Insert(WithoutRival(@, t), t)]
       ELSE b

\* pop_tx_by_hash of a send: those that follow it leave too.
PopSend(a, t) == [a EXCEPT !.queue = Before(@, {t})]

\* A send is popped with all that follow it, a confirmation alone.
PopUnit(a, unit) ==
    [a EXCEPT !.queue = Before(@, Range(unit.sends)), !.acks = @ \ unit.confirms]

update_latest_send_trans_number_hash(a, nonce, last) ==
    IF nonce <= a.nonce THEN a
    ELSE LET q == From(a.queue, {t \in Tx : nonceOf[t] >= nonce})
         IN [a EXCEPT !.nonce = nonce, !.last = last,
                      !.queue = IF q # <<>> /\ prevOf[Head(q)] # last THEN <<>> ELSE q]

\* Unit h is committed, and n units were executed when the account was read.
on_unit_to_db(a, h, n) ==
    IF a = NoAccount THEN a
    ELSE LET m == IF h > n /\ units[h].sends # <<>> THEN h ELSE n
         IN update_latest_send_trans_number_hash(PopUnit(a, units[h]),
                                                 NonceAt(m), LastSent(m))

---------------------------------------------------------------------------
(* The cache of unconfirmed sends, as operators on its state x. *)

\* Mutant: a confirmed receipt is taken off the count at once.
SetConfirmed_mutant(x, T) ==
    [x EXCEPT !.live = [t \in Tx |-> IF t \in T /\ @[t] > 0 THEN @[t] - 1 ELSE @[t]],
              !.dead = @ - Cardinality(T),
              !.receipts = @ \ T]

\* set_confirmed on the receipts of T: their retry entries, if any, are dead.
SetConfirmed(x, T) ==
    [x EXCEPT !.live = [t \in Tx |-> IF t \in T /\ @[t] > 0 THEN @[t] - 1 ELSE @[t]],
              !.dead = @ + Cardinality({t \in T : x.live[t] > 0}),
              !.receipts = @ \ T]

\* pop_all_receipt
PopAll(x) == SetConfirmed(x, x.receipts)

\* Mutant: the receipts are not marked as confirmed.
clear_account_cache_mutant(x) == [x EXCEPT !.receipts = {}, !.has = FALSE, !.height = 0]

clear_account_cache(x) == [PopAll(x) EXCEPT !.has = FALSE, !.height = 0]

\* traverse_and_get_unconfirm_units: down to a unit before which all is confirmed,
\* or to the first one that is not in the cache.
BeginUnit(x) == Max({h \in 1 .. committed : PrevConfirmed(h) \/ h <= x.height + 1})

\* push_receipt and insert_retry_cache for the sends of the units from lo on.
PushReceipts(x, lo) ==
    [x EXCEPT !.receipts = @ \cup Sent(lo, committed),
              !.live = [t \in Tx |-> IF t \in Sent(lo, committed) THEN @[t] + 1 ELSE @[t]]]

\* Mutant: an old cache is kept where the units do not continue it.
update_cache_mutant(x) ==
    LET lo == BeginUnit(x)
        z == PushReceipts(x, lo)
    IN [SetConfirmed(z, z.receipts \cap Confirmed(lo, committed)) EXCEPT
            !.has = TRUE, !.height = committed]

\* traverse_units_and_update_receipt_cache; a transaction is sent by one unit and
\* confirmed by a later one, so the pushes may come before the pops.
update_cache(x) ==
    LET lo == BeginUnit(x)
        y == IF x.height # 0 /\ lo > x.height + 1 THEN PopAll(x) ELSE x
        z == PushReceipts(y, lo)
    IN [SetConfirmed(z, z.receipts \cap Confirmed(lo, committed)) EXCEPT
            !.has = TRUE, !.height = committed]

\* The latest committed unit is executed, and is the one that is asked for, if any.
StateBehind == committed = 0 \/ executed < committed

\* Mutant: the unit that is asked for is not looked at.
Matches_mutant(unit) == TRUE

Matches(unit) == unit \in {0, committed}
NoneUnconfirmed == units[committed].full \/ UnconfirmNum(committed) = 0

\* The cache after check_and_update_cache.
check_and_update_cache(x, unit) ==
    IF StateBehind \/ ~Matches(unit) THEN x
    ELSE IF NoneUnconfirmed THEN clear_account_cache(x)
    ELSE IF x.height = committed THEN x
    ELSE update_cache(x)

\* The answer of has_txhash_receipt.
has_txhash_receipt(x, t, unit) ==
    IF StateBehind THEN "behind"
    ELSE IF ~Matches(unit) THEN "mismatch"
    ELSE IF ~NoneUnconfirmed /\ t \in check_and_update_cache(x, unit).receipts THEN "exist"
    ELSE "not_exist"

\* get_unconfirm_tx_num
RetryNum(x) == MapThenSumSet(LAMBDA t : x.live[t], Tx) + x.dead

\* on_timer_check_cache: what is confirmed or too old is not sent again.
CleanRetry(x) ==
    [x EXCEPT !.live = [t \in Tx |-> IF clock > outdated[t] THEN 0 ELSE @[t]], !.dead = 0]

---------------------------------------------------------------------------
(* The block store. *)

Tick ==
    /\ clock < MaxClock
    /\ clock' = clock + 1
    /\ passed' = Nothing
    /\ UNCHANGED <<units, committed, executed, mail, acct, unconf, judged, covered, task,
                   unchecked>>

\* The event of a unit is posted when it is stored, or dropped by a full mailbox.
Commit ==
    /\ committed < Len(units)
    /\ committed' = committed + 1
    /\ mail' = IF Len(mail) < MaxMail THEN Append(mail, committed') ELSE mail
    /\ passed' = Nothing
    /\ UNCHANGED <<units, clock, executed, acct, unconf, judged, covered, task, unchecked>>

Execute ==
    /\ executed < committed
    /\ executed' = executed + 1
    /\ passed' = Nothing
    /\ UNCHANGED <<units, clock, committed, mail, acct, unconf, judged, covered, task,
                   unchecked>>

---------------------------------------------------------------------------
(* The pool. *)

push_send_tx(t) ==
    /\ Len(acct.queue) < SendMax
    /\ RetryNum(unconf) < UnconfirmMax
    /\ ~Expired(t)
    /\ acct' = PushSend(Found(acct), t)
    /\ unchecked' = IF t \notin Range(acct'.queue) \ Range(acct.queue) THEN unchecked
                    ELSE IF Follows(clear_expire_txs(Found(acct)), t) THEN unchecked \ {t}
                    ELSE unchecked \cup {t}
    /\ passed' = Nothing
    /\ UNCHANGED <<units, clock, committed, executed, mail, unconf, judged, covered, task>>

\* push_recv_ack_tx up to the answer of the cache.  The confirmation is of a send of
\* the account, which this node may not have stored yet.
CheckAck(t) ==
    /\ t \in Sent(1, Len(units)) \ judged
    /\ unconf' = check_and_update_cache(unconf, 0)
    /\ judged' = IF has_txhash_receipt(unconf, t, 0) = "exist" THEN judged \cup {t} ELSE judged
    /\ passed' = Nothing
    /\ UNCHANGED <<units, clock, committed, executed, mail, acct, covered, task, unchecked>>

\* The rest of push_recv_ack_tx, under the mutex of the table.
push_recv_ack_tx(t) ==
    /\ t \in judged
    /\ judged' = judged \ {t}
    /\ acct' = [Found(acct) EXCEPT !.acks = IF t \in Range(Found(acct).queue) THEN @ ELSE @ \cup {t}]
    /\ passed' = Nothing
    /\ UNCHANGED <<units, clock, committed, executed, mail, unconf, covered, task, unchecked>>

\* update_committed_unit_block with unit h and an account of n units.
UpdateCommitted(h, n) ==
    /\ unconf' = check_and_update_cache(unconf, 0)
    /\ acct' = IF h = 0 THEN acct ELSE on_unit_to_db(acct, h, n)

on_block_confirmed ==
    /\ mail # <<>>
    /\ UpdateCommitted(Head(mail), executed)
    /\ mail' = Tail(mail)
    /\ passed' = Nothing
    /\ UNCHANGED <<units, clock, committed, executed, judged, covered, task, unchecked>>

on_timer_check_cache ==
    /\ covered
    /\ unconf' = CleanRetry(unconf)
    /\ passed' = Nothing
    /\ UNCHANGED <<units, clock, committed, executed, mail, acct, judged, covered, task,
                   unchecked>>

\* subscribe_tables: the table's state names the accounts with unconfirmed sends.
init ==
    /\ ~covered
    /\ covered' = TRUE
    /\ unconf' = IF UnconfirmNum(executed) > 0 THEN check_and_update_cache(unconf, 0) ELSE unconf
    /\ passed' = Nothing
    /\ UNCHANGED <<units, clock, committed, executed, mail, acct, judged, task, unchecked>>

\* unsubscribe_tables: the cache of unconfirmed sends is kept.
clear ==
    /\ covered
    /\ covered' = FALSE
    /\ acct' = NoAccount
    /\ passed' = Nothing
    /\ UNCHANGED <<units, clock, committed, executed, mail, unconf, judged, task, unchecked>>

---------------------------------------------------------------------------
(* The consensus thread. *)

\* get_accounts drops an account with nothing to pack; make_block looks at the
\* latest unit, which must be executed, and updates the pool.
make_block ==
    /\ task = Idle
    /\ acct # NoAccount
    /\ IF Queued(acct) = {} THEN acct' = NoAccount /\ UNCHANGED <<unconf, task>>
       ELSE /\ executed = committed
            /\ UpdateCommitted(committed, executed)
            /\ task' = Task("leader", committed, {})
    /\ passed' = Nothing
    /\ UNCHANGED <<units, clock, committed, executed, mail, judged, covered, unchecked>>

\* get_account_txs takes confirmations first; one that is not awaited is dropped.
PackConfirm(t) ==
    /\ task.role = "leader"
    /\ t \in acct.acks
    /\ unconf' = check_and_update_cache(unconf, task.unit)
    /\ LET answer == has_txhash_receipt(unconf, t, task.unit)
           a == clear_expire_txs(acct)
       IN /\ acct' = IF answer = "not_exist" THEN [a EXCEPT !.acks = @ \ {t}] ELSE a
          /\ passed' = IF answer = "exist" THEN Passed("confirm", task.unit, <<t>>) ELSE Nothing
    /\ task' = Idle
    /\ UNCHANGED <<units, clock, committed, executed, mail, judged, covered, unchecked>>

\* get_account_txs without confirmations: the first k sends, if the chain the leader
\* saw is not behind the pool.
PackSend(k) ==
    /\ task.role = "leader"
    /\ acct # NoAccount /\ acct.acks = {}
    /\ acct' = update_latest_send_trans_number_hash(clear_expire_txs(acct),
                                                    NonceAt(task.unit), LastSent(task.unit))
    /\ LET packed == IF NonceAt(task.unit) < acct.nonce THEN <<>>
                     ELSE SubSeq(acct'.queue, 1, Min({k, Len(acct'.queue)}))
       IN /\ passed' = IF packed = <<>> THEN Nothing ELSE Passed("send", task.unit, packed)
          /\ task' = IF packed = <<>> THEN Idle ELSE Task("execute", task.unit, Range(packed))
    /\ UNCHANGED <<units, clock, committed, executed, mail, unconf, judged, covered, unchecked>>

\* The pool was emptied in the meantime.
NoTxs ==
    /\ task.role = "leader"
    /\ acct = NoAccount
    /\ task' = Idle
    /\ passed' = Nothing
    /\ UNCHANGED <<units, clock, committed, executed, mail, acct, unconf, judged, covered,
                   unchecked>>

\* make_lightunit_output: the packed sends are executed; one that fails is popped.
make_lightunit_output ==
    /\ task.role = "execute"
    /\ acct' \in {acct} \cup {PopSend(acct, t) : t \in task.txs}
    /\ task' = Idle
    /\ passed' = Nothing
    /\ UNCHANGED <<units, clock, committed, executed, mail, unconf, judged, covered, unchecked>>

\* A backup looks at the latest unit, which must be executed, and updates the pool.
verify_block ==
    /\ task = Idle
    /\ executed = committed
    /\ UpdateCommitted(committed, executed)
    /\ task' = Task("backup", committed, {})
    /\ passed' = Nothing
    /\ UNCHANGED <<units, clock, committed, executed, mail, judged, covered, unchecked>>

\* txs_validity_check_backup of a proposal that confirms t.
verify_confirm(t) ==
    /\ task.role = "backup"
    /\ unconf' = check_and_update_cache(unconf, task.unit)
    /\ passed' = IF has_txhash_receipt(unconf, t, task.unit) = "exist"
                 THEN Passed("confirm", task.unit, <<t>>) ELSE Nothing
    /\ task' = Idle
    /\ UNCHANGED <<units, clock, committed, executed, mail, acct, judged, covered, unchecked>>

\* txs_validity_check_backup of a proposal that sends t: nonce and hash are continuous.
verify_send(t) ==
    /\ task.role = "backup"
    /\ passed' = IF ~Expired(t) /\ nonceOf[t] = NonceAt(task.unit) /\ prevOf[t] = LastSent(task.unit)
                 THEN Passed("send", task.unit, <<t>>) ELSE Nothing
    /\ task' = Idle
    /\ UNCHANGED <<units, clock, committed, executed, mail, acct, unconf, judged, covered,
                   unchecked>>

\* A restart of the node loses all but the block store.
Restart ==
    /\ mail' = <<>>
    /\ acct' = NoAccount
    /\ unconf' = NewUnconf
    /\ judged' = {}
    /\ covered' = FALSE
    /\ task' = Idle
    /\ passed' = Nothing
    /\ UNCHANGED <<units, clock, committed, executed, unchecked>>

Next ==
    \/ Tick \/ Commit \/ Execute
    \/ \E t \in Tx : \/ push_send_tx(t) \/ CheckAck(t) \/ push_recv_ack_tx(t)
                     \/ PackConfirm(t) \/ verify_confirm(t) \/ verify_send(t)
    \/ on_block_confirmed \/ on_timer_check_cache \/ init \/ clear
    \/ make_block \/ NoTxs \/ make_lightunit_output \/ verify_block
    \/ \E k \in 1 .. QueueMax : PackSend(k)
    \/ Restart

Spec == Init /\ [][Next]_vars

---------------------------------------------------------------------------
(* Properties. *)

\* The state is well formed, and the count of retry entries never falls below zero.
TypeOK ==
    /\ units \in Chains
    /\ clock \in 0 .. MaxClock
    /\ executed \in 0 .. committed /\ committed \in 0 .. Len(units)
    /\ Len(mail) <= MaxMail /\ Range(mail) \subseteq 1 .. committed
    /\ acct \in [nonce : Int, last : Tx \cup {NoTx}, queue : Seq(Tx), acks : SUBSET Tx]
    /\ unconf \in [has : BOOLEAN, receipts : SUBSET Tx, height : Nat,
                   live : [Tx -> Nat], dead : Nat]
    /\ judged \subseteq Tx /\ unchecked \subseteq Tx
    /\ covered \in BOOLEAN
    /\ task.role \in {"none", "leader", "execute", "backup"}
    /\ passed.kind \in {"none", "confirm", "send"}

\* What get_send_txs hands to the leader extends the unit the leader builds on: the
\* nonces follow the account's without a gap, and each transaction names the one
\* before it, unless it was let in in place of a rival (check_and_erase_old_nonce_
\* duplicate_tx does not look at the last hash).  These are the assertions at the
\* end of get_send_txs, for all that is packed.
PackedFits ==
    passed.kind = "send" =>
        \A i \in 1 .. Len(passed.txs) :
            LET t == passed.txs[i]
            IN /\ nonceOf[t] = NonceAt(passed.unit) + i - 1
               /\ \/ t \in unchecked
                  \/ prevOf[t] = IF i = 1 THEN LastSent(passed.unit) ELSE passed.txs[i - 1]

\* The account's cache, updated from its own height, from the last unit before which
\* all was confirmed, or from nothing, holds exactly the sends that are unconfirmed at
\* its height.
CacheExact ==
    unconf.has =>
        /\ unconf.height \in 1 .. committed
        /\ unconf.receipts = Sent(1, unconf.height) \ Confirmed(1, unconf.height)

\* A receipt that may be sent again is in the account's cache, once (is_account_cache_
\* complete asserts that the cache is there), and every unconfirmed send of the cache
\* has such a receipt until it is too old.
RetryExact ==
    \A t \in Tx :
        /\ unconf.live[t] \in {0, 1}
        /\ unconf.live[t] = 1 => unconf.has /\ t \in unconf.receipts
        /\ t \in unconf.receipts => unconf.live[t] = 1 \/ clock > outdated[t]

\* A confirmation is passed, by a leader or a backup, only for a send that the chain
\* up to the unit it will follow holds and does not confirm, although the cache may have
\* been updated for a later unit between the reading of that unit and the check.  Not on
\* the genesis unit: has_txhash_receipt takes its height 0 for no height and checks the
\* confirmation against whatever unit is the latest by then.
ConfirmedOnce ==
    passed.kind = "confirm" /\ passed.unit > 0 =>
        Range(passed.txs) \subseteq Sent(1, passed.unit) \ Confirmed(1, passed.unit)

=============================================================================
