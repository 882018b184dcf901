------------------------- MODULE xSendPool_proofs --------------------------
(***************************************************************************)
(* What the sending side of the transaction pool promises, for every chain *)
(* of units, every set of transactions and every bound: the queue is       *)
(* continuous with the unit it is packed on, and the cache of unconfirmed  *)
(* sends is exact, whatever the order of pushes, events, packs, restarts.  *)
(***************************************************************************)
EXTENDS xSendState_proofs

\* The account's nonce and last send are those of some committed unit.
Grounded(a) ==
    \/ a.nonce = NoAccount.nonce
    \/ \E m \in 0 .. committed : a.nonce = NonceAt(m) /\ a.last = LastSent(m)

AcctOK(a, U) ==
    /\ a \in AcctType
    /\ QueueOK(a.queue, a.nonce, a.last, U)
    /\ Grounded(a)

LEMMA LastSentType ==
    ASSUME units \in Chains, committed \in 0 .. Len(units), NEW m \in 0 .. committed
    PROVE  m \in 0 .. Len(units) /\ NonceAt(m) \in Nat /\ LastSent(m) \in Tx \cup {NoTx}
<1>1. m \in 0 .. Len(units)
  BY UnitsFacts
<1> QED
  BY <1>1, LastSentFact

LEMMA NoAccountOK ==
    ASSUME NEW U
    PROVE  AcctOK(NoAccount, U)
<1>1. NoAccount.queue = <<>> /\ NoAccount.acks = {} /\ NoAccount.last = NoTx
  BY DEF NoAccount
<1>2. NoAccount \in AcctType
  BY EmptySeq DEF NoAccount, AcctType
<1>3. Len(NoAccount.queue) = 0
  BY <1>1, EmptySeq
<1> QED
  BY <1>2, <1>3 DEF AcctOK, QueueOK, Grounded

LEMMA FoundOK ==
    ASSUME units \in Chains, committed \in 0 .. Len(units), executed \in 0 .. committed,
           NEW a, NEW U, AcctOK(a, U)
    PROVE  AcctOK(Found(a), U) /\ Found(a).queue = a.queue
<1>1. CASE a = NoAccount
  <2>1. Found(a) = [NoAccount EXCEPT !.nonce = NonceAt(executed), !.last = LastSent(executed)]
    BY <1>1 DEF Found
  <2>2. NonceAt(executed) \in Nat /\ LastSent(executed) \in Tx \cup {NoTx}
    BY LastSentType
  <2>3. /\ Found(a) \in AcctType
        /\ Found(a).nonce = NonceAt(executed) /\ Found(a).last = LastSent(executed)
        /\ Found(a).queue = <<>>
    <3>1. NonceAt(executed) \in Int
      BY <2>2
    <3>2. NoAccount \in AcctType /\ NoAccount.queue = <<>>
      BY NoAccountOK, Zenon DEF AcctOK, NoAccount
    <3> QED
      BY <2>1, <2>2, <3>1, <3>2, Zenon DEF AcctType
  <2>4. Grounded(Found(a))
    BY <2>3 DEF Grounded
  <2>5. Len(Found(a).queue) = 0 /\ a.queue = <<>>
    BY <1>1, <2>3, EmptySeq DEF NoAccount
  <2> QED
    BY <2>3, <2>4, <2>5 DEF AcctOK, QueueOK
<1>2. CASE a # NoAccount
  BY <1>2 DEF Found
<1> QED
  BY <1>1, <1>2

\* Transactions leave from the end of the queue, and confirmations come and go.
LEMMA ShortenOK ==
    ASSUME NEW a, NEW U, AcctOK(a, U), NEW S, NEW A \in SUBSET Tx
    PROVE  /\ AcctOK([a EXCEPT !.queue = Before(@, S)], U)
           /\ AcctOK([a EXCEPT !.acks = A], U)
           /\ AcctOK([a EXCEPT !.queue = Before(@, S), !.acks = A], U)
<1>1. a \in AcctType
  BY DEF AcctOK
<1> DEFINE b == [a EXCEPT !.queue = Before(@, S)]
<1>2. /\ b \in AcctType /\ b.nonce = a.nonce /\ b.last = a.last
      /\ QueueOK(b.queue, b.nonce, b.last, U)
  BY <1>1, ClearExpireOK DEF AcctOK
<1>3. [a EXCEPT !.queue = Before(@, S), !.acks = A] = [b EXCEPT !.acks = A]
  BY <1>1 DEF AcctType
<1> HIDE DEF b
<1>4. AcctOK(b, U)
  BY <1>2 DEF AcctOK, Grounded
<1>5. ASSUME NEW c, AcctOK(c, U)
      PROVE  AcctOK([c EXCEPT !.acks = A], U)
  <2> DEFINE d == [c EXCEPT !.acks = A]
  <2>1. /\ d \in AcctType /\ d.nonce = c.nonce /\ d.last = c.last /\ d.queue = c.queue
    BY <1>5, Zenon DEF AcctOK, AcctType
  <2> HIDE DEF d
  <2>2. AcctOK(d, U)
    BY <1>5, <2>1 DEF AcctOK, Grounded
  <2> QED
    BY <2>2 DEF d
<1> QED
  BY <1>3, <1>4, <1>5, Zenon DEF b

LEMMA LatestOK ==
    ASSUME units \in Chains, committed \in 0 .. Len(units),
           NEW a, NEW U, AcctOK(a, U), NEW m \in 0 .. committed
    PROVE  LET b == update_latest_send_trans_number_hash(a, NonceAt(m), LastSent(m))
           IN /\ AcctOK(b, U)
              /\ ~(NonceAt(m) < a.nonce) => b.nonce = NonceAt(m) /\ b.last = LastSent(m)
<1> DEFINE b == update_latest_send_trans_number_hash(a, NonceAt(m), LastSent(m))
<1>0. /\ NonceAt(m) \in Nat /\ LastSent(m) \in Tx \cup {NoTx}
      /\ a \in AcctType /\ a.nonce \in Int
  BY LastSentType DEF AcctOK, AcctType
<1>1. /\ b \in AcctType
      /\ QueueOK(b.queue, b.nonce, b.last, U)
      /\ NonceAt(m) <= a.nonce => b = a
      /\ ~(NonceAt(m) <= a.nonce) => b.nonce = NonceAt(m) /\ b.last = LastSent(m)
  <2>1. QueueOK(a.queue, a.nonce, a.last, U)
    BY DEF AcctOK
  <2> DEFINE n == NonceAt(m)
             l == LastSent(m)
  <2>2. n \in Nat /\ l \in Tx \cup {NoTx} /\ a \in AcctType
    BY <1>0
  <2> HIDE DEF n, l
  <2>3. RaisedOK(a, update_latest_send_trans_number_hash(a, n, l), n, l, U)
    BY <2>1, <2>2, UpdateLatestOK, Zenon
  <2>4. RaisedOK(a, b, NonceAt(m), LastSent(m), U)
    BY <2>3 DEF n, l
  <2> HIDE DEF b
  <2> QED
    BY <2>4 DEF RaisedOK
<1> HIDE DEF b
<1>2. Grounded(b)
  BY <1>1 DEF Grounded, AcctOK
<1>3. ASSUME NonceAt(m) = a.nonce
      PROVE  b.nonce = NonceAt(m) /\ b.last = LastSent(m)
  <2>1. b = a
    BY <1>0, <1>1, <1>3
  <2>2. PICK k \in 0 .. committed : a.nonce = NonceAt(k) /\ a.last = LastSent(k)
    BY <1>0, <1>3 DEF AcctOK, Grounded, NoAccount
  <2>3. LastSent(k) = LastSent(m)
    BY <1>3, <2>2, LastSentType, SameNonce
  <2> QED
    BY <1>3, <2>1, <2>2, <2>3
<1>4. ~(NonceAt(m) < a.nonce) => b.nonce = NonceAt(m) /\ b.last = LastSent(m)
  BY <1>0, <1>1, <1>3
<1> QED
  BY <1>1, <1>2, <1>4 DEF AcctOK, b

\* The event of a unit: what it sent leaves, and the nonce rises to the chain's.
LEMMA OnUnitOK ==
    ASSUME units \in Chains, committed \in 0 .. Len(units),
           NEW a, NEW U, AcctOK(a, U),
           NEW h \in 1 .. committed, NEW n \in 0 .. committed
    PROVE  AcctOK(on_unit_to_db(a, h, n), U)
<1> DEFINE b == PopUnit(a, units[h])
           m == IF h > n /\ units[h].sends # <<>> THEN h ELSE n
<1>1. m \in 0 .. committed
  BY UnitsFacts
<1>2. AcctOK(b, U)
  <2> DEFINE A == a.acks \ units[h].confirms
             S == Range(units[h].sends)
  <2>1. A \in SUBSET Tx
    BY DEF AcctOK, AcctType
  <2>2. b = [a EXCEPT !.queue = Before(@, S), !.acks = A]
    BY DEF PopUnit, AcctOK, AcctType
  <2> HIDE DEF A, S, b
  <2>3. AcctOK([a EXCEPT !.queue = Before(@, S), !.acks = A], U)
    BY <2>1, ShortenOK, Zenon
  <2> QED
    BY <2>2, <2>3
<1>3. CASE a = NoAccount
  BY <1>3 DEF on_unit_to_db
<1>4. CASE a # NoAccount
  <2>1. on_unit_to_db(a, h, n)
            = update_latest_send_trans_number_hash(b, NonceAt(m), LastSent(m))
    BY <1>4 DEF on_unit_to_db
  <2> HIDE DEF b, m
  <2>2. AcctOK(update_latest_send_trans_number_hash(b, NonceAt(m), LastSent(m)), U)
    BY <1>1, <1>2, LatestOK
  <2> QED
    BY <2>1, <2>2
<1> QED
  BY <1>3, <1>4

---------------------------------------------------------------------------
(* The inductive invariant. *)

StoreInv ==
    /\ units \in Chains
    /\ clock \in 0 .. MaxClock
    /\ committed \in 0 .. Len(units)
    /\ executed \in 0 .. committed
    /\ mail \in Seq(Nat) /\ Len(mail) <= MaxMail /\ Range(mail) \subseteq 1 .. committed

ThreadInv ==
    /\ judged \subseteq Tx /\ covered \in BOOLEAN
    /\ task.role \in {"none", "leader", "execute", "backup"}
    /\ task.unit \in 0 .. committed

PassedInv == passed.kind \in {"none", "confirm", "send"} /\ PackedFits /\ ConfirmedOnce

\* The inductive invariant.
IInv ==
    /\ StoreInv /\ ThreadInv /\ PassedInv
    /\ unchecked \subseteq Tx
    /\ CacheOK(unconf)
    /\ AcctOK(acct, unchecked)

---------------------------------------------------------------------------

LEMMA Numbers ==
    ASSUME StoreInv
    PROVE  /\ Len(units) \in Nat /\ committed \in Nat /\ executed \in Nat
           /\ MaxMail \in Nat /\ MaxClock \in Nat
BY UnitsFacts, SendAssumption DEF StoreInv

\* Units are appended to the chain and the clock moves on, no more.
LEMMA StoreStep ==
    ASSUME StoreInv, [Next]_vars
    PROVE  /\ StoreInv'
           /\ units' = units
           /\ committed' \in Nat /\ committed <= committed'
           /\ clock' \in Nat /\ clock <= clock'
<1>0. /\ Len(units) \in Nat /\ committed \in Nat /\ executed \in Nat
      /\ MaxClock \in Nat /\ MaxMail \in Nat
  BY Numbers
<1>1. CASE Tick
  BY <1>0, <1>1 DEF Tick, StoreInv
<1>2. CASE Commit
  <2>1. committed + 1 \in 1 .. Len(units) /\ committed + 1 \in Nat
    BY <1>0, <1>2 DEF Commit
  <2>2. CASE Len(mail) < MaxMail
    <3> DEFINE m == Append(mail, committed + 1)
    <3>1. mail' = m
      BY <1>2, <2>2 DEF Commit
    <3>2. m \in Seq(Nat) /\ Len(m) = Len(mail) + 1 /\ Len(mail) \in Nat
      BY <2>1, AppendProperties, LenProperties DEF StoreInv
    <3>3. \A i \in 1 .. Len(mail) : m[i] = mail[i] /\ mail[i] \in 1 .. committed
      <4>1. DOMAIN mail = 1 .. Len(mail)
        BY LenProperties DEF StoreInv
      <4>2. \A i \in 1 .. Len(mail) : mail[i] \in 1 .. committed
        BY <4>1 DEF StoreInv, Range
      <4> QED
        BY <2>1, <4>2, AppendProperties DEF StoreInv
    <3>4. m[Len(mail) + 1] = committed + 1 /\ DOMAIN m = 1 .. Len(mail) + 1
      BY <2>1, <3>2, AppendProperties, LenProperties DEF StoreInv
    <3> HIDE DEF m
    <3>5. Range(m) \subseteq 1 .. committed + 1
      <4>1. SUFFICES ASSUME NEW i \in 1 .. Len(mail) + 1 PROVE m[i] \in 1 .. committed + 1
        BY <3>4 DEF Range
      <4>2. CASE i \in 1 .. Len(mail)
        BY <1>0, <3>3, <4>2
      <4>3. CASE i = Len(mail) + 1
        BY <1>0, <3>4, <4>3
      <4> QED
        BY <3>2, <4>2, <4>3
    <3>6. Len(m) <= MaxMail
      BY <1>0, <2>2, <3>2
    <3>7. /\ units' = units /\ committed' = committed + 1 /\ executed' = executed
          /\ clock' = clock
      BY <1>2 DEF Commit
    <3>8. committed' \in 0 .. Len(units) /\ executed' \in 0 .. committed'
      BY <1>0, <2>1, <3>7 DEF StoreInv
    <3>9. mail' \in Seq(Nat) /\ Len(mail') <= MaxMail /\ Range(mail') \subseteq 1 .. committed'
      BY <3>1, <3>2, <3>5, <3>6, <3>7
    <3>10. StoreInv'
      BY <3>7, <3>8, <3>9 DEF StoreInv
    <3> QED
      BY <1>0, <3>7, <3>10 DEF StoreInv
  <2>3. CASE ~(Len(mail) < MaxMail)
    BY <1>0, <1>2, <2>1, <2>3 DEF Commit, StoreInv
  <2> QED
    BY <2>2, <2>3
<1>3. CASE Execute
  BY <1>0, <1>3 DEF Execute, StoreInv
<1>4. CASE on_block_confirmed
  <2>1. mail # <<>> /\ mail' = Tail(mail)
    BY <1>4 DEF on_block_confirmed
  <2>2. /\ mail' \in Seq(Nat) /\ Len(mail') = Len(mail) - 1 /\ Len(mail) \in Nat
        /\ \A i \in 1 .. Len(mail') : mail'[i] = mail[i + 1]
    BY <2>1, HeadTailProperties, LenProperties DEF StoreInv
  <2>3. DOMAIN mail = 1 .. Len(mail) /\ DOMAIN mail' = 1 .. Len(mail) - 1
    BY <2>2, LenProperties DEF StoreInv
  <2>4. Range(mail') \subseteq Range(mail)
    BY <2>2, <2>3 DEF Range
  <2>5. Len(mail') <= MaxMail
    BY <1>0, <2>2 DEF StoreInv
  <2> QED
    BY <1>0, <1>4, <2>2, <2>4, <2>5 DEF on_block_confirmed, StoreInv
<1>5. CASE Restart
  <2>1. <<>> \in Seq(Nat) /\ Len(<<>>) = 0 /\ Range(<<>>) = {}
    BY EmptySeq DEF Range
  <2> QED
    BY <1>0, <1>5, <2>1 DEF Restart, StoreInv
<1>6. CASE UNCHANGED <<units, clock, committed, executed, mail>>
  BY <1>0, <1>6 DEF StoreInv
<1>7. \/ Tick \/ Commit \/ Execute \/ on_block_confirmed \/ Restart
      \/ UNCHANGED <<units, clock, committed, executed, mail>>
  BY Zenon DEF Next, vars, push_send_tx, CheckAck, push_recv_ack_tx, PackConfirm,
      verify_confirm, verify_send, on_timer_check_cache, init, clear, make_block, NoTxs,
      make_lightunit_output, verify_block, PackSend
<1> QED
  BY <1>1, <1>2, <1>3, <1>4, <1>5, <1>6, <1>7

LEMMA ThreadStep ==
    ASSUME IInv, [Next]_vars
    PROVE  ThreadInv' /\ (unchecked \subseteq Tx)'
<1>0. /\ committed \in Nat /\ committed' \in Nat /\ committed <= committed'
      /\ units \in Chains /\ Len(units) \in Nat
  BY StoreStep, Numbers DEF IInv, StoreInv
<1>1. (judged \subseteq Tx)'
  <2>1. CASE \E t \in Tx : CheckAck(t)
    BY <2>1 DEF CheckAck, IInv, ThreadInv
  <2>2. CASE \E t \in Tx : push_recv_ack_tx(t)
    BY <2>2 DEF push_recv_ack_tx, IInv, ThreadInv
  <2>3. CASE judged' = judged \/ judged' = {}
    BY <2>3 DEF IInv, ThreadInv
  <2>4. \/ \E t \in Tx : CheckAck(t) \/ push_recv_ack_tx(t)
        \/ judged' = judged \/ judged' = {}
    BY Zenon DEF Next, vars, Tick, Commit, Execute, push_send_tx, PackConfirm,
        verify_confirm, verify_send, on_block_confirmed, on_timer_check_cache, init, clear,
        make_block, NoTxs, make_lightunit_output, verify_block, PackSend, Restart
  <2> QED
    BY <2>1, <2>2, <2>3, <2>4
<1>2. (unchecked \subseteq Tx)'
  <2>1. CASE \E t \in Tx : push_send_tx(t)
    BY <2>1 DEF push_send_tx, IInv
  <2>2. CASE unchecked' = unchecked
    BY <2>2 DEF IInv
  <2>3. (\E t \in Tx : push_send_tx(t)) \/ unchecked' = unchecked
    BY Zenon DEF Next, vars, Tick, Commit, Execute, CheckAck, push_recv_ack_tx, PackConfirm,
        verify_confirm, verify_send, on_block_confirmed, on_timer_check_cache, init, clear,
        make_block, NoTxs, make_lightunit_output, verify_block, PackSend, Restart
  <2> QED
    BY <2>1, <2>2, <2>3
<1>3. covered' \in BOOLEAN
  <2>1. covered' = covered \/ covered' = TRUE \/ covered' = FALSE
    BY Zenon DEF Next, vars, Tick, Commit, Execute, push_send_tx, CheckAck, push_recv_ack_tx,
        PackConfirm, verify_confirm, verify_send, on_block_confirmed, on_timer_check_cache,
        init, clear, make_block, NoTxs, make_lightunit_output, verify_block, PackSend, Restart
  <2> QED
    BY <2>1, Zenon DEF IInv, ThreadInv
<1>4. /\ task'.role \in {"none", "leader", "execute", "backup"}
      /\ task'.unit \in 0 .. committed'
  <2>1. CASE task' = Idle
    BY <1>0, <2>1 DEF Idle, Task
  <2>2. CASE task' = task
    BY <1>0, <2>2 DEF IInv, ThreadInv
  <2>3. CASE task' = Task("leader", committed, {}) \/ task' = Task("backup", committed, {})
    BY <1>0, <2>3 DEF Task
  <2>4. ASSUME NEW k \in 1 .. QueueMax, PackSend(k)
        PROVE  task' = Idle \/ \E T : task' = Task("execute", task.unit, T)
    BY <2>4, Zenon DEF PackSend
  <2>5. CASE \E T : task' = Task("execute", task.unit, T)
    BY <1>0, <2>5 DEF Task, IInv, ThreadInv
  <2>6. \/ task' = Idle \/ task' = task
        \/ task' = Task("leader", committed, {}) \/ task' = Task("backup", committed, {})
        \/ \E k \in 1 .. QueueMax : PackSend(k)
    BY Zenon DEF Next, vars, Tick, Commit, Execute, push_send_tx, CheckAck, push_recv_ack_tx,
        PackConfirm, verify_confirm, verify_send, on_block_confirmed, on_timer_check_cache,
        init, clear, make_block, NoTxs, make_lightunit_output, verify_block, Restart
  <2> QED
    BY <2>1, <2>2, <2>3, <2>4, <2>5, <2>6
<1> QED
  BY <1>1, <1>2, <1>3, <1>4 DEF ThreadInv

---------------------------------------------------------------------------
(* The cache of unconfirmed sends. *)

\* A cache that is right stays so while units are committed and time passes.
LEMMA CacheAdvance ==
    ASSUME units \in Chains, clock \in Nat, committed \in Nat,
           units' = units, clock' \in Nat, clock <= clock',
           committed' \in Nat, committed <= committed', CacheOK(unconf')
    PROVE  CacheOK(unconf)'
<1>1. unconf' \in UnconfType
  BY DEF CacheOK
<1>2. RetryOK(unconf)'
  <2>1. \A t \in Tx : outdated[t] \in Nat
    BY SendAssumption
  <2> QED
    BY <2>1 DEF CacheOK, RetryOK
<1>3. Unconfirmed(unconf'.height) = Unconfirmed(unconf.height)'
  BY DEF Unconfirmed, Sent, Confirmed
<1>4. IF unconf'.has THEN /\ unconf'.height \in 1 .. committed'
                          /\ unconf'.receipts = Unconfirmed(unconf.height)'
                     ELSE unconf'.height = 0 /\ unconf'.receipts = {}
  BY <1>1, <1>3 DEF CacheOK, UnconfType
<1> QED
  BY <1>1, <1>2, <1>4 DEF CacheOK, UnconfType

LEMMA NewUnconfOK ==
    ASSUME committed \in Nat
    PROVE  CacheOK(NewUnconf)
<1>1. NewUnconf \in UnconfType
  BY DEF NewUnconf, UnconfType
<1> QED
  BY <1>1 DEF NewUnconf, CacheOK, RetryOK

LEMMA CleanRetryOK ==
    ASSUME clock \in Nat, committed \in Nat, NEW x, CacheOK(x)
    PROVE  CacheOK(CleanRetry(x))
<1> DEFINE live == [t \in Tx |-> IF clock > outdated[t] THEN 0 ELSE x.live[t]]
           y == CleanRetry(x)
<1>1. y = [x EXCEPT !.live = live, !.dead = 0]
  BY DEF CleanRetry, CacheOK, UnconfType
<1>2. live \in [Tx -> Nat] /\ \A t \in Tx : live[t] = IF clock > outdated[t] THEN 0 ELSE x.live[t]
  BY DEF CacheOK, UnconfType
<1> HIDE DEF live, y
<1>3. /\ y \in UnconfType /\ y.live = live /\ y.has = x.has /\ y.height = x.height
      /\ y.receipts = x.receipts
  BY <1>1, <1>2, Zenon DEF CacheOK, UnconfType
<1>4. RetryOK(y)
  BY <1>2, <1>3 DEF CacheOK, RetryOK
<1>5. CacheOK(y)
  BY <1>3, <1>4 DEF CacheOK
<1> QED
  BY <1>5 DEF y

LEMMA CacheStep ==
    ASSUME IInv, [Next]_vars
    PROVE  CacheOK(unconf)'
<1>0. /\ units \in Chains /\ committed \in 0 .. Len(units)
      /\ clock \in Nat /\ committed \in Nat /\ CacheOK(unconf)
  BY Numbers DEF IInv, StoreInv
<1>1. CacheOK(unconf')
  <2>1. CASE unconf' = unconf
    BY <1>0, <2>1
  <2>2. CASE \E u : unconf' = check_and_update_cache(unconf, u)
    BY <1>0, <2>2, CheckOK
  <2>3. CASE on_timer_check_cache
    BY <1>0, <2>3, CleanRetryOK DEF on_timer_check_cache
  <2>4. CASE Restart
    BY <1>0, <2>4, NewUnconfOK DEF Restart
  <2>5. \/ unconf' = unconf
        \/ \E u : unconf' = check_and_update_cache(unconf, u)
        \/ on_timer_check_cache \/ Restart
    BY Zenon DEF Next, vars, Tick, Commit, Execute, push_send_tx, CheckAck, push_recv_ack_tx,
        PackConfirm, verify_confirm, verify_send, on_block_confirmed, UpdateCommitted, init,
        clear, make_block, NoTxs, make_lightunit_output, verify_block, PackSend
  <2> QED
    BY <2>1, <2>2, <2>3, <2>4, <2>5
<1> QED
  BY <1>0, <1>1, StoreStep, CacheAdvance DEF IInv

---------------------------------------------------------------------------
(* The account's object. *)

LEMMA AcctAdvance ==
    ASSUME units' = units, committed \in Nat, committed' \in Nat, committed <= committed',
           AcctOK(acct', unchecked')
    PROVE  AcctOK(acct, unchecked)'
<1>1. acct' \in AcctType /\ QueueOK(acct'.queue, acct'.nonce, acct'.last, unchecked')
  BY DEF AcctOK
<1>2. \A m : LastSent(m)' = LastSent(m)
  BY DEF LastSent
<1>3. \A m : NonceAt(m)' = NonceAt(m)
  BY <1>2 DEF NonceAt
<1>4. Grounded(acct)'
  <2>1. CASE acct'.nonce = NoAccount.nonce
    BY <2>1 DEF Grounded
  <2>2. CASE \E m \in 0 .. committed : acct'.nonce = NonceAt(m) /\ acct'.last = LastSent(m)
    <3>1. PICK m \in 0 .. committed : acct'.nonce = NonceAt(m) /\ acct'.last = LastSent(m)
      BY <2>2
    <3>2. m \in 0 .. committed' /\ NonceAt(m)' = NonceAt(m) /\ LastSent(m)' = LastSent(m)
      BY <1>2, <1>3
    <3> QED
      BY <3>1, <3>2 DEF Grounded
  <2> QED
    BY <2>1, <2>2 DEF AcctOK, Grounded
<1> QED
  BY <1>1, <1>4 DEF AcctOK, QueueOK, AcctType

LEMMA PushSendStep ==
    ASSUME IInv, NEW t \in Tx, push_send_tx(t)
    PROVE  AcctOK(acct', unchecked')
<1> DEFINE a == Found(acct)
           b == PushSend(a, t)
           V == Unchecked(unchecked, a.queue, b.queue, t, Follows(clear_expire_txs(a), t))
<1>1. AcctOK(a, unchecked) /\ a.queue = acct.queue
  BY FoundOK DEF IInv, StoreInv
<1>2. acct' = b
  BY DEF push_send_tx
<1>3. unchecked' = V
  BY <1>1, <1>2 DEF push_send_tx, Unchecked
<1> HIDE DEF a
<1>4. /\ b \in AcctType /\ b.nonce = a.nonce /\ b.last = a.last
      /\ QueueOK(b.queue, b.nonce, b.last, V)
  BY <1>1, PushSendOK DEF AcctOK
<1> HIDE DEF b, V
<1>5. AcctOK(b, V)
  BY <1>1, <1>4 DEF AcctOK, Grounded
<1> QED
  BY <1>2, <1>3, <1>5

LEMMA UpdateCommittedStep ==
    ASSUME StoreInv, AcctOK(acct, unchecked), NEW h \in 0 .. committed,
           UpdateCommitted(h, executed)
    PROVE  AcctOK(acct', unchecked)
<1>1. CASE h = 0
  BY <1>1 DEF UpdateCommitted
<1>2. CASE h # 0
  <2>1. h \in 1 .. committed
    BY <1>2, Numbers
  <2> QED
    BY <1>2, <2>1, OnUnitOK DEF UpdateCommitted, StoreInv
<1> QED
  BY <1>1, <1>2

\* What the leader hands on extends the unit that it builds on.
LEMMA PackSendStep ==
    ASSUME IInv, NEW k \in 1 .. QueueMax, PackSend(k)
    PROVE  AcctOK(acct', unchecked) /\ PackedFits'
           /\ passed'.kind \in {"none", "send"}
<1> DEFINE a == clear_expire_txs(acct)
           n == NonceAt(task.unit)
           l == LastSent(task.unit)
           m == Min({k, Len(acct'.queue)})
           packed == IF n < acct.nonce THEN <<>> ELSE SubSeq(acct'.queue, 1, m)
<1>0. /\ units \in Chains /\ committed \in 0 .. Len(units) /\ task.unit \in 0 .. committed
      /\ acct \in AcctType
  BY DEF IInv, StoreInv, ThreadInv, AcctOK
<1>1. AcctOK(a, unchecked) /\ a.nonce = acct.nonce
  <2>1. AcctOK(a, unchecked)
    BY ShortenOK, Zenon DEF IInv, clear_expire_txs
  <2>2. a.nonce = acct.nonce
    BY <1>0, ClearExpireOK DEF clear_expire_txs
  <2> QED
    BY <2>1, <2>2, Zenon
<1>2. acct' = update_latest_send_trans_number_hash(a, n, l)
  BY DEF PackSend
<1> HIDE DEF a
<1>3. AcctOK(acct', unchecked) /\ (~(n < acct.nonce) => acct'.nonce = n /\ acct'.last = l)
  BY <1>0, <1>1, <1>2, LatestOK
<1>4. passed' = IF packed = <<>> THEN Nothing ELSE Passed("send", task.unit, packed)
  BY DEF PackSend
<1>5. units' = units /\ unchecked' = unchecked
  BY DEF PackSend
<1> HIDE DEF n, l
<1>6. packed # <<>> => packed \in Seq(Tx) /\ QueueOK(packed, n, l, unchecked)
  <2>1. SUFFICES ASSUME packed # <<>>
                 PROVE  packed \in Seq(Tx) /\ QueueOK(packed, n, l, unchecked)
    BY Zenon
  <2>2. ~(n < acct.nonce) /\ packed = SubSeq(acct'.queue, 1, m)
    BY <2>1, Zenon
  <2>3. acct'.queue \in Seq(Tx) /\ Len(acct'.queue) \in Nat
    BY <1>3, LenProperties DEF AcctOK, AcctType
  <2>4. m \in 0 .. Len(acct'.queue)
    <3>1. {k, Len(acct'.queue)} \in SUBSET Nat /\ {k, Len(acct'.queue)} # {}
      BY <2>3
    <3>2. m \in {k, Len(acct'.queue)} /\ \A y \in {k, Len(acct'.queue)} : m <= y
      BY <3>1, MinOf
    <3> HIDE DEF m
    <3> QED
      BY <2>3, <3>2
  <2>5. QueueOK(acct'.queue, n, l, unchecked)
    BY <1>3, <2>2 DEF AcctOK
  <2> HIDE DEF m, packed
  <2> QED
    BY <2>2, <2>3, <2>4, <2>5, PrefixOK
<1> HIDE DEF packed
<1>7. CASE packed = <<>>
  <2>1. passed'.kind = "none"
    BY <1>4, <1>7 DEF Nothing, Passed
  <2> QED
    BY <1>3, <2>1 DEF PackedFits
<1>8. CASE packed # <<>>
  <2>1. passed'.kind = "send" /\ passed'.unit = task.unit /\ passed'.txs = packed
    BY <1>4, <1>8 DEF Passed
  <2>2. NonceAt(passed.unit)' = n /\ LastSent(passed.unit)' = l
    BY <1>5, <2>1 DEF n, l, NonceAt, LastSent
  <2>3. PackedFits'
    BY <1>5, <1>6, <1>8, <2>1, <2>2 DEF PackedFits, QueueOK
  <2> QED
    BY <1>3, <2>1, <2>3
<1> QED
  BY <1>7, <1>8

LEMMA AcctStep ==
    ASSUME IInv, [Next]_vars
    PROVE  AcctOK(acct, unchecked)'
<1>0. /\ StoreInv /\ AcctOK(acct, unchecked) /\ acct \in AcctType
      /\ units \in Chains /\ committed \in 0 .. Len(units) /\ executed \in 0 .. committed
      /\ committed \in 0 .. committed /\ judged \subseteq Tx
  BY Numbers DEF IInv, StoreInv, ThreadInv, AcctOK
<1>1. AcctOK(acct', unchecked')
  <2>1. ASSUME NEW t \in Tx, push_send_tx(t) PROVE AcctOK(acct', unchecked')
    BY <2>1, PushSendStep
  <2>2. ASSUME NEW t \in Tx, push_recv_ack_tx(t) PROVE AcctOK(acct', unchecked')
    <3> DEFINE a == Found(acct)
               A == IF t \in Range(a.queue) THEN a.acks ELSE a.acks \cup {t}
    <3>1. AcctOK(a, unchecked) /\ a \in AcctType
      BY <1>0, FoundOK DEF AcctOK
    <3>2. acct' = [a EXCEPT !.acks = A] /\ unchecked' = unchecked
      BY <2>2, <3>1 DEF push_recv_ack_tx, AcctType
    <3> HIDE DEF a
    <3>3. A \in SUBSET Tx
      BY <3>1, Zenon DEF AcctType
    <3> HIDE DEF A
    <3>4. AcctOK([a EXCEPT !.acks = A], unchecked)
      BY <3>1, <3>3, ShortenOK, Zenon
    <3> QED
      BY <3>2, <3>4
  <2>3. CASE on_block_confirmed
    <3>1. Head(mail) \in 0 .. committed
      <4>1. mail # <<>> /\ mail \in Seq(Nat) /\ Range(mail) \subseteq 1 .. committed
        BY <1>0, <2>3 DEF on_block_confirmed, StoreInv
      <4>2. 1 \in DOMAIN mail /\ Head(mail) = mail[1]
        BY <4>1, EmptySeq, LenProperties
      <4>3. Head(mail) \in 1 .. committed
        BY <4>1, <4>2 DEF Range
      <4> QED
        BY <1>0, <4>3, Numbers
    <3>2. UpdateCommitted(Head(mail), executed) /\ unchecked' = unchecked
      BY <2>3 DEF on_block_confirmed
    <3>3. AcctOK(acct', unchecked)
      BY <1>0, <3>1, <3>2, UpdateCommittedStep
    <3> QED
      BY <3>2, <3>3
  <2>4. CASE make_block \/ verify_block
    <3>1. \/ acct' = NoAccount
          \/ UpdateCommitted(committed, executed)
      BY <2>4 DEF make_block, verify_block
    <3>2. unchecked' = unchecked
      BY <2>4 DEF make_block, verify_block
    <3>3. AcctOK(acct', unchecked)
      BY <1>0, <3>1, UpdateCommittedStep, NoAccountOK
    <3> QED
      BY <3>2, <3>3
  <2>5. CASE clear \/ Restart
    BY <2>5, NoAccountOK DEF clear, Restart
  <2>6. ASSUME NEW t \in Tx, PackConfirm(t) PROVE AcctOK(acct', unchecked')
    <3> DEFINE a == clear_expire_txs(acct)
               A == a.acks \ {t}
    <3>1. AcctOK(a, unchecked) /\ a \in AcctType
      BY <1>0, ShortenOK, Zenon DEF clear_expire_txs, AcctOK
    <3>2. (acct' = [a EXCEPT !.acks = A] \/ acct' = a) /\ unchecked' = unchecked
      BY <2>6, <3>1 DEF PackConfirm, AcctType
    <3> HIDE DEF a
    <3>3. A \in SUBSET Tx
      BY <3>1, Zenon DEF AcctType
    <3> HIDE DEF A
    <3>4. AcctOK([a EXCEPT !.acks = A], unchecked)
      BY <3>1, <3>3, ShortenOK, Zenon
    <3> QED
      BY <3>1, <3>2, <3>4, Zenon
  <2>7. ASSUME NEW k \in 1 .. QueueMax, PackSend(k) PROVE AcctOK(acct', unchecked')
    <3>1. unchecked' = unchecked
      BY <2>7 DEF PackSend
    <3> QED
      BY <2>7, <3>1, PackSendStep, Zenon
  <2>8. CASE make_lightunit_output
    <3>1. unchecked' = unchecked /\ (acct' = acct \/ \E t : acct' = PopSend(acct, t))
      BY <2>8, Zenon DEF make_lightunit_output
    <3>2. \A t : AcctOK(PopSend(acct, t), unchecked)
      BY <1>0, ShortenOK, Zenon DEF PopSend
    <3> QED
      BY <1>0, <3>1, <3>2
  <2>9. CASE acct' = acct /\ unchecked' = unchecked
    BY <1>0, <2>9
  <2>10. \/ \E t \in Tx : push_send_tx(t) \/ push_recv_ack_tx(t) \/ PackConfirm(t)
         \/ on_block_confirmed \/ make_block \/ verify_block \/ clear \/ Restart
         \/ \E k \in 1 .. QueueMax : PackSend(k)
         \/ make_lightunit_output
         \/ acct' = acct /\ unchecked' = unchecked
    BY Zenon DEF Next, vars, Tick, Commit, Execute, CheckAck, verify_confirm, verify_send,
        on_timer_check_cache, init, NoTxs
  <2> QED
    BY <2>1, <2>2, <2>3, <2>4, <2>5, <2>6, <2>7, <2>8, <2>9, <2>10
<1> QED
  BY <1>0, <1>1, StoreStep, AcctAdvance, Numbers

---------------------------------------------------------------------------
(* What the consensus thread passes. *)

\* A confirmation that is passed is of an unconfirmed send of the unit at hand.
LEMMA ConfirmStep ==
    ASSUME IInv, NEW t \in Tx, units' = units,
           \/ passed' = Nothing
           \/ /\ has_txhash_receipt(unconf, t, task.unit) = "exist"
              /\ passed' = Passed("confirm", task.unit, <<t>>)
    PROVE  PassedInv'
<1>1. CASE passed' = Nothing
  BY <1>1 DEF PassedInv, PackedFits, ConfirmedOnce, Nothing, Passed
<1>2. CASE /\ has_txhash_receipt(unconf, t, task.unit) = "exist"
           /\ passed' = Passed("confirm", task.unit, <<t>>)
  <2>1. Matches(task.unit) /\ t \in Unconfirmed(committed)
    BY <1>2, CheckOK DEF IInv, StoreInv
  <2>2. passed'.kind = "confirm" /\ passed'.unit = task.unit /\ passed'.txs = <<t>>
    BY <1>2 DEF Passed
  <2>3. Range(passed'.txs) = {t}
    BY <2>2 DEF Range
  <2>4. task.unit > 0 => t \in Unconfirmed(task.unit)
    BY <2>1 DEF Matches
  <2>5. Sent(1, passed.unit)' = Sent(1, task.unit) /\ Confirmed(1, passed.unit)' = Confirmed(1, task.unit)
    BY <2>2 DEF Sent, Confirmed
  <2>6. ConfirmedOnce'
    BY <2>2, <2>3, <2>4, <2>5 DEF ConfirmedOnce, Unconfirmed
  <2> QED
    BY <2>2, <2>6 DEF PassedInv, PackedFits
<1> QED
  BY <1>1, <1>2

LEMMA PassedStep ==
    ASSUME IInv, [Next]_vars
    PROVE  PassedInv'
<1>0. units' = units
  BY StoreStep DEF IInv
<1>1. ASSUME NEW t \in Tx, PackConfirm(t) \/ verify_confirm(t) PROVE PassedInv'
  <2>1. \/ passed' = Nothing
        \/ /\ has_txhash_receipt(unconf, t, task.unit) = "exist"
           /\ passed' = Passed("confirm", task.unit, <<t>>)
    BY <1>1 DEF PackConfirm, verify_confirm
  <2> QED
    BY <1>0, <2>1, ConfirmStep
<1>2. ASSUME NEW k \in 1 .. QueueMax, PackSend(k) PROVE PassedInv'
  <2>1. PackedFits' /\ passed'.kind \in {"none", "send"}
    BY <1>2, PackSendStep
  <2>2. ConfirmedOnce'
    BY <2>1 DEF ConfirmedOnce
  <2> QED
    BY <2>1, <2>2 DEF PassedInv
<1>3. ASSUME NEW t \in Tx, verify_send(t) PROVE PassedInv'
  <2>1. CASE passed' = Nothing
    BY <2>1 DEF PassedInv, PackedFits, ConfirmedOnce, Nothing, Passed
  <2>2. CASE /\ nonceOf[t] = NonceAt(task.unit) /\ prevOf[t] = LastSent(task.unit)
             /\ passed' = Passed("send", task.unit, <<t>>)
    <3>1. passed'.kind = "send" /\ passed'.unit = task.unit /\ passed'.txs = <<t>>
      BY <2>2 DEF Passed
    <3>2. LastSent(passed.unit)' = LastSent(task.unit)
      BY <1>0, <3>1 DEF LastSent
    <3>3. NonceAt(passed.unit)' = NonceAt(task.unit)
      BY <3>2 DEF NonceAt
    <3>4. NonceAt(task.unit) \in Nat
      BY LastSentType DEF IInv, StoreInv, ThreadInv
    <3>5. Len(passed'.txs) = 1 /\ passed'.txs[1] = t
      BY <3>1
    <3>6. PackedFits'
      BY <2>2, <3>2, <3>3, <3>4, <3>5 DEF PackedFits
    <3> QED
      BY <3>1, <3>6 DEF PassedInv, ConfirmedOnce
  <2> QED
    BY <1>3, <2>1, <2>2 DEF verify_send
<1>4. CASE passed' = Nothing
  BY <1>4 DEF PassedInv, PackedFits, ConfirmedOnce, Nothing, Passed
<1>5. CASE UNCHANGED vars
  <2>1. passed' = passed /\ unchecked' = unchecked
    BY <1>5 DEF vars
  <2>2. LastSent(passed.unit)' = LastSent(passed.unit)
    BY <1>0, <2>1 DEF LastSent
  <2>3. NonceAt(passed.unit)' = NonceAt(passed.unit)
    BY <2>2 DEF NonceAt
  <2>4. PackedFits'
    BY <2>1, <2>2, <2>3, Zenon DEF PackedFits, IInv, PassedInv
  <2>5. /\ Sent(1, passed.unit)' = Sent(1, passed.unit)
        /\ Confirmed(1, passed.unit)' = Confirmed(1, passed.unit)
    BY <1>0, <2>1 DEF Sent, Confirmed
  <2>6. ConfirmedOnce'
    BY <2>1, <2>5 DEF ConfirmedOnce, IInv, PassedInv
  <2> QED
    BY <2>1, <2>4, <2>6 DEF IInv, PassedInv
<1>6. \/ \E t \in Tx : PackConfirm(t) \/ verify_confirm(t) \/ verify_send(t)
      \/ \E k \in 1 .. QueueMax : PackSend(k)
      \/ passed' = Nothing \/ UNCHANGED vars
  BY Zenon DEF Next, Tick, Commit, Execute, push_send_tx, CheckAck, push_recv_ack_tx,
      on_block_confirmed, on_timer_check_cache, init, clear, make_block, NoTxs,
      make_lightunit_output, verify_block, Restart
<1> QED
  BY <1>1, <1>2, <1>3, <1>4, <1>5, <1>6

---------------------------------------------------------------------------
(* The theorems. *)

LEMMA InitIInv == Init => IInv
<1> SUFFICES ASSUME Init PROVE IInv
  OBVIOUS
<1>1. Len(units) \in Nat
  BY UnitsFacts DEF Init
<1>2. StoreInv
  <2>1. <<>> \in Seq(Nat) /\ Len(<<>>) = 0 /\ Range(<<>>) = {}
    BY EmptySeq DEF Range
  <2>2. MaxMail \in Nat /\ MaxClock \in Nat
    BY SendAssumption
  <2> QED
    BY <1>1, <2>1, <2>2 DEF Init, StoreInv
<1>3. ThreadInv /\ unchecked \subseteq Tx
  <2>1. task.role = "none" /\ task.unit = 0
    BY DEF Init, Idle, Task
  <2>2. covered \in BOOLEAN
    BY Zenon DEF Init
  <2>3. judged = {} /\ unchecked = {} /\ committed = 0
    BY DEF Init
  <2> QED
    BY <2>1, <2>2, <2>3 DEF ThreadInv
<1>4. PassedInv
  BY DEF Init, PassedInv, PackedFits, ConfirmedOnce, Nothing, Passed
<1>5. CacheOK(unconf)
  BY NewUnconfOK DEF Init
<1>6. AcctOK(acct, unchecked)
  BY NoAccountOK DEF Init
<1> QED
  BY <1>2, <1>3, <1>4, <1>5, <1>6 DEF IInv

LEMMA Inductive == IInv /\ [Next]_vars => IInv'
BY StoreStep, ThreadStep, CacheStep, AcctStep, PassedStep DEF IInv

LEMMA Implies ==
    ASSUME IInv
    PROVE  TypeOK /\ PackedFits /\ CacheExact /\ RetryExact /\ ConfirmedOnce
<1>1. TypeOK
  BY DEF IInv, StoreInv, ThreadInv, PassedInv, CacheOK, UnconfType, AcctOK, AcctType, TypeOK
<1>2. CacheExact
  BY DEF IInv, CacheOK, Unconfirmed, CacheExact
<1>3. RetryExact
  <2>1. RetryOK(unconf) /\ \A t \in unconf.receipts : unconf.has
    BY DEF IInv, CacheOK
  <2>2. SUFFICES ASSUME NEW t \in Tx
                 PROVE  /\ unconf.live[t] \in {0, 1}
                        /\ unconf.live[t] = 1 => unconf.has /\ t \in unconf.receipts
                        /\ t \in unconf.receipts => unconf.live[t] = 1 \/ clock > outdated[t]
    BY DEF RetryExact
  <2>3. /\ unconf.live[t] \in {0, 1}
        /\ unconf.live[t] = 1 => t \in unconf.receipts
        /\ t \in unconf.receipts => unconf.live[t] = 1 \/ clock > outdated[t]
    BY <2>1 DEF RetryOK
  <2> QED
    BY <2>1, <2>3, Zenon
<1> QED
  BY <1>1, <1>2, <1>3, Zenon DEF IInv, PassedInv

LEMMA Invariant == Spec => []IInv
BY InitIInv, Inductive, PTL DEF Spec

\* The state of the send pool is well formed; above all the count of the dead retry
\* entries (set_confirmed, on_timer_check_cache) never falls below zero.
THEOREM SendTypeCorrect == Spec => []TypeOK
BY Invariant, Implies, PTL

\* What get_send_txs hands to the leader, and what txs_validity_check_backup lets a
\* proposal send, extends the unit that is built on, as the assertions at the end of
\* get_send_txs say, but for a transaction that was let in in place of a rival.
THEOREM SendPackedFits == Spec => []PackedFits
BY Invariant, Implies, PTL

\* The cache of unconfirmed sends holds exactly the sends that are unconfirmed at its
\* height, wherever traverse_and_get_unconfirm_units began.
THEOREM SendCacheExact == Spec => []CacheExact
BY Invariant, Implies, PTL

\* The receipts to send again (m_retry_cache) are those of the cache, once each.
THEOREM SendRetryExact == Spec => []RetryExact
BY Invariant, Implies, PTL

\* A confirmation is packed or verified once, on a unit above the genesis unit.
THEOREM SendConfirmedOnce == Spec => []ConfirmedOnce
BY Invariant, Implies, PTL

============================================================================
