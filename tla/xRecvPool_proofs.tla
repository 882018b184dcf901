-------------------------- MODULE xRecvPool_proofs --------------------------
(***************************************************************************)
(* Proofs about the receiving side of the transaction pool, for every      *)
(* chain, window, mailbox size and set of receipts.  The invariant PoolInv *)
(* says that the cache is Good and Kept, that a pool in which a receipt    *)
(* waits is Ready, and that the cache of a leader at work is Caught, in    *)
(* the words of xRecvCache_proofs; LockInv says what an account without a  *)
(* lock is worth.                                                          *)
(***************************************************************************)
EXTENDS xRecvCache_proofs

---------------------------------------------------------------------------
(* The invariant. *)

StoreInv ==
    /\ clock \in Nat
    /\ stored \subseteq Height
    /\ mail \in Seq(Height) /\ Len(mail) <= MaxMail
    /\ \A i \in 1 .. Len(mail) : 1 .. mail[i] \subseteq stored

CacheInv == Good(cache, clock) /\ Kept(cache, stored)

WaitingInv == waiting \cup judged # {} => Ready(cache)

\* While the leader works on block 1 or later, its cache has all the blocks.
TaskInv ==
    /\ task.commit \in Height \cup {0}
    /\ task.role = "leader" /\ task.commit # 0 => Caught(cache, task.commit, stored)
    /\ Received(task.commit + 1 .. task.cert) = {}
    /\ ~hung

PassedInv ==
    /\ passed.receipts # {} => /\ MaxBlock(cache) = passed.commit
                               /\ passed.receipts \cap cache.seen = {}
    /\ Received(passed.commit + 1 .. passed.cert) = {}

PoolInv == StoreInv /\ CacheInv /\ WaitingInv /\ TaskInv /\ PassedInv

\* An account that is not locked has nothing in the blocks under way: those up to cert
\* that are above all that are stored.
LockInv ==
    /\ cert \in Nat
    /\ stored \subseteq Height /\ \A h \in stored : h <= cert
    /\ lock \in {"none", "free", "locked"}
    /\ lock = "free" => \A k \in Height : (\A h \in stored : h < k) /\ k <= cert => chain[k] = {}

---------------------------------------------------------------------------
(* The mailbox *)

LEMMA ConnectedFacts ==
    ASSUME NEW H
    PROVE  /\ Connected(H) \in 0 .. Len(chain)
           /\ 1 .. Connected(H) \subseteq H
           /\ \A k \in 0 .. Len(chain) : 1 .. k \subseteq H => k <= Connected(H)
<1> DEFINE S == {k \in 0 .. Len(chain) : 1 .. k \subseteq H}
<1>1. S \in SUBSET Nat /\ 0 \in S /\ \A x \in S : x <= Len(chain)
  BY ChainFacts
<1> HIDE DEF S
<1>2. \E x \in S : \A y \in S : x >= y
  BY <1>1, ChainFacts, GreatestExists, Zenon
<1>3. Max(S) \in S /\ \A y \in S : Max(S) >= y
  BY <1>2, Zenon DEF Max
<1>4. Connected(H) = Max(S)
  BY DEF Connected, S
<1>5. \A k \in S : k \in Nat
  BY <1>1
<1> QED
  BY <1>3, <1>4, <1>5 DEF S

LEMMA MinOfTwo ==
    ASSUME NEW a \in Nat, NEW b \in Nat
    PROVE  Min({a, b}) \in Nat /\ Min({a, b}) <= a /\ Min({a, b}) <= b
<1> DEFINE S == {a, b}
<1>1. \E x \in S : \A y \in S : x <= y
  BY LeastExists
<1>2. Min(S) \in S /\ \A y \in S : Min(S) <= y
  <2> HIDE DEF S
  <2> QED
    BY <1>1, Zenon DEF Min
<1> QED
  BY <1>2

LEMMA MaxOfTwo ==
    ASSUME NEW a \in Nat, NEW b \in Nat
    PROVE  Max({a, b}) \in {a, b} /\ a <= Max({a, b}) /\ b <= Max({a, b})
<1> DEFINE S == {a, b}
<1>1. \E x \in S : \A y \in S : x >= y
  OBVIOUS
<1>2. Max(S) \in S /\ \A y \in S : Max(S) >= y
  <2> HIDE DEF S
  <2> QED
    BY <1>1, Zenon DEF Max
<1> QED
  BY <1>2

\* What is posted was in the mailbox before or is between lo and hi.
LEMMA PostFacts ==
    ASSUME mail \in Seq(Height), Len(mail) <= MaxMail,
           NEW lo \in Nat, NEW hi \in Nat, 1 <= lo, lo <= hi + 1, hi <= Len(chain)
    PROVE  /\ Post(lo, hi) \in Seq(Height)
           /\ Len(Post(lo, hi)) <= MaxMail
           /\ \A i \in 1 .. Len(Post(lo, hi)) :
                 \/ \E j \in 1 .. Len(mail) : Post(lo, hi)[i] = mail[j]
                 \/ Post(lo, hi)[i] \in lo .. hi
<1> DEFINE n == Min({hi - lo + 1, MaxMail - Len(mail)})
           f == [i \in 1 .. n |-> lo + i - 1]
<1>1. /\ hi - lo + 1 \in Nat /\ MaxMail - Len(mail) \in Nat /\ Len(mail) \in Nat
      /\ MaxMail \in Nat
  BY RecvAssumption
<1>2. n \in Nat /\ n <= hi - lo + 1 /\ n <= MaxMail - Len(mail)
  BY <1>1, MinOfTwo
<1> HIDE DEF n
<1>3. \A i \in 1 .. n : lo + i - 1 \in lo .. hi /\ lo + i - 1 \in Height
  BY <1>1, <1>2, ChainFacts DEF Height
<1>4. f \in Seq(Height) /\ Len(f) = n /\ \A i \in 1 .. n : f[i] \in lo .. hi
  <2>1. f \in [1 .. n -> Height] /\ \A i \in 1 .. n : f[i] \in lo .. hi
    BY <1>3
  <2> HIDE DEF f
  <2>2. f \in Seq(Height)
    BY <1>2, <2>1, SeqDef
  <2>3. DOMAIN f = 1 .. Len(f) /\ Len(f) \in Nat /\ DOMAIN f = 1 .. n
    BY <2>1, <2>2, LenProperties
  <2>4. Len(f) = n
    <3>1. \A x : x \in 1 .. Len(f) <=> x \in 1 .. n
      BY <2>3, Zenon
    <3>2. Len(f) \in Nat
      BY <2>3
    <3>3. (n # 0 => n <= Len(f)) /\ (Len(f) # 0 => Len(f) <= n)
      BY <1>2, <3>1, <3>2
    <3> QED
      BY <1>2, <3>2, <3>3
  <2> QED
    BY <2>1, <2>2, <2>4
<1>5. Post(lo, hi) = mail \o f
  BY DEF Post, n
<1> HIDE DEF f
<1>6. /\ mail \o f \in Seq(Height) /\ Len(mail \o f) = Len(mail) + n
      /\ \A i \in 1 .. Len(mail) + n :
            (mail \o f)[i] = IF i <= Len(mail) THEN mail[i] ELSE f[i - Len(mail)]
  BY <1>4, ConcatProperties, Zenon
<1>7. ASSUME NEW i \in 1 .. Len(mail) + n
      PROVE  (\E j \in 1 .. Len(mail) : (mail \o f)[i] = mail[j]) \/ (mail \o f)[i] \in lo .. hi
  <2>1. CASE i <= Len(mail)
    <3>1. i \in 1 .. Len(mail) /\ (mail \o f)[i] = mail[i]
      BY <1>1, <1>2, <1>6, <2>1
    <3> QED
      BY <3>1
  <2>2. CASE i > Len(mail)
    <3>1. i - Len(mail) \in 1 .. n
      BY <1>1, <1>2, <2>2
    <3>2. (mail \o f)[i] = f[i - Len(mail)]
      BY <1>1, <1>2, <1>6, <2>2
    <3> QED
      BY <1>4, <3>1, <3>2
  <2>3. i <= Len(mail) \/ i > Len(mail)
    BY <1>1, <1>2
  <2> QED
    BY <2>1, <2>2, <2>3, Zenon
<1> QED
  BY <1>1, <1>2, <1>5, <1>6, <1>7

---------------------------------------------------------------------------
(* Every step keeps the invariant. *)

LEMMA NothingPassed ==
    /\ Nothing.receipts = {}
    /\ Received(Nothing.commit + 1 .. Nothing.cert) = {}
    /\ Idle.commit = 0 /\ Idle.role = "none" /\ Received(Idle.commit + 1 .. Idle.cert) = {}
BY DEF Nothing, Passed, Idle, Task, Received

\* The empty cache of a new pool.
LEMMA NewCacheGood ==
    ASSUME NEW t, NEW S
    PROVE  Good(NewCache, t) /\ Kept(NewCache, S)
<1>1. NewCache \in CacheType /\ NewCache.blocks = {} /\ NewCache.latest = 0
  BY DEF NewCache, CacheType
<1>2. MaxBlock(NewCache) \in {} \cup {0}
  BY <1>1, BlockBounds
<1> QED
  BY <1>1, <1>2 DEF Good, Sound, Kept, Interval, Covers

LEMMA InitPool == Init => PoolInv
<1>1. SUFFICES ASSUME Init PROVE PoolInv
  OBVIOUS
<1>2. StoreInv
  BY <1>1, RecvAssumption DEF Init, StoreInv
<1>3. CacheInv
  BY <1>1, NewCacheGood DEF Init, CacheInv
<1>4. WaitingInv /\ TaskInv /\ PassedInv
  BY <1>1, NothingPassed DEF Init, WaitingInv, TaskInv, PassedInv
<1> QED
  BY <1>2, <1>3, <1>4 DEF PoolInv

\* A step that changes the commitments of no thread but the cache.
LEMMA CheckedPool ==
    ASSUME PoolInv, NEW r, NEW now, NEW commit \in Height \cup {0, MaxHeight},
           cache' = Checked(cache, r, now, commit),
           UNCHANGED <<clock, stored, mail>>
    PROVE  StoreInv' /\ CacheInv' /\ (Ready(cache) => Ready(cache'))
<1>1. Good(cache, clock) /\ Kept(cache, stored) /\ stored \subseteq Height
  BY DEF PoolInv, CacheInv, StoreInv
<1>2. Good(cache', clock) /\ Grows(cache, cache')
  BY <1>1, CheckedGood, CheckedGrows
<1>3. Kept(cache', stored) /\ (Ready(cache) => Ready(cache'))
  BY <1>1, <1>2, GrowsKeeps
<1>4. StoreInv'
  BY DEF PoolInv, StoreInv
<1> QED
  BY <1>2, <1>3, <1>4 DEF CacheInv

LEMMA UpdatedPool ==
    ASSUME PoolInv, NEW h \in stored \cup {0}, UpdateCommitted(h),
           UNCHANGED <<clock, stored, judged>>
    PROVE  CacheInv' /\ WaitingInv' /\ (Ready(cache) => Ready(cache'))
<1>1. Good(cache, clock) /\ Kept(cache, stored) /\ stored \subseteq Height
  BY DEF PoolInv, CacheInv, StoreInv
<1>2. cache' = update_tx_cache(cache, h) /\ waiting' \subseteq waiting
  BY DEF UpdateCommitted
<1>3. Good(cache', clock) /\ Kept(cache', stored) /\ (Ready(cache) => Ready(cache'))
  BY <1>1, <1>2, UpdateGood
<1> QED
  BY <1>2, <1>3 DEF PoolInv, CacheInv, WaitingInv

LEMMA StepTick == ASSUME PoolInv, Tick PROVE PoolInv'
<1>1. clock \in Nat /\ clock' \in Nat /\ clock <= clock'
  BY DEF PoolInv, StoreInv, Tick
<1>2. Good(cache', clock')
  BY <1>1, GoodLater DEF PoolInv, CacheInv, Tick
<1>3. CacheInv' /\ StoreInv'
  BY <1>1, <1>2 DEF PoolInv, CacheInv, StoreInv, Tick
<1>4. WaitingInv' /\ TaskInv' /\ PassedInv'
  BY NothingPassed DEF PoolInv, WaitingInv, TaskInv, PassedInv, Tick
<1> QED
  BY <1>3, <1>4 DEF PoolInv

LEMMA StepCertify == ASSUME PoolInv, Certify PROVE PoolInv'
BY NothingPassed DEF PoolInv, StoreInv, CacheInv, WaitingInv, TaskInv, PassedInv, Certify

LEMMA StepCommit == ASSUME PoolInv, NEW h \in Height, Commit(h) PROVE PoolInv'
<1> DEFINE lo == Connected(stored) + 1
           hi == Connected(stored')
<1>1. stored' = stored \cup {h} /\ mail' = Post(lo, hi)
  BY DEF Commit
<1>2. /\ 1 .. Connected(stored) \subseteq stored /\ Connected(stored) \in 0 .. Len(chain)
      /\ 1 .. hi \subseteq stored' /\ hi \in 0 .. Len(chain)
      /\ \A k \in 0 .. Len(chain) : 1 .. k \subseteq stored' => k <= hi
  BY ConnectedFacts
<1>3. lo \in Nat /\ hi \in Nat /\ 1 <= lo /\ lo <= hi + 1 /\ hi <= Len(chain)
  <2>1. Connected(stored) <= hi
    BY <1>1, <1>2, Zenon
  <2> QED
    BY <1>2, <2>1, ChainFacts
<1>4. /\ Post(lo, hi) \in Seq(Height)
      /\ Len(Post(lo, hi)) <= MaxMail
      /\ \A i \in 1 .. Len(Post(lo, hi)) :
            (\E j \in 1 .. Len(mail) : Post(lo, hi)[i] = mail[j]) \/ Post(lo, hi)[i] \in lo .. hi
  <2> HIDE DEF lo, hi
  <2> QED
    BY <1>3, PostFacts DEF PoolInv, StoreInv
<1>5. \A x \in lo .. hi : 1 .. x \subseteq stored'
  <2>1. \A x \in lo .. hi : 1 .. x \subseteq 1 .. hi
    BY <1>3
  <2> QED
    BY <1>2, <2>1
<1> HIDE DEF lo, hi
<1>6. \A i \in 1 .. Len(mail') : 1 .. mail'[i] \subseteq stored'
  BY <1>1, <1>4, <1>5 DEF PoolInv, StoreInv
<1>7. StoreInv'
  BY <1>1, <1>4, <1>6, Zenon DEF PoolInv, StoreInv, Commit
<1>8. CacheInv'
  BY <1>1 DEF PoolInv, CacheInv, Kept, Commit
<1>9. TaskInv'
  BY <1>1 DEF PoolInv, TaskInv, Caught, Commit
<1>10. WaitingInv' /\ PassedInv'
  BY NothingPassed DEF PoolInv, WaitingInv, PassedInv, Commit
<1> QED
  BY <1>7, <1>8, <1>9, <1>10 DEF PoolInv

LEMMA StepCheckRecv ==
    ASSUME PoolInv, NEW r \in Receipt, NEW now, CheckRecv(r, now)
    PROVE  PoolInv'
<1>1. StoreInv' /\ CacheInv' /\ (Ready(cache) => Ready(cache'))
  BY CheckedPool DEF CheckRecv
<1>2. WaitingInv'
  <2>1. is_receipt_duplicated(cache, r, now, MaxHeight) = "new" => Ready(cache')
    BY NewIsReady DEF CheckRecv, PoolInv, CacheInv, StoreInv
  <2> QED
    BY <1>1, <2>1 DEF CheckRecv, PoolInv, WaitingInv
<1>3. TaskInv'
  <2>1. ASSUME task.role = "leader", task.commit # 0
        PROVE  Caught(cache', task.commit, stored)
    BY <2>1, CaughtChecked DEF CheckRecv, PoolInv, CacheInv, StoreInv, TaskInv
  <2> QED
    BY <2>1 DEF CheckRecv, PoolInv, TaskInv
<1>4. PassedInv'
  BY NothingPassed DEF CheckRecv, PassedInv
<1> QED
  BY <1>1, <1>2, <1>3, <1>4 DEF PoolInv

LEMMA StepPushRecv ==
    ASSUME PoolInv, NEW r \in Receipt, push_recv_tx(r)
    PROVE  PoolInv'
BY NothingPassed
   DEF PoolInv, StoreInv, CacheInv, WaitingInv, TaskInv, PassedInv, push_recv_tx

LEMMA StepConfirmed == ASSUME PoolInv, on_block_confirmed PROVE PoolInv'
<1> DEFINE h == Head(mail)
<1>1. /\ mail \in Seq(Height) /\ mail # <<>> /\ Len(mail) <= MaxMail /\ Len(mail) \in Nat
      /\ stored \subseteq Height /\ MaxMail \in Nat
      /\ \A i \in 1 .. Len(mail) : 1 .. mail[i] \subseteq stored
  BY RecvAssumption DEF PoolInv, StoreInv, on_block_confirmed
<1>2. Len(mail) >= 1 /\ h = mail[1] /\ h \in Height
  BY <1>1
<1>3. 1 .. h \subseteq stored /\ h \in stored
  BY <1>1, <1>2 DEF Height
<1>4. StoreInv'
  <2>1. /\ Tail(mail) \in Seq(Height) /\ Len(Tail(mail)) = Len(mail) - 1
        /\ \A i \in 1 .. Len(mail) - 1 : Tail(mail)[i] = mail[i + 1] /\ i + 1 \in 1 .. Len(mail)
    BY <1>1, <1>2
  <2>2. mail' = Tail(mail) /\ UNCHANGED <<stored, clock>>
    BY DEF on_block_confirmed
  <2> QED
    BY <1>1, <2>1, <2>2 DEF PoolInv, StoreInv
<1> HIDE DEF h
<1>5. UpdateCommitted(h) /\ UNCHANGED <<clock, stored, judged, task, hung>> /\ passed' = Nothing
  BY DEF on_block_confirmed, h
<1>6. CacheInv' /\ WaitingInv'
  BY <1>3, <1>5, UpdatedPool
<1>7. TaskInv'
  <2>1. ASSUME task.role = "leader", task.commit # 0
        PROVE  Caught(cache', task.commit, stored)
    <3>1. /\ task.commit <= cache.latest /\ 1 .. cache.latest \subseteq stored
          /\ Good(cache, clock) /\ task.commit \in Nat /\ cache.latest \in Nat
      BY <2>1, ChainFacts DEF PoolInv, TaskInv, CacheInv, Caught, Good, Sound, CacheType
    <3>2. cache' = update_tx_cache(cache, h)
      BY <1>5 DEF UpdateCommitted
    <3>3. Caught(cache', cache.latest, stored)
      BY <1>1, <1>3, <3>1, <3>2, UpdateCaught
    <3>4. cache'.latest \in Nat
      BY <1>6, ChainFacts DEF CacheInv, Good, Sound, CacheType
    <3> QED
      BY <3>1, <3>3, <3>4 DEF Caught
  <2> QED
    BY <1>5, <2>1 DEF PoolInv, TaskInv
<1> QED
  BY <1>4, <1>5, <1>6, <1>7, NothingPassed DEF PoolInv, PassedInv

LEMMA StepClear == ASSUME PoolInv, clear PROVE PoolInv'
BY NothingPassed DEF PoolInv, StoreInv, CacheInv, WaitingInv, TaskInv, PassedInv, clear

\* What the packer found when it verified the latest blocks: the blocks that are not
\* committed since are among those it looked at.
LEMMA FreeMeans ==
    ASSUME stored \subseteq Height, LockInv, on_view_fire, lock' = "free"
    PROVE  Received(Top + 1 .. cert) = {}
<1>1. CASE lock = "none"
  BY <1>1 DEF on_view_fire, update_blocks
<1>2. CASE lock = "free"
  <2>1. Top \in Nat /\ \A h \in stored : h <= Top
    BY TopKept, TopType, ChainFacts
  <2>2. \A h \in stored : h \in Nat
    BY ChainFacts
  <2>3. ASSUME NEW k \in (Top + 1 .. cert) \cap Height PROVE chain[k] = {}
    <3>1. k \in Nat /\ Top < k /\ k <= cert
      BY <2>1, ChainFacts DEF LockInv
    <3>2. \A h \in stored : h < k
      BY <2>1, <2>2, <3>1
    <3> QED
      BY <1>2, <3>1, <3>2 DEF LockInv
  <2> QED
    BY <2>3 DEF Received
<1> QED
  BY <1>1, <1>2 DEF on_view_fire

\* What a leader at work builds on is connected.
LEMMA LeaderConnected ==
    ASSUME stored \subseteq Height, LockInv, check_cert_connect
    PROVE  1 .. Top \subseteq stored
<1>1. Top \in Nat /\ Top \in stored \cup {0}
  BY TopKept, TopType, ChainFacts
<1>2. CASE Top = Connected(stored)
  BY <1>2, ConnectedFacts
<1>3. CASE cert <= 1
  <2>1. Top = 0 \/ Top = 1
    BY <1>1, <1>3 DEF LockInv
  <2> QED
    BY <1>1, <2>1
<1> QED
  BY <1>2, <1>3 DEF check_cert_connect

LEMMA StepViewFire == ASSUME PoolInv, LockInv, on_view_fire PROVE PoolInv'
<1>1. /\ stored \subseteq Height /\ Good(cache, clock) /\ Kept(cache, stored)
      /\ UpdateCommitted(Top) /\ UNCHANGED <<clock, stored, mail, judged, hung>>
  BY DEF PoolInv, StoreInv, CacheInv, on_view_fire
<1>2. Top \in stored \cup {0} /\ Top \in Height \cup {0} /\ \A h \in stored : h <= Top
  BY <1>1, TopKept, TopType
<1>3. StoreInv'
  BY <1>1 DEF PoolInv, StoreInv
<1>4. CacheInv' /\ WaitingInv'
  BY <1>1, <1>2, UpdatedPool
<1>5. ASSUME 1 .. Top \subseteq stored, Top # 0 PROVE Caught(cache', Top, stored)
  <2>1. cache.latest \in Nat /\ Top \in Nat /\ cache.latest <= Top
    BY <1>1, <1>2, <1>5, ChainFacts DEF Kept
  <2>2. 1 .. cache.latest \subseteq stored
    BY <1>5, <2>1
  <2>3. cache' = update_tx_cache(cache, Top)
    BY <1>1 DEF UpdateCommitted
  <2> QED
    BY <1>1, <1>2, <1>5, <2>2, <2>3, UpdateCaught
<1>6. TaskInv'
  <2>1. CASE task' = Idle
    BY <1>1, <2>1, NothingPassed DEF PoolInv, TaskInv
  <2>2. CASE task' = Task("leader", Top, cert) /\ lock' # "locked" /\ check_cert_connect
    <3>1. task'.commit = Top /\ task'.cert = cert
      BY <2>2 DEF Task
    <3>2. lock' \in {"free", "none"} => Received(Top + 1 .. cert) = {}
      BY <1>1, FreeMeans DEF on_view_fire, update_blocks
    <3>3. 1 .. Top \subseteq stored
      BY <1>1, <2>2, LeaderConnected
    <3>4. lock' \in {"free", "none"}
      BY <2>2 DEF LockInv, on_view_fire, update_blocks
    <3> QED
      BY <1>1, <1>2, <1>5, <3>1, <3>2, <3>3, <3>4 DEF PoolInv, TaskInv
  <2> QED
    BY <2>1, <2>2 DEF on_view_fire
<1>7. PassedInv'
  BY NothingPassed DEF on_view_fire, PassedInv
<1> QED
  BY <1>3, <1>4, <1>6, <1>7 DEF PoolInv

\* A receipt that is passed on for the block of the task.
LEMMA PassedOne ==
    ASSUME PoolInv, NEW r, NEW now,
           cache' = Checked(cache, r, now, task.commit),
           is_receipt_duplicated(cache, r, now, task.commit) = "new",
           passed' = Passed({r}, task)
    PROVE  PassedInv'
<1>1. /\ r \notin cache'.seen /\ MaxBlock(cache') = cache'.latest
      /\ task.commit \in {MaxHeight, cache'.latest}
  BY NewMeans
<1>2. task.commit # MaxHeight /\ Received(task.commit + 1 .. task.cert) = {}
  BY ChainFacts DEF PoolInv, TaskInv
<1>3. passed'.receipts = {r} /\ passed'.commit = task.commit /\ passed'.cert = task.cert
  BY DEF Passed
<1> QED
  BY <1>1, <1>2, <1>3, Zenon DEF PassedInv

LEMMA StepAccountTxs ==
    ASSUME PoolInv, NEW r \in Receipt, NEW now, get_account_txs(r, now)
    PROVE  PoolInv'
<1>1. /\ stored \subseteq Height /\ Good(cache, clock) /\ task.commit \in Height \cup {0}
      /\ cache' = Checked(cache, r, now, task.commit) /\ hung' = (cache'.seen # cache.seen)
      /\ UNCHANGED <<clock, stored, mail, judged>> /\ Ready(cache) /\ task.role = "leader"
  BY DEF PoolInv, StoreInv, CacheInv, TaskInv, WaitingInv, get_account_txs
<1>2. StoreInv' /\ CacheInv' /\ Ready(cache')
  BY <1>1, CheckedPool
<1>3. cache'.seen = cache.seen
  <2>1. CASE task.commit # 0
    BY <1>1, <2>1, CaughtChecked DEF PoolInv, TaskInv
  <2>2. CASE task.commit = 0
    <3>1. cache' \in {cache, cache_old_blocks(cache, clockOf[r])}
      BY <1>1, <2>2 DEF Checked, cache_latest_blocks
    <3>2. ~Looks(cache)
      BY <1>1, ReadyDoesNotLook DEF Good, Sound
    <3>3. cache_old_blocks(cache, clockOf[r]).seen = cache.seen
      BY <1>1, <3>2, OldBlocksGrow
    <3> QED
      BY <3>1, <3>3
  <2> QED
    BY <2>1, <2>2
<1>4. ~hung' /\ task' = Idle
  BY <1>1, <1>3, Zenon DEF get_account_txs
<1>5. TaskInv'
  BY <1>4, NothingPassed DEF TaskInv
<1>6. PassedInv'
  <2>1. CASE passed' = Nothing
    BY <2>1, NothingPassed DEF PassedInv
  <2>2. CASE /\ is_receipt_duplicated(cache, r, now, task.commit) = "new"
             /\ passed' = Passed({r}, task)
    BY <1>1, <2>2, PassedOne
  <2> QED
    BY <2>1, <2>2, Zenon DEF get_account_txs
<1>7. WaitingInv'
  BY <1>2 DEF WaitingInv
<1> QED
  BY <1>2, <1>5, <1>6, <1>7 DEF PoolInv

LEMMA StepNoTxs == ASSUME PoolInv, NoTxs PROVE PoolInv'
BY NothingPassed DEF PoolInv, StoreInv, CacheInv, WaitingInv, TaskInv, PassedInv, NoTxs

LEMMA StepProposal == ASSUME PoolInv, verify_proposal PROVE PoolInv'
<1>1. /\ stored \subseteq Height /\ UpdateCommitted(Top)
      /\ UNCHANGED <<clock, stored, mail, judged, hung>>
      /\ task' = Task("backup", Top, Top) /\ passed' = Nothing
  BY DEF PoolInv, StoreInv, verify_proposal
<1>2. Top \in stored \cup {0} /\ Top \in Height \cup {0} /\ Top \in Nat
  BY <1>1, TopKept, TopType, ChainFacts
<1>3. CacheInv' /\ WaitingInv'
  BY <1>1, <1>2, UpdatedPool
<1>4. Received(Top + 1 .. Top) = {}
  BY <1>2 DEF Received
<1>5. TaskInv'
  BY <1>1, <1>2, <1>4 DEF PoolInv, TaskInv, Task
<1>6. StoreInv' /\ PassedInv'
  BY <1>1, NothingPassed DEF PoolInv, StoreInv, PassedInv
<1> QED
  BY <1>3, <1>5, <1>6 DEF PoolInv

LEMMA StepVerifyTxs ==
    ASSUME PoolInv, NEW r \in Receipt, NEW now, verify_txs(r, now)
    PROVE  PoolInv'
<1>1. /\ cache' = Checked(cache, r, now, task.commit) /\ task.commit \in Height \cup {0}
      /\ UNCHANGED <<clock, stored, mail, judged, hung>> /\ task' = Idle
      /\ waiting' \subseteq waiting
  BY DEF PoolInv, TaskInv, verify_txs
<1>2. StoreInv' /\ CacheInv' /\ (Ready(cache) => Ready(cache'))
  BY <1>1, CheckedPool
<1>3. WaitingInv' /\ TaskInv'
  BY <1>1, <1>2, NothingPassed DEF PoolInv, WaitingInv, TaskInv
<1>4. PassedInv'
  <2>1. CASE passed' = Nothing
    BY <2>1, NothingPassed DEF PassedInv
  <2>2. CASE /\ is_receipt_duplicated(cache, r, now, task.commit) = "new"
             /\ passed' = Passed({r}, task)
    BY <1>1, <2>2, PassedOne
  <2> QED
    BY <2>1, <2>2 DEF verify_txs
<1> QED
  BY <1>2, <1>3, <1>4 DEF PoolInv

LEMMA StepNotConnected == ASSUME PoolInv, NotConnected PROVE PoolInv'
BY NothingPassed DEF PoolInv, StoreInv, CacheInv, WaitingInv, TaskInv, PassedInv, NotConnected

LEMMA StepRestart == ASSUME PoolInv, Restart PROVE PoolInv'
<1>1. StoreInv'
  BY RecvAssumption DEF PoolInv, StoreInv, Restart
<1>2. CacheInv'
  BY NewCacheGood DEF CacheInv, Restart
<1>3. WaitingInv' /\ TaskInv' /\ PassedInv'
  BY NothingPassed DEF WaitingInv, TaskInv, PassedInv, Restart
<1> QED
  BY <1>1, <1>2, <1>3 DEF PoolInv

\* The lock is kept up while no new block is certified, and given up with a new one.
LEMMA StepLock == LockInv /\ [Next]_vars => LockInv'
<1>1. SUFFICES ASSUME LockInv, [Next]_vars PROVE LockInv'
  OBVIOUS
<1>2. ASSUME UNCHANGED <<cert, stored, lock>> PROVE LockInv'
  BY <1>1, <1>2 DEF LockInv
<1>3. CASE Certify
  BY <1>1, <1>3, ChainFacts DEF LockInv, Certify
<1>4. ASSUME NEW h \in Height, Commit(h) PROVE LockInv'
  <2>1. cert \in Nat /\ h \in Nat
    BY <1>1, ChainFacts DEF LockInv
  <2>2. cert' = Max({cert, h}) /\ stored' = stored \cup {h}
    BY <1>4 DEF Commit
  <2>3. cert' \in Nat /\ cert <= cert' /\ h <= cert'
    BY <2>1, <2>2, MaxOfTwo
  <2>4. \A k \in stored' : k <= cert'
    BY <1>1, <2>1, <2>2, <2>3, ChainFacts DEF LockInv
  <2>5. CASE cert' = cert
    BY <1>1, <1>4, <2>2, <2>3, <2>4, <2>5 DEF LockInv, Commit
  <2>6. CASE cert' # cert
    BY <1>1, <1>4, <2>2, <2>3, <2>4, <2>6 DEF LockInv, Commit
  <2> QED
    BY <2>5, <2>6
<1>5. CASE on_view_fire
  <2>1. UNCHANGED <<cert, stored>> /\ lock' \in {"none", "free", "locked"}
    BY <1>1, <1>5 DEF LockInv, on_view_fire, update_blocks
  <2>2. CASE lock' = lock
    BY <1>2, <2>1, <2>2
  <2>3. CASE lock' = "free"
    <3>1. Received(Top + 1 .. cert) = {} /\ Top \in stored \cup {0} /\ Top \in Nat
      BY <1>1, <1>5, <2>3, FreeMeans, TopKept, TopType, ChainFacts DEF LockInv
    <3>2. ASSUME NEW k \in Height, \A h \in stored : h < k, k <= cert PROVE chain[k] = {}
      <4>1. k \in Nat /\ k # 0 /\ Top < k
        BY <3>1, <3>2, ChainFacts
      <4>2. k \in (Top + 1 .. cert) \cap Height
        BY <1>1, <3>1, <3>2, <4>1 DEF LockInv
      <4> QED
        BY <3>1, <4>2 DEF Received
    <3> QED
      BY <1>1, <2>1, <3>2 DEF LockInv
  <2>4. CASE lock' = "locked"
    BY <1>1, <2>1, <2>4 DEF LockInv
  <2> QED
    BY <1>5, <2>1, <2>2, <2>3, <2>4 DEF on_view_fire
<1>6. CASE Restart
  BY <1>1, <1>6 DEF LockInv, Restart
<1>7. CASE \/ Tick \/ on_block_confirmed \/ clear \/ NoTxs \/ verify_proposal \/ NotConnected
           \/ \E r \in Receipt : push_recv_tx(r)
  BY <1>2, <1>7
     DEF Tick, on_block_confirmed, clear, NoTxs, verify_proposal, NotConnected, push_recv_tx
<1>8. CASE \E r \in Receipt, now \in Recent :
              CheckRecv(r, now) \/ get_account_txs(r, now) \/ verify_txs(r, now)
  BY <1>2, <1>8 DEF CheckRecv, get_account_txs, verify_txs
<1>9. CASE UNCHANGED vars
  BY <1>2, <1>9 DEF vars
<1> QED
  BY <1>1, <1>3, <1>4, <1>5, <1>6, <1>7, <1>8, <1>9 DEF Next

LEMMA StepPool == PoolInv /\ LockInv /\ [Next]_vars => PoolInv'
<1>1. SUFFICES ASSUME PoolInv, LockInv, [Next]_vars PROVE PoolInv'
  OBVIOUS
<1>2. CASE UNCHANGED vars
  BY <1>1, <1>2 DEF PoolInv, StoreInv, CacheInv, WaitingInv, TaskInv, PassedInv, vars
<1>3. CASE Next
  BY <1>1, <1>3, StepTick, StepCertify, StepCommit, StepCheckRecv, StepPushRecv,
     StepConfirmed, StepClear, StepViewFire, StepAccountTxs, StepNoTxs, StepProposal,
     StepVerifyTxs, StepNotConnected, StepRestart DEF Next
<1> QED
  BY <1>1, <1>2, <1>3

LEMMA PoolAlways == Spec => []PoolInv
<1>1. Init => LockInv
  BY DEF Init, LockInv
<1> QED
  BY <1>1, InitPool, StepLock, StepPool, PTL DEF Spec

---------------------------------------------------------------------------
(* The theorems *)

LEMMA InvCovers ==
    ASSUME PoolInv
    PROVE  \A h \in LowestBlock .. MaxBlock(cache) : \A r \in chain[h] :
               r \in cache.seen \/ Expired(r, clock)
<1> DEFINE B == cache.blocks \ {0}
<1>1. cache \in CacheType /\ Interval(cache.blocks) /\ Covers(cache, clock)
  BY DEF PoolInv, CacheInv, Good, Sound
<1>2. B \subseteq Height /\ B \subseteq Height \cup {0}
  BY <1>1 DEF CacheType
<1>3. /\ LowestBlock \in B \cup {MaxHeight} /\ LowestBlock \in Nat
  <2> HIDE DEF B
  <2>1. Min(B \cup {MaxHeight}) \in B \cup {MaxHeight} /\ Min(B \cup {MaxHeight}) \in Nat
    BY <1>2, MinOfBlocks
  <2> QED
    BY <2>1 DEF LowestBlock, B
<1>4. MaxBlock(cache) \in cache.blocks \cup {0} /\ MaxBlock(cache) \in Height \cup {0}
  BY <1>1, BlockBounds
<1>5. SUFFICES ASSUME NEW h \in LowestBlock .. MaxBlock(cache)
               PROVE  \A r \in chain[h] : r \in cache.seen \/ Expired(r, clock)
  OBVIOUS
<1>6. MaxBlock(cache) < MaxHeight /\ MaxBlock(cache) \in Nat /\ MaxHeight \in Nat
  BY <1>4, ChainFacts
<1>7. LowestBlock \in B /\ LowestBlock # 0 /\ h \in Nat /\ LowestBlock <= h
  BY <1>2, <1>3, <1>5, <1>6, ChainFacts
<1>8. MaxBlock(cache) \in B /\ h <= MaxBlock(cache) /\ h # 0 /\ h \in Height
  BY <1>3, <1>4, <1>5, <1>6, <1>7 DEF Height
<1>9. h \in cache.blocks
  BY <1>1, <1>7, <1>8 DEF Interval
<1> QED
  BY <1>1, <1>8, <1>9 DEF Covers

\* The cache covers the blocks from its lowest to its highest, however receipts,
\* commit events, leaders, backups and restarts meet (xtransaction_recv_cache_t).
THEOREM CacheCoversTheorem == Spec => []CacheCovers
<1>1. PoolInv => CacheCovers
  BY InvCovers DEF CacheCovers
<1> QED
  BY <1>1, PoolAlways, PTL

\* A receipt that the leader packs or a backup accepts is in no block that the
\* cache reaches down to (is_receipt_duplicated, txs_validity_check_leader,
\* txs_validity_check_backup).
THEOREM PassedIsNewTheorem == Spec => []PassedIsNew
<1>1. PoolInv => PassedIsNew
  <2>1. SUFFICES ASSUME PoolInv, NEW r \in passed.receipts, NEW h \in 1 .. passed.commit,
                        r \in chain[h], ~(h < LowestBlock)
                 PROVE  Expired(r, clock)
    BY DEF PassedIsNew
  <2>2. MaxBlock(cache) = passed.commit /\ r \notin cache.seen
    BY <2>1 DEF PoolInv, PassedInv
  <2>3. LowestBlock \in Nat /\ passed.commit \in Nat
    <3>1. cache \in CacheType
      BY <2>1 DEF PoolInv, CacheInv, Good, Sound
    <3>2. cache.blocks \ {0} \subseteq Height \cup {0}
      BY <3>1 DEF CacheType
    <3>3. LowestBlock \in Nat
      BY <3>2, MinOfBlocks, Zenon DEF LowestBlock
    <3> QED
      BY <2>2, <3>1, <3>3, BlockBounds, ChainFacts
  <2>4. h \in LowestBlock .. MaxBlock(cache)
    BY <2>1, <2>2, <2>3
  <2> QED
    BY <2>1, <2>2, <2>4, InvCovers
<1> QED
  BY <1>1, PoolAlways, PTL

\* What the leader packs is in no certified block under way (is_account_lock).
THEOREM NotInFlightTheorem == Spec => []NotInFlight
<1>1. PoolInv => NotInFlight
  BY DEF PoolInv, PassedInv, NotInFlight
<1> QED
  BY <1>1, PoolAlways, PTL

\* get_account_txs never loads receipts while it holds m_table_mutex, so it never
\* waits for itself (txs_validity_check_leader, delete_committed_recv_txs).
THEOREM NeverRelocksTheorem == Spec => []NeverRelocks
<1>1. PoolInv => NeverRelocks
  BY DEF PoolInv, TaskInv, NeverRelocks
<1> QED
  BY <1>1, PoolAlways, PTL

---------------------------------------------------------------------------
(* What is well typed *)

TypeInv ==
    /\ clock \in 0 .. MaxClock
    /\ cert <= Len(chain) + 2
    /\ waiting \subseteq Receipt /\ judged \subseteq Receipt
    /\ task.role \in {"none", "leader", "backup"} /\ task.cert >= task.commit
    /\ hung \in BOOLEAN
    /\ passed.receipts \subseteq Receipt

LEMMA TypeStep ==
    ASSUME PoolInv, LockInv, TypeInv, [Next]_vars
    PROVE  TypeInv'
<1>0. /\ Len(chain) \in Nat /\ MaxClock \in Nat /\ cert \in Nat /\ stored \subseteq Height
      /\ Top \in Nat /\ Top <= cert
  BY ChainFacts, RecvAssumption, TopType, TopKept DEF LockInv
<1>1. clock' \in 0 .. MaxClock
  <2>1. (clock < MaxClock /\ clock' = clock + 1) \/ clock' = clock
    BY Zenon DEF Next, vars, Tick, Certify, Commit, CheckRecv, get_account_txs, verify_txs,
        push_recv_tx, on_block_confirmed, clear, on_view_fire, NoTxs, verify_proposal,
        NotConnected, Restart
  <2> QED
    BY <1>0, <2>1 DEF TypeInv
<1>2. cert' <= Len(chain) + 2
  <2>1. \/ Certify \/ (\E h \in Height : Commit(h)) \/ cert' = cert
    BY Zenon DEF Next, vars, Tick, CheckRecv, get_account_txs, verify_txs,
        push_recv_tx, on_block_confirmed, clear, on_view_fire, NoTxs, verify_proposal,
        NotConnected, Restart
  <2>2. CASE Certify
    BY <1>0, <2>2 DEF Certify
  <2>3. ASSUME NEW h \in Height, Commit(h) PROVE cert' <= Len(chain) + 2
    <3>1. cert' = Max({cert, h}) /\ h \in Nat /\ h <= Len(chain)
      BY <2>3, ChainFacts DEF Commit
    <3>2. cert' \in {cert, h}
      BY <1>0, <3>1, MaxOfTwo
    <3> QED
      BY <1>0, <3>1, <3>2 DEF TypeInv
  <2> QED
    BY <2>1, <2>2, <2>3 DEF TypeInv
<1>3. waiting' \subseteq Receipt /\ judged' \subseteq Receipt
  <2>1. waiting' \subseteq waiting \cup judged
    BY Zenon DEF Next, vars, Tick, Certify, Commit, CheckRecv, get_account_txs, verify_txs,
        push_recv_tx, on_block_confirmed, clear, on_view_fire, NoTxs, verify_proposal,
        NotConnected, Restart, UpdateCommitted
  <2>2. judged' \subseteq judged \cup Receipt
    BY Zenon DEF Next, vars, Tick, Certify, Commit, CheckRecv, get_account_txs, verify_txs,
        push_recv_tx, on_block_confirmed, clear, on_view_fire, NoTxs, verify_proposal,
        NotConnected, Restart
  <2> QED
    BY <2>1, <2>2 DEF TypeInv
<1>4. task'.role \in {"none", "leader", "backup"} /\ task'.cert >= task'.commit
  <2>1. \/ task' = task \/ task' = Idle
        \/ task' = Task("leader", Top, cert) \/ task' = Task("backup", Top, Top)
    BY Zenon DEF Next, vars, Tick, Certify, Commit, CheckRecv, get_account_txs, verify_txs,
        push_recv_tx, on_block_confirmed, clear, on_view_fire, NoTxs, verify_proposal,
        NotConnected, Restart
  <2>2. CASE task' = task
    BY <2>2 DEF TypeInv
  <2>3. CASE task' = Idle
    BY <2>3 DEF Idle, Task
  <2>4. CASE task' = Task("leader", Top, cert) \/ task' = Task("backup", Top, Top)
    BY <1>0, <2>4 DEF Task
  <2> QED
    BY <2>1, <2>2, <2>3, <2>4
<1>5. passed'.receipts \subseteq Receipt
  <2>1. \/ passed' = passed \/ passed' = Nothing
        \/ \E r \in Receipt : passed' = Passed({r}, task)
    BY Zenon DEF Next, vars, Tick, Certify, Commit, CheckRecv, get_account_txs, verify_txs,
        push_recv_tx, on_block_confirmed, clear, on_view_fire, NoTxs, verify_proposal,
        NotConnected, Restart
  <2> QED
    BY <2>1 DEF TypeInv, Nothing, Passed
<1>6. hung' \in BOOLEAN
  <2>1. hung' = hung \/ hung' = FALSE \/ \E r \in Receipt, now \in Recent : get_account_txs(r, now)
    BY Zenon DEF Next, vars, Tick, Certify, Commit, CheckRecv, verify_txs,
        push_recv_tx, on_block_confirmed, clear, on_view_fire, NoTxs, verify_proposal,
        NotConnected, Restart
  <2>2. ASSUME NEW r, NEW now, get_account_txs(r, now) PROVE hung' \in BOOLEAN
    <3>1. hung' = (cache'.seen # cache.seen)
      BY <2>2, Zenon DEF get_account_txs
    <3> QED
      BY <3>1, Zenon
  <2> QED
    BY <2>1, <2>2, Zenon DEF TypeInv
<1> QED
  BY <1>1, <1>2, <1>3, <1>4, <1>5, <1>6 DEF TypeInv

LEMMA TypeAlways == Spec => [](PoolInv /\ LockInv /\ TypeInv)
<1>1. Init => LockInv
  BY DEF Init, LockInv
<1>2. Init => TypeInv
  <2>1. Init => hung \in BOOLEAN
    BY Zenon DEF Init
  <2> QED
    BY <2>1, ChainFacts, RecvAssumption DEF Init, TypeInv, Idle, Task, Nothing, Passed
<1> QED
  BY <1>1, <1>2, InitPool, StepLock, StepPool, TypeStep, PTL DEF Spec

\* The state of the receive pool is well formed; above all m_max_cache_block_height
\* never exceeds m_latest_block_height, and the latest certified block is never below
\* the latest committed one.
THEOREM TypeOKTheorem == Spec => []TypeOK
<1>1. ASSUME PoolInv, LockInv, TypeInv PROVE TypeOK
  <2>1. cache \in CacheType /\ MaxBlock(cache) <= cache.latest
    BY <1>1 DEF PoolInv, CacheInv, Good, Sound
  <2>2. cert \in Top .. Len(chain) + 2
    <3>1. Top \in Nat /\ Top \in stored \cup {0} /\ cert \in Nat /\ Len(chain) \in Nat
      BY <1>1, TopType, TopKept, ChainFacts DEF LockInv
    <3> QED
      BY <1>1, <3>1 DEF LockInv, TypeInv
  <2> QED
    BY <1>1, <2>1, <2>2 DEF PoolInv, StoreInv, TaskInv, LockInv, TypeInv, CacheType, TypeOK
<1> QED
  BY <1>1, TypeAlways, PTL

---------------------------------------------------------------------------
(* What a full block store is worth *)

\* Blocks are loaded up to h where the store has them all.
LEMMA LoadUpReaches ==
    ASSUME NEW c, NEW t, Good(c, t), stored = Height, NEW h \in Height \cup {0}
    PROVE  MaxBlock(LoadUp(c, h)) >= h
<1> DEFINE d == LoadUp(c, h)
<1>1. c \in CacheType /\ d \in CacheType
  BY LoadUpSound DEF Good, Sound
<1>2. Grows(c, d) /\ (1 .. h \subseteq stored => h \in d.blocks \/ h <= MaxBlock(c))
  BY <1>1, LoadUpGrows
<1>3. 1 .. h \subseteq stored
  BY ChainFacts DEF Height
<1> HIDE DEF d
<1>4. /\ MaxBlock(d) \in Nat /\ \A b \in d.blocks : b <= MaxBlock(d)
      /\ MaxBlock(c) \in c.blocks \cup {0} /\ MaxBlock(c) \in Nat
  BY <1>1, BlockBounds, ChainFacts
<1>5. MaxBlock(c) <= MaxBlock(d)
  BY <1>2, <1>4 DEF Grows
<1>6. h \in Nat
  BY ChainFacts
<1> QED
  BY <1>2, <1>3, <1>4, <1>5, <1>6 DEF d

\* cache_latest_blocks ends at the last block.
LEMMA FullLatest ==
    ASSUME NEW c, NEW t, Good(c, t), stored = Height, NEW commit, commit = Len(chain)
    PROVE  LET d == cache_latest_blocks(c, commit)
           IN Good(d, t) /\ MaxBlock(d) = commit /\ d.latest = commit
<1> DEFINE d == cache_latest_blocks(c, commit)
<1>0. /\ commit \in Nat /\ commit < MaxHeight /\ MaxHeight \in Nat /\ commit \in Height \cup {0}
      /\ \A h \in Height \cup {0} : h \in Nat /\ h <= commit
  BY ChainFacts DEF MaxHeight, Height
<1>1. Good(d, t)
  BY <1>0, LatestBlocksGood
<1>2. CASE commit = 0
  <2>1. d = c
    BY <1>2 DEF cache_latest_blocks
  <2>2. c.latest \in Height \cup {0} /\ MaxBlock(c) \in Height \cup {0}
    BY BlockBounds DEF Good, Sound, CacheType
  <2>3. c.latest = 0 /\ MaxBlock(c) = 0
    BY <1>2, <2>2, ChainFacts DEF Height
  <2> QED
    BY <1>1, <1>2, <2>1, <2>3
<1>3. CASE commit # 0
  <2> DEFINE b == Begin(c)
             e == LoadLatest(c)
             f == LoadUp(e, commit)
  <2>1. Good(b, t) /\ Good(e, t)
    BY BeginGood, LoadLatestGood
  <2>2. b.latest \in Height \cup {0} /\ e = LoadUp(b, b.latest)
    BY <2>1 DEF Good, Sound, CacheType, LoadLatest
  <2>3. e.latest = b.latest /\ MaxBlock(e) >= b.latest
    <3> HIDE DEF b, e
    <3>1. LoadUp(b, b.latest).latest = b.latest
      BY <2>1, <2>2, LoadUpSound DEF Good
    <3>2. MaxBlock(LoadUp(b, b.latest)) >= b.latest
      BY <2>1, <2>2, LoadUpReaches
    <3> QED
      BY <2>2, <3>1, <3>2
  <2>4. MaxBlock(e) \in Nat /\ e.latest \in Height \cup {0} /\ e.latest \in Nat
    BY <1>0, <2>1, BlockBounds, Zenon DEF Good, Sound, CacheType
  <2>5. d = LoadCommit(e, commit)
    <3>1. ~(commit = MaxHeight) /\ ~(MaxBlock(e) < e.latest)
      BY <1>0, <2>3, <2>4
    <3> QED
      BY <1>3, <3>1 DEF cache_latest_blocks
  <2> HIDE DEF b, e
  <2>6. Sound(f, t) /\ f.latest = e.latest /\ MaxBlock(f) >= commit
    BY <1>0, <2>1, LoadUpSound, LoadUpReaches DEF Good
  <2>7. f \in CacheType /\ MaxBlock(f) \in Height \cup {0}
    BY <2>6, BlockBounds DEF Sound
  <2>8. MaxBlock(f) = commit
    <3> HIDE DEF f
    <3> QED
      BY <2>6, <2>7, ChainFacts DEF Height
  <2>9. d = [f EXCEPT !.latest = IF MaxBlock(f) > f.latest THEN MaxBlock(f) ELSE f.latest]
    BY <2>5, <2>7 DEF LoadCommit, CacheType
  <2> HIDE DEF f, d
  <2>10. d.blocks = f.blocks /\ d.latest = commit
    BY <1>0, <2>4, <2>6, <2>7, <2>8, <2>9 DEF CacheType
  <2>11. MaxBlock(d) = commit
    BY <2>8, <2>10 DEF MaxBlock
  <2> QED
    BY <1>1, <2>10, <2>11 DEF d
<1> QED
  BY <1>2, <1>3

\* cache_old_blocks misses no block.
LEMMA FullOld ==
    ASSUME NEW c, NEW t, Good(c, t), stored = Height
    PROVE  OldCached(c)
<1>1. SUFFICES ASSUME NEW h \in OldestWanted(c) .. MinBlock(c) - 1 PROVE h \in Height
  BY DEF OldCached
<1>2. c \in CacheType
  BY DEF Good, Sound
<1>3. OldestWanted(c) \in Nat \ {0}
  BY <1>2, OldestWantedType
<1>4. MinBlock(c) \in Nat /\ MinBlock(c) <= Len(chain) + 1 /\ Len(chain) \in Nat
  BY <1>2, BlockBounds, ChainFacts DEF CacheType, MaxHeight
<1> QED
  BY <1>1, <1>3, <1>4 DEF Height

\* Once the store has every block, no receipt is refused as not synced on the last one,
\* whatever the cache held before: is_receipt_duplicated does not get stuck.
THEOREM SyncsUpTheorem == Spec => []SyncsUp
<1>1. ASSUME PoolInv PROVE SyncsUp
  <2>1. SUFFICES ASSUME stored = Height, task.commit = Len(chain), NEW r \in Receipt,
                        is_receipt_duplicated(cache, r, clock, task.commit) = "not_synced"
                 PROVE  FALSE
    BY DEF SyncsUp
  <2> DEFINE m == task.commit
             d == cache_latest_blocks(cache, m)
             e == Checked(cache, r, clock, m)
  <2>2. Good(cache, clock) /\ m \in Nat
    BY <1>1, <2>1, ChainFacts DEF PoolInv, CacheInv
  <2>3. Good(d, clock) /\ MaxBlock(d) = m /\ d.latest = m
    BY <2>1, <2>2, FullLatest
  <2>4. OldCached(d)
    BY <2>1, <2>3, FullOld
  <2>5. LatestCached(cache, m)
    BY <2>2, <2>3, SMTT(30) DEF LatestCached
  <2>6. ~Expired(r, clock) /\ e = cache_old_blocks(d, clockOf[r])
    BY <2>1, <2>5 DEF is_receipt_duplicated, Checked
  <2>7. ~check_timer_height_trusted_section_by_left(e, m)
    BY <2>1, <2>4, <2>5, SMTT(30) DEF is_receipt_duplicated
  <2> HIDE DEF d, e, m
  <2>8. Good(e, clock) /\ Grows(d, e) /\ e.latest = m
    BY <2>1, <2>3, <2>6, OldBlocksGood, OldBlocksGrow
  <2>9. MaxBlock(e) = m
    <3>1. d \in CacheType /\ e \in CacheType /\ MaxBlock(e) <= m
      BY <2>3, <2>8 DEF Good, Sound
    <3>2. /\ MaxBlock(e) \in Nat /\ \A b \in e.blocks : b <= MaxBlock(e)
          /\ MaxBlock(d) \in d.blocks \cup {0}
      BY <3>1, BlockBounds, ChainFacts
    <3>3. m <= MaxBlock(e)
      BY <2>2, <2>3, <2>8, <3>2 DEF Grows
    <3> QED
      BY <2>2, <3>1, <3>2, <3>3
  <2> QED
    BY <2>7, <2>8, <2>9 DEF check_timer_height_trusted_section_by_left
<1> QED
  BY <1>1, PoolAlways, PTL

============================================================================
