------------------------- MODULE xSendState_proofs -------------------------
(***************************************************************************)
(* Lemmas about the two states of the sending side, as operators on them.  *)
(*                                                                         *)
(* The cache of unconfirmed sends: wherever update_cache begins, the cache *)
(* holds what is unconfirmed at the unit it ends with, each with one       *)
(* receipt to send again (CacheOK).                                        *)
(*                                                                         *)
(* The queue of an account: it stays continuous with the chain it was made *)
(* for (QueueOK), whatever leaves it, replaces a rival in it, or is packed *)
(* by someone else.                                                        *)
(***************************************************************************)
EXTENDS xSendPool, SequenceTheorems, FiniteSetTheorems, NatSets

Unit == [sends : Seq(Tx), confirms : SUBSET Tx, full : BOOLEAN]

UnconfType == [has : BOOLEAN, receipts : SUBSET Tx, height : Nat,
               live : [Tx -> Nat], dead : Nat]

\* The sends that are unconfirmed after unit h.
Unconfirmed(h) == Sent(1, h) \ Confirmed(1, h)

---------------------------------------------------------------------------
(* The units. *)

LEMMA UnitsFacts ==
    ASSUME units \in Chains
    PROVE  /\ IsChain(units)
           /\ Len(units) \in Nat
           /\ DOMAIN units = 1 .. Len(units)
           /\ \A h \in 1 .. Len(units) : /\ units[h] \in Unit
                                         /\ units[h].sends \in Seq(Tx)
                                         /\ units[h].confirms \in SUBSET Tx
<1>1. IsChain(units)
  BY SendAssumption
<1>2. units \in Seq(Unit)
  BY <1>1 DEF IsChain, Unit
<1>3. \A h \in 1 .. Len(units) : units[h] \in Unit
  BY <1>2, ElementOfSeq
<1> QED
  BY <1>1, <1>2, <1>3, LenProperties DEF Unit

\* A transaction is sent by one unit.
LEMMA SentOnce ==
    ASSUME units \in Chains,
           NEW g \in 1 .. Len(units), NEW h \in 1 .. Len(units), NEW t,
           t \in Range(units[g].sends), t \in Range(units[h].sends)
    PROVE  g = h
<1>1. PICK i \in DOMAIN units[g].sends : t = units[g].sends[i]
  BY DEF Range
<1>2. PICK j \in DOMAIN units[h].sends : t = units[h].sends[j]
  BY DEF Range
<1>3. t \in Tx
  BY UnitsFacts, RangeOfSeq
<1>4. nonceOf[t] \in Nat
  BY <1>3, SendAssumption
<1>5. g < h => nonceOf[t] < nonceOf[t]
  BY <1>1, <1>2, UnitsFacts, Zenon DEF IsChain
<1>6. h < g => nonceOf[t] < nonceOf[t]
  BY <1>1, <1>2, UnitsFacts, Zenon DEF IsChain
<1> QED
  BY <1>4, <1>5, <1>6

\* What is confirmed was sent before.
LEMMA ConfirmedWasSent ==
    ASSUME units \in Chains, NEW h \in 1 .. Len(units), NEW t \in units[h].confirms
    PROVE  \E g \in 1 .. h - 1 : t \in Range(units[g].sends)
BY UnitsFacts DEF IsChain

LEMMA SentType ==
    ASSUME units \in Chains, NEW lo \in Nat \ {0}, NEW hi \in Nat, hi <= Len(units)
    PROVE  /\ Sent(lo, hi) \in SUBSET Tx /\ IsFiniteSet(Sent(lo, hi))
           /\ Confirmed(lo, hi) \in SUBSET Tx /\ IsFiniteSet(Confirmed(lo, hi))
<1>1. Sent(lo, hi) \in SUBSET Tx
  BY UnitsFacts, RangeOfSeq DEF Sent
<1>2. Confirmed(lo, hi) \in SUBSET Tx
  BY UnitsFacts DEF Confirmed
<1> QED
  BY <1>1, <1>2, FS_Subset, SendAssumption

\* A cache that holds what is unconfirmed after unit n is brought to unit c.
LEMMA Continues ==
    ASSUME units \in Chains, NEW c \in 0 .. Len(units), NEW n \in 0 .. c
    PROVE  (Unconfirmed(n) \cup Sent(n + 1, c)) \ Confirmed(n + 1, c) = Unconfirmed(c)
<1>0. Len(units) \in Nat
  BY UnitsFacts
<1>1. ASSUME NEW t \in Unconfirmed(c)
      PROVE  t \in (Unconfirmed(n) \cup Sent(n + 1, c)) \ Confirmed(n + 1, c)
  <2>1. PICK g \in 1 .. c : t \in Range(units[g].sends)
    BY <1>1 DEF Unconfirmed, Sent
  <2>2. \A h \in 1 .. c : t \notin units[h].confirms
    BY <1>1 DEF Unconfirmed, Confirmed
  <2>3. t \notin Confirmed(n + 1, c) /\ t \notin Confirmed(1, n)
    BY <1>0, <2>2 DEF Confirmed
  <2>4. CASE g <= n
    BY <1>0, <2>1, <2>3, <2>4 DEF Unconfirmed, Sent
  <2>5. CASE g > n
    BY <1>0, <2>1, <2>3, <2>5 DEF Sent
  <2> QED
    BY <1>0, <2>4, <2>5
<1>2. ASSUME NEW t \in Unconfirmed(n), t \notin Confirmed(n + 1, c)
      PROVE  t \in Unconfirmed(c)
  BY <1>0, <1>2 DEF Unconfirmed, Sent, Confirmed
<1>3. ASSUME NEW t \in Sent(n + 1, c), t \notin Confirmed(n + 1, c)
      PROVE  t \in Unconfirmed(c)
  <2>1. PICK g \in n + 1 .. c : t \in Range(units[g].sends)
    BY <1>3 DEF Sent
  <2>2. t \in Sent(1, c)
    BY <1>0, <2>1 DEF Sent
  <2>3. SUFFICES ASSUME NEW h \in 1 .. c, t \in units[h].confirms PROVE FALSE
    BY <2>2 DEF Unconfirmed, Confirmed
  <2>4. h <= n
    BY <1>0, <1>3, <2>3 DEF Confirmed
  <2>5. PICK k \in 1 .. h - 1 : t \in Range(units[k].sends)
    BY <1>0, <2>3, ConfirmedWasSent
  <2>6. g \in 1 .. Len(units) /\ k \in 1 .. Len(units) /\ k < g
    BY <1>0, <2>1, <2>4, <2>5
  <2>7. g = k
    BY <2>1, <2>5, <2>6, SentOnce, Zenon
  <2> QED
    BY <2>6, <2>7
<1> QED
  BY <1>1, <1>2, <1>3, Zenon

\* Where all was confirmed before unit lo, a cache may begin there from nothing.
LEMMA BeginsAnew ==
    ASSUME units \in Chains, NEW c \in 0 .. Len(units), NEW lo \in 1 .. c, PrevConfirmed(lo)
    PROVE  Sent(lo, c) \ Confirmed(lo, c) = Unconfirmed(c)
<1>0. Len(units) \in Nat
  BY UnitsFacts
<1>1. Confirmed(1, lo) \subseteq Sent(1, lo - 1)
  <2>1. ASSUME NEW h \in 1 .. lo, NEW t \in units[h].confirms
        PROVE  t \in Sent(1, lo - 1)
    <3>1. PICK k \in 1 .. h - 1 : t \in Range(units[k].sends)
      BY <1>0, ConfirmedWasSent
    <3> QED
      BY <1>0, <3>1 DEF Sent
  <2> QED
    BY <2>1 DEF Confirmed
<1>2. IsFiniteSet(Sent(1, lo - 1))
  BY <1>0, SentType
<1>3. Confirmed(1, lo) = Sent(1, lo - 1)
  BY <1>1, <1>2, FS_Subset DEF PrevConfirmed
<1>4. Unconfirmed(lo - 1) \subseteq Confirmed(lo, c)
  <2>1. ASSUME NEW t \in Unconfirmed(lo - 1) PROVE t \in Confirmed(lo, c)
    <3>1. t \in Confirmed(1, lo) /\ t \notin Confirmed(1, lo - 1)
      BY <1>3 DEF Unconfirmed
    <3> QED
      BY <1>0, <3>1 DEF Confirmed
  <2> QED
    BY <2>1
<1>5. (Unconfirmed(lo - 1) \cup Sent(lo, c)) \ Confirmed(lo, c) = Unconfirmed(c)
  <2>1. lo - 1 \in 0 .. c /\ (lo - 1) + 1 = lo
    BY <1>0
  <2> QED
    BY <2>1, Continues, Zenon
<1> QED
  BY <1>4, <1>5, Zenon

---------------------------------------------------------------------------
(* The cache. *)

\* Every retry entry that is not dead is of a receipt of the account, which has no
\* other; a receipt without one is too old.
RetryOK(x) ==
    \A t \in Tx :
        /\ x.live[t] \in {0, 1}
        /\ x.live[t] = 1 => t \in x.receipts
        /\ t \in x.receipts => x.live[t] = 1 \/ clock > outdated[t]

CacheOK(x) ==
    /\ x \in UnconfType
    /\ RetryOK(x)
    /\ IF x.has THEN x.height \in 1 .. committed /\ x.receipts = Unconfirmed(x.height)
                ELSE x.height = 0 /\ x.receipts = {}

LEMMA CountType ==
    ASSUME NEW T \in SUBSET Tx
    PROVE  Cardinality(T) \in Nat
BY SendAssumption, FS_Subset, FS_CardinalityType

\* set_confirmed takes receipts of T out, and their retry entries are dead.
LEMMA SetConfirmedOK ==
    ASSUME NEW x \in UnconfType, RetryOK(x), NEW T \in SUBSET Tx
    PROVE  /\ SetConfirmed(x, T) \in UnconfType
           /\ RetryOK(SetConfirmed(x, T))
           /\ SetConfirmed(x, T).receipts = x.receipts \ T
           /\ SetConfirmed(x, T).height = x.height
<1> DEFINE y == SetConfirmed(x, T)
<1>1. Cardinality({t \in T : x.live[t] > 0}) \in Nat
  BY CountType
<1>2. y \in UnconfType
  <2> DEFINE live == [t \in Tx |-> IF t \in T /\ x.live[t] > 0 THEN x.live[t] - 1
                                                           ELSE x.live[t]]
             dead == x.dead + Cardinality({t \in T : x.live[t] > 0})
  <2>1. live \in [Tx -> Nat]
    BY DEF UnconfType
  <2>2. dead \in Nat
    BY <1>1 DEF UnconfType
  <2>3. y = [x EXCEPT !.live = live, !.dead = dead, !.receipts = x.receipts \ T]
    BY DEF SetConfirmed, UnconfType
  <2> HIDE DEF live, dead
  <2> QED
    BY <2>1, <2>2, <2>3, Zenon DEF UnconfType
<1>3. y.receipts = x.receipts \ T /\ y.height = x.height
  BY DEF UnconfType, SetConfirmed
<1>4. \A t \in Tx : y.live[t] = IF t \in T /\ x.live[t] > 0 THEN x.live[t] - 1 ELSE x.live[t]
  BY DEF UnconfType, SetConfirmed
<1>5. RetryOK(y)
  BY <1>3, <1>4 DEF RetryOK, UnconfType
<1> QED
  BY <1>2, <1>3, <1>5

LEMMA PopAllOK ==
    ASSUME NEW x \in UnconfType, RetryOK(x)
    PROVE  /\ PopAll(x) \in UnconfType
           /\ RetryOK(PopAll(x))
           /\ PopAll(x).receipts = {}
           /\ PopAll(x).height = x.height
<1>1. x.receipts \in SUBSET Tx
  BY DEF UnconfType
<1> QED
  BY <1>1, SetConfirmedOK DEF PopAll

LEMMA ClearOK ==
    ASSUME NEW x, CacheOK(x)
    PROVE  CacheOK(clear_account_cache(x))
<1> DEFINE y == PopAll(x)
           z == clear_account_cache(x)
<1>1. y \in UnconfType /\ RetryOK(y) /\ y.receipts = {}
  BY PopAllOK DEF CacheOK
<1>2. /\ z \in UnconfType /\ z.has = FALSE /\ z.height = 0
      /\ z.receipts = y.receipts /\ z.live = y.live
  <2>1. z = [y EXCEPT !.has = FALSE, !.height = 0]
    BY DEF clear_account_cache
  <2> HIDE DEF y, z
  <2> QED
    BY <1>1, <2>1, Zenon DEF UnconfType
<1> QED
  BY <1>1, <1>2 DEF CacheOK, RetryOK

\* push_receipt for sends that have no receipt yet.
LEMMA PushReceiptsOK ==
    ASSUME units \in Chains, committed \in 1 .. Len(units),
           NEW x \in UnconfType, RetryOK(x), NEW lo \in 1 .. committed,
           x.receipts \cap Sent(lo, committed) = {}
    PROVE  /\ PushReceipts(x, lo) \in UnconfType
           /\ RetryOK(PushReceipts(x, lo))
           /\ PushReceipts(x, lo).receipts = x.receipts \cup Sent(lo, committed)
<1> DEFINE y == PushReceipts(x, lo)
           S == Sent(lo, committed)
<1>0. Len(units) \in Nat
  BY UnitsFacts
<1>1. S \in SUBSET Tx
  BY <1>0, SentType
<1> HIDE DEF S
<1> DEFINE live == [t \in Tx |-> IF t \in S THEN x.live[t] + 1 ELSE x.live[t]]
<1>2. y = [x EXCEPT !.receipts = x.receipts \cup S, !.live = live]
  BY DEF PushReceipts, S, UnconfType
<1>3. y \in UnconfType /\ y.receipts = x.receipts \cup S /\ y.live = live
  <2>1. live \in [Tx -> Nat]
    BY DEF UnconfType
  <2> HIDE DEF live
  <2> QED
    BY <1>1, <1>2, <2>1, Zenon DEF UnconfType
<1>4. \A t \in Tx : y.live[t] = IF t \in S THEN x.live[t] + 1 ELSE x.live[t]
  BY <1>3
<1>5. x.receipts \cap S = {}
  BY DEF S
<1>6. RetryOK(y)
  BY <1>3, <1>4, <1>5 DEF RetryOK, UnconfType
<1> QED
  BY <1>3, <1>6 DEF S

\* traverse_and_get_unconfirm_units ends at a unit that the cache continues with, or
\* before which all is confirmed.
LEMMA BeginUnitFact ==
    ASSUME committed \in Nat \ {0}, NEW x \in UnconfType
    PROVE  /\ BeginUnit(x) \in 1 .. committed
           /\ PrevConfirmed(BeginUnit(x)) \/ BeginUnit(x) <= x.height + 1
           /\ x.height < committed => BeginUnit(x) >= x.height + 1
<1> DEFINE H == {h \in 1 .. committed : PrevConfirmed(h) \/ h <= x.height + 1}
<1>1. x.height \in Nat
  BY DEF UnconfType
<1>2. H \in SUBSET Nat /\ 1 \in H /\ \A h \in H : h <= committed
  BY <1>1
<1>3. x.height < committed => x.height + 1 \in H
  BY <1>1
<1>4. BeginUnit(x) = Max(H)
  BY DEF BeginUnit
<1>5. BeginUnit(x) \in H /\ \A y \in H : BeginUnit(x) >= y
  <2> HIDE DEF H
  <2> QED
    BY <1>2, <1>4, MaxOf
<1> QED
  BY <1>3, <1>5

\* No send of a later unit is in a cache of unit n.
LEMMA LaterSendsNew ==
    ASSUME units \in Chains, NEW c \in 0 .. Len(units), NEW n \in 0 .. c
    PROVE  Unconfirmed(n) \cap Sent(n + 1, c) = {}
<1>0. Len(units) \in Nat
  BY UnitsFacts
<1>1. SUFFICES ASSUME NEW t \in Unconfirmed(n), t \in Sent(n + 1, c) PROVE FALSE
  OBVIOUS
<1>2. PICK g \in 1 .. n : t \in Range(units[g].sends)
  BY <1>1 DEF Unconfirmed, Sent
<1>3. PICK h \in n + 1 .. c : t \in Range(units[h].sends)
  BY <1>1 DEF Sent
<1>4. g \in 1 .. Len(units) /\ h \in 1 .. Len(units) /\ g < h
  BY <1>0
<1>5. g = h
  BY <1>2, <1>3, <1>4, SentOnce, Zenon
<1> QED
  BY <1>4, <1>5

\* What update_cache keeps of the cache, before it pushes the sends from unit lo on.
KeptBefore(x) == IF x.height # 0 /\ BeginUnit(x) > x.height + 1 THEN PopAll(x) ELSE x

LEMMA KeptOK ==
    ASSUME units \in Chains, committed \in 1 .. Len(units),
           NEW x, CacheOK(x), x.height # committed
    PROVE  LET y == KeptBefore(x)
               lo == BeginUnit(x)
           IN  /\ y \in UnconfType /\ RetryOK(y)
               /\ y.receipts \cap Sent(lo, committed) = {}
               /\ (y.receipts \cup Sent(lo, committed)) \ Confirmed(lo, committed)
                    = Unconfirmed(committed)
<1> DEFINE y == KeptBefore(x)
           lo == BeginUnit(x)
           c == committed
<1>0. Len(units) \in Nat /\ c \in Nat \ {0} /\ c <= Len(units) /\ c \in 0 .. Len(units)
  BY UnitsFacts
<1>1. /\ x \in UnconfType /\ RetryOK(x) /\ x.height \in Nat /\ x.height < c
      /\ x.height = 0 => x.receipts = {}
      /\ x.height # 0 => x.receipts = Unconfirmed(x.height)
  BY <1>0 DEF CacheOK, UnconfType
<1>2. /\ lo \in 1 .. c
      /\ PrevConfirmed(lo) \/ lo <= x.height + 1
      /\ lo >= x.height + 1
  BY <1>0, <1>1, BeginUnitFact
<1> HIDE DEF lo
<1>3. CASE lo > x.height + 1
  <2>1. PrevConfirmed(lo)
    BY <1>1, <1>2, <1>3
  <2>2. y \in UnconfType /\ RetryOK(y) /\ y.receipts = {}
    BY <1>1, <1>3, PopAllOK DEF KeptBefore, lo
  <2>3. Sent(lo, c) \ Confirmed(lo, c) = Unconfirmed(c)
    BY <1>0, <1>2, <2>1, BeginsAnew
  <2> QED
    BY <2>2, <2>3 DEF lo
<1>4. CASE lo <= x.height + 1
  <2>1. lo = x.height + 1 /\ x.height \in 0 .. c
    BY <1>0, <1>1, <1>2, <1>4
  <2>2. y = x
    BY <1>1, <1>4, <1>2 DEF KeptBefore, lo
  <2>3. x.receipts = Unconfirmed(x.height)
    BY <1>1 DEF Unconfirmed, Sent
  <2>4. x.receipts \cap Sent(lo, c) = {}
    BY <1>0, <2>1, <2>3, LaterSendsNew
  <2>5. (x.receipts \cup Sent(lo, c)) \ Confirmed(lo, c) = Unconfirmed(c)
    BY <1>0, <2>1, <2>3, Continues
  <2> QED
    BY <1>1, <2>2, <2>4, <2>5 DEF lo
<1> QED
  BY <1>1, <1>2, <1>3, <1>4

\* The cache is brought to the latest unit.
LEMMA UpdateOK ==
    ASSUME units \in Chains, committed \in 1 .. Len(units),
           NEW x, CacheOK(x), x.height # committed
    PROVE  /\ CacheOK(update_cache(x))
           /\ update_cache(x).receipts = Unconfirmed(committed)
<1> DEFINE lo == BeginUnit(x)
           y == KeptBefore(x)
           z == PushReceipts(y, lo)
           T == z.receipts \cap Confirmed(lo, committed)
           w == SetConfirmed(z, T)
           u == update_cache(x)
<1>0. Len(units) \in Nat /\ committed \in Nat \ {0}
  BY UnitsFacts
<1>1. lo \in 1 .. committed
  BY <1>0, BeginUnitFact DEF CacheOK
<1>2. /\ y \in UnconfType /\ RetryOK(y)
      /\ y.receipts \cap Sent(lo, committed) = {}
      /\ (y.receipts \cup Sent(lo, committed)) \ Confirmed(lo, committed)
            = Unconfirmed(committed)
  BY KeptOK
<1>3. u = [w EXCEPT !.has = TRUE, !.height = committed]
  BY DEF update_cache, KeptBefore
<1> HIDE DEF lo, y
<1>4. /\ z \in UnconfType /\ RetryOK(z)
      /\ z.receipts = y.receipts \cup Sent(lo, committed)
  BY <1>1, <1>2, PushReceiptsOK
<1> HIDE DEF z
<1>5. T \in SUBSET Tx
  BY <1>4 DEF UnconfType
<1>6. w \in UnconfType /\ RetryOK(w) /\ w.receipts = z.receipts \ T
  BY <1>4, <1>5, SetConfirmedOK
<1>7. w.receipts = Unconfirmed(committed)
  BY <1>2, <1>4, <1>6, Zenon
<1> HIDE DEF w, u
<1>8. /\ u \in UnconfType /\ u.has = TRUE /\ u.height = committed
      /\ u.receipts = w.receipts /\ u.live = w.live
  BY <1>0, <1>3, <1>6, Zenon DEF UnconfType
<1>9. RetryOK(u)
  BY <1>6, <1>8 DEF RetryOK
<1> QED
  BY <1>0, <1>7, <1>8, <1>9 DEF CacheOK, u

\* check_and_update_cache keeps the cache right, and where it says that a receipt
\* exists, the cache holds what is unconfirmed after the latest unit.
LEMMA CheckOK ==
    ASSUME units \in Chains, committed \in 0 .. Len(units),
           NEW x, CacheOK(x), NEW unit
    PROVE  /\ CacheOK(check_and_update_cache(x, unit))
           /\ \A t : has_txhash_receipt(x, t, unit) = "exist" =>
                        Matches(unit) /\ t \in Unconfirmed(committed)
<1> DEFINE u == check_and_update_cache(x, unit)
<1>0. Len(units) \in Nat
  BY UnitsFacts
<1>1. CASE StateBehind \/ ~Matches(unit)
  BY <1>1 DEF check_and_update_cache, has_txhash_receipt
<1>2. CASE ~StateBehind /\ Matches(unit) /\ NoneUnconfirmed
  BY <1>2, ClearOK DEF check_and_update_cache, has_txhash_receipt
<1>3. CASE ~StateBehind /\ Matches(unit) /\ ~NoneUnconfirmed
  <2>1. committed \in 1 .. Len(units)
    BY <1>0, <1>3 DEF StateBehind
  <2>2. CASE x.height = committed
    <3>1. u = x
      BY <1>3, <2>2 DEF check_and_update_cache
    <3>2. x.receipts = Unconfirmed(committed)
      BY <1>0, <2>1, <2>2 DEF CacheOK
    <3> QED
      BY <1>3, <3>1, <3>2 DEF has_txhash_receipt
  <2>3. CASE x.height # committed
    <3>1. u = update_cache(x)
      BY <1>3, <2>3 DEF check_and_update_cache
    <3>2. CacheOK(u) /\ u.receipts = Unconfirmed(committed)
      BY <2>1, <2>3, <3>1, UpdateOK
    <3> QED
      BY <1>3, <3>2 DEF has_txhash_receipt
  <2> QED
    BY <2>2, <2>3
<1> QED
  BY <1>1, <1>2, <1>3

---------------------------------------------------------------------------
(* The account's object. *)

AcctType == [nonce : Int, last : Tx \cup {NoTx}, queue : Seq(Tx), acks : SUBSET Tx]

\* The queue q is continuous with a chain whose next nonce is n and whose last send is
\* l: the nonces have no gap, and each transaction names the one before it, but for
\* those of U.
QueueOK(q, n, l, U) ==
    \A i \in 1 .. Len(q) :
        /\ nonceOf[q[i]] = n + i - 1
        /\ q[i] \in U \/ prevOf[q[i]] = IF i = 1 THEN l ELSE q[i - 1]

---------------------------------------------------------------------------
(* The queue. *)

LEMMA NonceType ==
    ASSUME NEW q \in Seq(Tx), NEW i \in 1 .. Len(q)
    PROVE  q[i] \in Tx /\ nonceOf[q[i]] \in Nat
BY ElementOfSeq, SendAssumption, Zenon

LEMMA FirstFact ==
    ASSUME NEW q \in Seq(Tx), NEW S
    PROVE  /\ First(q, S) \in 1 .. Len(q) + 1
           /\ \A i \in 1 .. First(q, S) - 1 : q[i] \notin S
           /\ First(q, S) <= Len(q) => q[First(q, S)] \in S
<1> DEFINE I == {i \in 1 .. Len(q) : q[i] \in S} \cup {Len(q) + 1}
<1>0. Len(q) \in Nat
  BY LenProperties
<1>1. I \in SUBSET Nat /\ I # {}
  BY <1>0
<1>2. First(q, S) = Min(I)
  BY DEF First
<1>3. First(q, S) \in I /\ \A i \in I : First(q, S) <= i
  <2> HIDE DEF I
  <2> QED
    BY <1>1, <1>2, MinOf
<1> QED
  BY <1>0, <1>3

LEMMA PrefixOK ==
    ASSUME NEW q \in Seq(Tx), NEW m \in 0 .. Len(q)
    PROVE  /\ SubSeq(q, 1, m) \in Seq(Tx)
           /\ Len(SubSeq(q, 1, m)) = m
           /\ \A i \in 1 .. m : SubSeq(q, 1, m)[i] = q[i]
           /\ \A n, l, U : QueueOK(q, n, l, U) => QueueOK(SubSeq(q, 1, m), n, l, U)
<1>0. Len(q) \in Nat /\ m \in Int
  BY LenProperties
<1>1. \A i \in 1 .. m : q[i] \in Tx
  BY <1>0, ElementOfSeq
<1> DEFINE p == SubSeq(q, 1, m)
<1>2. /\ p \in Seq(Tx)
      /\ Len(p) = IF 1 <= m THEN m - 1 + 1 ELSE 0
      /\ \A i \in 1 .. m - 1 + 1 : p[i] = q[1 + i - 1]
  BY <1>0, <1>1, SubSeqProperties
<1>3. Len(p) = m /\ \A i \in 1 .. m : p[i] = q[i]
  BY <1>0, <1>2
<1> HIDE DEF p
<1>4. ASSUME NEW n, NEW l, NEW U, QueueOK(q, n, l, U)
      PROVE  QueueOK(p, n, l, U)
  <2>1. SUFFICES ASSUME NEW i \in 1 .. m
                 PROVE  /\ nonceOf[p[i]] = n + i - 1
                        /\ p[i] \in U \/ prevOf[p[i]] = IF i = 1 THEN l ELSE p[i - 1]
    BY <1>3 DEF QueueOK
  <2>2. i \in 1 .. Len(q) /\ (i # 1 => i - 1 \in 1 .. m)
    BY <1>0
  <2>3. p[i] = q[i] /\ (i # 1 => p[i - 1] = q[i - 1])
    BY <1>3, <2>2
  <2> QED
    BY <1>4, <2>2, <2>3 DEF QueueOK
<1> QED
  BY <1>2, <1>3, <1>4 DEF p

\* What is taken off the end leaves a continuous queue.
LEMMA BeforeOK ==
    ASSUME NEW q \in Seq(Tx), NEW S
    PROVE  /\ Before(q, S) \in Seq(Tx)
           /\ Len(Before(q, S)) = First(q, S) - 1
           /\ \A i \in 1 .. First(q, S) - 1 : Before(q, S)[i] = q[i]
           /\ \A n, l, U : QueueOK(q, n, l, U) => QueueOK(Before(q, S), n, l, U)
<1>1. First(q, S) - 1 \in 0 .. Len(q)
  BY FirstFact, LenProperties
<1> QED
  BY <1>1, PrefixOK DEF Before

\* A transaction whose nonce is not below those of the queue goes to its end.
LEMMA InsertEnd ==
    ASSUME NEW q \in Seq(Tx), NEW t \in Tx,
           \A i \in 1 .. Len(q) : nonceOf[q[i]] <= nonceOf[t]
    PROVE  Insert(q, t) \in {q, Append(q, t)}
<1> DEFINE later == {u \in Tx : nonceOf[u] > nonceOf[t]}
           f == First(q, later)
<1>0. Len(q) \in Nat /\ nonceOf[t] \in Nat
  BY LenProperties, SendAssumption
<1>1. f \in 1 .. Len(q) + 1 /\ (f <= Len(q) => q[f] \in later)
  BY FirstFact
<1>2. f = Len(q) + 1
  <2>1. SUFFICES ASSUME f <= Len(q) PROVE FALSE
    BY <1>0, <1>1
  <2>2. f \in 1 .. Len(q)
    BY <1>0, <1>1, <2>1
  <2>3. nonceOf[q[f]] \in Nat /\ nonceOf[q[f]] > nonceOf[t] /\ nonceOf[q[f]] <= nonceOf[t]
    BY <1>1, <2>1, <2>2, NonceType
  <2> QED
    BY <1>0, <2>3
<1>3. Before(q, later) = q
  <2>1. f - 1 = Len(q)
    BY <1>0, <1>2
  <2> QED
    BY <2>1, SubSeqFull DEF Before
<1>4. From(q, later) = <<>>
  <2>1. f \in Int /\ Len(q) \in Int /\ Len(q) < f
    BY <1>0, <1>2
  <2> HIDE DEF f
  <2>2. SubSeq(q, f, Len(q)) = <<>>
    BY <2>1, SubSeqEmpty
  <2> QED
    BY <2>2 DEF From, f
<1>5. Insert(q, t) \in {q, q \o <<t>> \o <<>>}
  BY <1>3, <1>4, Zenon DEF Insert
<1>6. q \o <<t>> \in Seq(Tx) /\ q \o <<t>> = Append(q, t)
  BY AppendIsConcat, AppendProperties
<1>7. q \o <<t>> \o <<>> = q \o <<t>>
  BY <1>6, ConcatEmptySeq
<1> QED
  BY <1>5, <1>6, <1>7

\* It may do so where its nonce is the next one and it is let in by name or unchecked.
LEMMA AppendOK ==
    ASSUME NEW q \in Seq(Tx), NEW t \in Tx, NEW n \in Int, NEW l, NEW U, NEW V,
           QueueOK(q, n, l, U),
           \A i \in 1 .. Len(q) : q[i] \in U => q[i] \in V,
           nonceOf[t] = n + Len(q),
           t \in V \/ prevOf[t] = IF q = <<>> THEN l ELSE Last(q)
    PROVE  Insert(q, t) \in Seq(Tx) /\ QueueOK(Insert(q, t), n, l, V)
<1>0. Len(q) \in Nat /\ (q = <<>> => Len(q) = 0) /\ (q # <<>> => Len(q) # 0)
  BY EmptySeq, LenProperties
<1>1. \A i \in 1 .. Len(q) : nonceOf[q[i]] = n + i - 1
  BY DEF QueueOK
<1>2. \A i \in 1 .. Len(q) : nonceOf[q[i]] <= nonceOf[t]
  BY <1>0, <1>1
<1>3. QueueOK(q, n, l, V)
  BY DEF QueueOK
<1> DEFINE r == Append(q, t)
<1>4. /\ r \in Seq(Tx) /\ Len(r) = Len(q) + 1
      /\ \A i \in 1 .. Len(q) : r[i] = q[i]
      /\ r[Len(q) + 1] = t
  BY AppendProperties
<1>5. Insert(q, t) \in {q, r}
  BY <1>2, InsertEnd
<1> HIDE DEF r
<1>6. QueueOK(r, n, l, V)
  <2>1. SUFFICES ASSUME NEW i \in 1 .. Len(r)
                 PROVE  /\ nonceOf[r[i]] = n + i - 1
                        /\ r[i] \in V \/ prevOf[r[i]] = IF i = 1 THEN l ELSE r[i - 1]
    BY DEF QueueOK
  <2>2. CASE i <= Len(q)
    <3>1. i \in 1 .. Len(q) /\ (i # 1 => i - 1 \in 1 .. Len(q))
      BY <1>0, <1>4, <2>2
    <3>2. r[i] = q[i] /\ (i # 1 => r[i - 1] = q[i - 1])
      BY <1>4, <3>1
    <3> QED
      BY <1>3, <3>1, <3>2 DEF QueueOK
  <2>3. CASE i = Len(q) + 1
    <3>1. r[i] = t /\ nonceOf[t] = n + i - 1
      BY <1>0, <1>4, <2>3
    <3>2. i # 1 => q # <<>> /\ r[i - 1] = Last(q)
      BY <1>0, <1>4, <2>3 DEF Last
    <3>3. i = 1 => q = <<>>
      BY <1>0, <2>3
    <3> QED
      BY <3>1, <3>2, <3>3
  <2> QED
    BY <1>0, <1>4, <2>2, <2>3
<1> QED
  BY <1>3, <1>4, <1>5, <1>6

---------------------------------------------------------------------------
(* The last send of the chain. *)

LEMMA LastSentFact ==
    ASSUME units \in Chains, NEW m \in 0 .. Len(units)
    PROVE  /\ NonceAt(m) \in Nat
           /\ \/ LastSent(m) = NoTx /\ NonceAt(m) = 0
              \/ \E h \in 1 .. Len(units) :
                    /\ Len(units[h].sends) \in DOMAIN units[h].sends
                    /\ LastSent(m) = units[h].sends[Len(units[h].sends)]
                    /\ LastSent(m) \in Tx
                    /\ NonceAt(m) = nonceOf[LastSent(m)] + 1
                    /\ nonceOf[LastSent(m)] \in Nat
<1> DEFINE S == {k \in 1 .. m : units[k].sends # <<>>}
<1>0. Len(units) \in Nat /\ m \in Nat
  BY UnitsFacts
<1>1. CASE S = {}
  BY <1>1 DEF LastSent, NonceAt
<1>2. CASE S # {}
  <2>1. S \in SUBSET Nat /\ \A k \in S : k <= m
    BY <1>0
  <2> DEFINE h == Max(S)
  <2>2. h \in S
    <3> HIDE DEF S
    <3> QED
      BY <1>0, <1>2, <2>1, MaxOf, Zenon
  <2>3. LastSent(m) = Last(units[h].sends)
    BY <1>2 DEF LastSent
  <2> HIDE DEF h
  <2>4. h \in 1 .. Len(units) /\ units[h].sends # <<>>
    BY <1>0, <2>2
  <2>5. units[h].sends \in Seq(Tx)
    BY <2>4, UnitsFacts
  <2>6. Len(units[h].sends) \in 1 .. Len(units[h].sends)
    BY <2>4, <2>5, EmptySeq
  <2>7. LastSent(m) = units[h].sends[Len(units[h].sends)]
    BY <2>3 DEF Last
  <2>8. LastSent(m) \in Tx
    BY <2>5, <2>6, <2>7, ElementOfSeq
  <2>9. nonceOf[LastSent(m)] \in Nat /\ NonceAt(m) = nonceOf[LastSent(m)] + 1
    BY <2>8, SendAssumption DEF NonceAt
  <2>10. Len(units[h].sends) \in DOMAIN units[h].sends
    BY <2>5, <2>6, LenProperties
  <2> QED
    BY <2>4, <2>7, <2>8, <2>9, <2>10
<1> QED
  BY <1>1, <1>2

\* The nonce of the account tells its last send.
LEMMA SameNonce ==
    ASSUME units \in Chains, NEW m \in 0 .. Len(units), NEW n \in 0 .. Len(units),
           NonceAt(m) = NonceAt(n)
    PROVE  LastSent(m) = LastSent(n)
<1>1. CASE NonceAt(m) = 0
  <2>1. LastSent(m) = NoTx
    BY <1>1, LastSentFact
  <2>2. NonceAt(n) = 0
    BY <1>1
  <2>3. LastSent(n) = NoTx
    BY <2>2, LastSentFact
  <2> QED
    BY <2>1, <2>3
<1>2. CASE NonceAt(m) # 0
  <2>1. PICK g \in 1 .. Len(units) :
            /\ Len(units[g].sends) \in DOMAIN units[g].sends
            /\ LastSent(m) = units[g].sends[Len(units[g].sends)]
            /\ NonceAt(m) = nonceOf[LastSent(m)] + 1 /\ nonceOf[LastSent(m)] \in Nat
    BY <1>2, LastSentFact, Zenon
  <2>2. PICK h \in 1 .. Len(units) :
            /\ Len(units[h].sends) \in DOMAIN units[h].sends
            /\ LastSent(n) = units[h].sends[Len(units[h].sends)]
            /\ NonceAt(n) = nonceOf[LastSent(n)] + 1 /\ nonceOf[LastSent(n)] \in Nat
    BY <1>2, LastSentFact
  <2>3. nonceOf[LastSent(m)] = nonceOf[LastSent(n)]
    <3>1. nonceOf[LastSent(m)] + 1 = nonceOf[LastSent(n)] + 1
      BY <2>1, <2>2, Zenon
    <3>2. nonceOf[LastSent(m)] \in Nat /\ nonceOf[LastSent(n)] \in Nat
      BY <2>1, <2>2
    <3> QED
      BY <3>1, <3>2
  <2>4. g \in DOMAIN units /\ h \in DOMAIN units /\ g \in Nat /\ h \in Nat
    BY UnitsFacts
  <2>5. /\ g < h => nonceOf[LastSent(m)] < nonceOf[LastSent(n)]
        /\ h < g => nonceOf[LastSent(n)] < nonceOf[LastSent(m)]
    BY <2>1, <2>2, <2>4, UnitsFacts, Zenon DEF IsChain
  <2>6. g = h
    BY <2>1, <2>2, <2>3, <2>4, <2>5
  <2> QED
    BY <2>1, <2>2, <2>6
<1> QED
  BY <1>1, <1>2

---------------------------------------------------------------------------
(* The account's object. *)

LEMMA ClearExpireOK ==
    ASSUME NEW a \in AcctType, NEW S
    PROVE  LET b == [a EXCEPT !.queue = Before(@, S)]
           IN /\ b \in AcctType
              /\ b.nonce = a.nonce /\ b.last = a.last /\ b.acks = a.acks
              /\ b.queue = Before(a.queue, S)
              /\ \A U : QueueOK(a.queue, a.nonce, a.last, U)
                            => QueueOK(b.queue, b.nonce, b.last, U)
<1> DEFINE b == [a EXCEPT !.queue = Before(@, S)]
<1>1. a.queue \in Seq(Tx)
  BY DEF AcctType
<1>2. Before(a.queue, S) \in Seq(Tx)
  BY <1>1, BeforeOK
<1>3. /\ b \in AcctType
      /\ b.nonce = a.nonce /\ b.last = a.last /\ b.acks = a.acks
      /\ b.queue = Before(a.queue, S)
  BY <1>2 DEF AcctType
<1>4. \A U : QueueOK(a.queue, a.nonce, a.last, U) => QueueOK(b.queue, b.nonce, b.last, U)
  <2> HIDE DEF b
  <2> QED
    BY <1>1, <1>3, BeforeOK
<1> QED
  BY <1>3, <1>4

\* The nonce of the account rises to n: what the chain has sent leaves, and so does the
\* rest where it does not continue the chain.
RaisedOK(a, b, n, l, U) ==
    /\ b \in AcctType
    /\ n <= a.nonce => b = a
    /\ ~(n <= a.nonce) => b.nonce = n /\ b.last = l
    /\ QueueOK(b.queue, b.nonce, b.last, U)

LEMMA UpdateLatestOK ==
    ASSUME NEW a \in AcctType, NEW U, QueueOK(a.queue, a.nonce, a.last, U),
           NEW n \in Nat, NEW l \in Tx \cup {NoTx}
    PROVE  RaisedOK(a, update_latest_send_trans_number_hash(a, n, l), n, l, U)
<1> DEFINE b == update_latest_send_trans_number_hash(a, n, l)
           S == {t \in Tx : nonceOf[t] >= n}
           f == First(a.queue, S)
           q == From(a.queue, S)
           r == IF q # <<>> /\ prevOf[Head(q)] # l THEN <<>> ELSE q
<1> SUFFICES RaisedOK(a, b, n, l, U)
  OBVIOUS
<1>0. a.queue \in Seq(Tx) /\ a.nonce \in Int /\ Len(a.queue) \in Nat
  BY LenProperties DEF AcctType
<1>1. CASE n <= a.nonce
  <2>1. b = a
    BY <1>1 DEF update_latest_send_trans_number_hash
  <2> QED
    BY <1>1, <2>1 DEF RaisedOK
<1>2. CASE n > a.nonce
  <2>1. b = [a EXCEPT !.nonce = n, !.last = l, !.queue = r]
    BY <1>0, <1>2 DEF update_latest_send_trans_number_hash
  <2>2. /\ f \in 1 .. Len(a.queue) + 1
        /\ \A i \in 1 .. f - 1 : a.queue[i] \notin S
        /\ f <= Len(a.queue) => a.queue[f] \in S
    BY <1>0, FirstFact
  <2>3. \A i \in 1 .. Len(a.queue) : /\ a.queue[i] \in Tx
                                     /\ nonceOf[a.queue[i]] = a.nonce + i - 1
    BY <1>0, NonceType DEF QueueOK
  <2>4. q = SubSeq(a.queue, f, Len(a.queue))
    BY DEF From
  <2> HIDE DEF f, q
  <2>5. f <= Len(a.queue) => n = a.nonce + f - 1
    <3>1. SUFFICES ASSUME f <= Len(a.queue) PROVE n = a.nonce + f - 1
      OBVIOUS
    <3>2. f \in 1 .. Len(a.queue)
      BY <1>0, <2>2, <3>1
    <3>3. a.nonce + f - 1 >= n
      BY <2>2, <2>3, <3>1, <3>2
    <3>4. f > 1
      BY <1>2, <1>0, <3>2, <3>3
    <3>5. f - 1 \in 1 .. Len(a.queue) /\ f - 1 \in 1 .. f - 1
      BY <1>0, <3>2, <3>4
    <3>6. nonceOf[a.queue[f - 1]] = a.nonce + f - 1 - 1 /\ ~(nonceOf[a.queue[f - 1]] >= n)
      BY <2>2, <2>3, <3>5
    <3> QED
      BY <1>0, <3>2, <3>3, <3>6
  <2>6. /\ q \in Seq(Tx)
        /\ Len(q) = IF f <= Len(a.queue) THEN Len(a.queue) - f + 1 ELSE 0
        /\ \A i \in 1 .. Len(a.queue) - f + 1 : q[i] = a.queue[f + i - 1]
    <3>1. f \in Int /\ Len(a.queue) \in Int /\ \A i \in f .. Len(a.queue) : a.queue[i] \in Tx
      BY <1>0, <2>2, <2>3
    <3> QED
      BY <2>4, <3>1, SubSeqProperties
  <2>7. \A i \in 1 .. Len(q) : /\ nonceOf[q[i]] = n + i - 1
                               /\ i # 1 => q[i] \in U \/ prevOf[q[i]] = q[i - 1]
    <3>1. SUFFICES ASSUME NEW i \in 1 .. Len(q)
                   PROVE  /\ nonceOf[q[i]] = n + i - 1
                          /\ i # 1 => q[i] \in U \/ prevOf[q[i]] = q[i - 1]
      OBVIOUS
    <3>2. f <= Len(a.queue) /\ f \in Nat /\ Len(q) = Len(a.queue) - f + 1 /\ i \in Nat
      BY <1>0, <2>2, <2>6
    <3> DEFINE j == f + i - 1
    <3>3. j \in 1 .. Len(a.queue) /\ q[i] = a.queue[j]
      BY <1>0, <2>2, <2>6, <3>2
    <3>4. nonceOf[q[i]] = n + i - 1
      <4>1. nonceOf[q[i]] = a.nonce + (f + i - 1) - 1
        BY <2>3, <3>3
      <4>2. n = a.nonce + f - 1 /\ a.nonce \in Int /\ f \in Nat /\ i \in Nat
        BY <1>0, <2>5, <3>2
      <4>3. a.nonce + (f + i - 1) - 1 = n + i - 1
        BY <4>2
      <4> QED
        BY <4>1, <4>3
    <3>5. i # 1 => j # 1 /\ q[i - 1] = a.queue[j - 1]
      <4>1. i # 1 => i - 1 \in 1 .. Len(a.queue) - f + 1 /\ f + (i - 1) - 1 = j - 1 /\ j # 1
        BY <1>0, <2>2, <3>2
      <4> QED
        BY <2>6, <4>1
    <3> HIDE DEF j
    <3> QED
      BY <3>3, <3>4, <3>5 DEF QueueOK
  <2>8. r \in Seq(Tx) /\ QueueOK(r, n, l, U)
    <3>1. CASE r = <<>>
      <4> HIDE DEF r
      <4>1. r \in Seq(Tx) /\ Len(r) = 0
        BY <3>1, EmptySeq
      <4> QED
        BY <4>1 DEF QueueOK
    <3>2. CASE r # <<>>
      <4>1. r = q /\ q # <<>> /\ prevOf[Head(q)] = l
        BY <3>2
      <4>2. Head(q) = q[1]
        BY <2>6, <4>1
      <4> QED
        BY <2>6, <2>7, <4>1, <4>2 DEF QueueOK
    <3> QED
      BY <3>1, <3>2
  <2> HIDE DEF r, b
  <2>9. b \in AcctType /\ b.nonce = n /\ b.last = l /\ b.queue = r
    <3>1. n \in Int /\ r \in Seq(Tx)
      BY <2>8
    <3> QED
      BY <2>1, <3>1, Zenon DEF AcctType
  <2> QED
    BY <1>0, <1>2, <2>8, <2>9 DEF RaisedOK
<1> QED
  BY <1>0, <1>1, <1>2

LEMMA QueueMono ==
    ASSUME NEW q, NEW n, NEW l, NEW U, NEW V, QueueOK(q, n, l, U), U \subseteq V
    PROVE  QueueOK(q, n, l, V)
BY DEF QueueOK

\* Where t's nonce is one of the queue's, the transactions before it are those with
\* smaller nonces.
LEMMA RivalFact ==
    ASSUME NEW q \in Seq(Tx), NEW n \in Int, NEW l, NEW U, QueueOK(q, n, l, U),
           NEW t \in Tx, nonceOf[t] >= n, q # <<>>, nonceOf[t] <= nonceOf[Last(q)]
    PROVE  /\ WithoutRival(q, t) \in Seq(Tx)
           /\ QueueOK(WithoutRival(q, t), n, l, U)
           /\ nonceOf[t] = n + Len(WithoutRival(q, t))
<1> DEFINE S == {u \in Tx : nonceOf[u] = nonceOf[t]}
           f == First(q, S)
           k == nonceOf[t] - n + 1
<1>0. Len(q) \in Nat \ {0} /\ nonceOf[t] \in Nat
  BY EmptySeq, SendAssumption
<1>1. \A i \in 1 .. Len(q) : q[i] \in Tx /\ nonceOf[q[i]] = n + i - 1
  BY NonceType DEF QueueOK
<1>2. nonceOf[Last(q)] = n + Len(q) - 1
  BY <1>0, <1>1 DEF Last
<1>3. k \in 1 .. Len(q)
  BY <1>0, <1>2
<1>4. q[k] \in S
  <2>1. nonceOf[q[k]] = n + k - 1 /\ q[k] \in Tx
    BY <1>1, <1>3
  <2>2. n + k - 1 = nonceOf[t]
    BY <1>0
  <2> QED
    BY <2>1, <2>2
<1>5. /\ f \in 1 .. Len(q) + 1
      /\ \A i \in 1 .. f - 1 : q[i] \notin S
      /\ f <= Len(q) => q[f] \in S
  BY FirstFact
<1>6. /\ Before(q, S) \in Seq(Tx) /\ Len(Before(q, S)) = f - 1
      /\ QueueOK(Before(q, S), n, l, U)
  BY BeforeOK
<1>7. WithoutRival(q, t) = Before(q, S)
  BY DEF WithoutRival
<1> HIDE DEF f
<1>8. f <= k
  <2>1. SUFFICES ASSUME f > k PROVE FALSE
    BY <1>3, <1>5
  <2>2. k \in 1 .. f - 1
    BY <1>3, <1>5, <2>1
  <2> QED
    BY <1>4, <1>5, <2>2
<1>9. f \in 1 .. Len(q) /\ nonceOf[q[f]] = nonceOf[t]
  BY <1>0, <1>3, <1>5, <1>8
<1>10. nonceOf[t] = n + f - 1
  BY <1>1, <1>9
<1> QED
  BY <1>5, <1>6, <1>7, <1>10

\* The unchecked transactions after t was pushed on the queue p and q came out.
Unchecked(U, p, q, t, follows) ==
    IF t \notin Range(q) \ Range(p) THEN U ELSE IF follows THEN U \ {t} ELSE U \cup {t}

LEMMA PushSendOK ==
    ASSUME NEW a \in AcctType, NEW U, QueueOK(a.queue, a.nonce, a.last, U), NEW t \in Tx
    PROVE  LET b == PushSend(a, t)
               V == Unchecked(U, a.queue, b.queue, t, Follows(clear_expire_txs(a), t))
           IN /\ b \in AcctType
              /\ b.nonce = a.nonce /\ b.last = a.last
              /\ QueueOK(b.queue, b.nonce, b.last, V)
<1> DEFINE S == {u \in Tx : Expired(u)}
           b == clear_expire_txs(a)
           r == PushSend(a, t)
           V == Unchecked(U, a.queue, r.queue, t, Follows(b, t))
           Good == /\ r \in AcctType
                   /\ r.nonce = a.nonce /\ r.last = a.last
                   /\ QueueOK(r.queue, r.nonce, r.last, V)
<1> SUFFICES Good
  OBVIOUS
<1>0. a.queue \in Seq(Tx) /\ a.nonce \in Int /\ Len(a.queue) \in Nat /\ nonceOf[t] \in Nat
  BY LenProperties, SendAssumption DEF AcctType
<1>1. /\ b \in AcctType
      /\ b.nonce = a.nonce /\ b.last = a.last
      /\ b.queue = Before(a.queue, S)
      /\ QueueOK(b.queue, a.nonce, a.last, U)
  BY ClearExpireOK, Zenon DEF clear_expire_txs
<1>2. b.queue \in Seq(Tx) /\ Len(b.queue) \in Nat
  BY <1>1, LenProperties DEF AcctType
<1>3. /\ Len(b.queue) <= Len(a.queue)
      /\ \A i \in 1 .. Len(b.queue) : b.queue[i] = a.queue[i]
  <2>1. First(a.queue, S) \in 1 .. Len(a.queue) + 1
    BY <1>0, FirstFact
  <2>2. /\ Len(b.queue) = First(a.queue, S) - 1
        /\ \A i \in 1 .. First(a.queue, S) - 1 : b.queue[i] = a.queue[i]
    BY <1>0, <1>1, BeforeOK
  <2> QED
    BY <1>0, <2>1, <2>2
<1>4. DOMAIN b.queue = 1 .. Len(b.queue) /\ DOMAIN a.queue = 1 .. Len(a.queue)
  BY <1>0, <1>2, LenProperties
<1>5. Range(b.queue) \subseteq Range(a.queue)
  <2>1. 1 .. Len(b.queue) \subseteq 1 .. Len(a.queue)
    BY <1>0, <1>2, <1>3
  <2> QED
    BY <1>3, <1>4, <2>1 DEF Range
<1>6. U \ {t} \subseteq V /\ (V = U \/ V = U \ {t} \/ V = U \cup {t})
  BY DEF Unchecked
<1>7. \A i \in 1 .. Len(b.queue) : nonceOf[b.queue[i]] = a.nonce + i - 1
  BY <1>1 DEF QueueOK
<1> HIDE DEF b
<1>8. CASE r = a \/ r = b
  <2>1. Range(r.queue) \subseteq Range(a.queue)
    BY <1>5, <1>8
  <2>2. V = U
    BY <2>1 DEF Unchecked
  <2> HIDE DEF V, r
  <2> QED
    BY <1>1, <1>8, <2>2
<1>9. CASE /\ ~(nonceOf[t] < a.nonce) /\ t \notin Queued(b) /\ Follows(b, t)
           /\ r = [b EXCEPT !.queue = Insert(b.queue, t)]
  <2>1. V = U \/ V = U \ {t}
    BY <1>9 DEF Unchecked
  <2>2. \A i \in 1 .. Len(b.queue) : b.queue[i] \in U => b.queue[i] \in V
    <3>1. \A i \in 1 .. Len(b.queue) : b.queue[i] # t
      BY <1>4, <1>9 DEF Queued, Range
    <3> HIDE DEF V
    <3> QED
      BY <2>1, <3>1
  <2> HIDE DEF V, r
  <2>3. nonceOf[t] = a.nonce + Len(b.queue)
    <3>1. CASE b.queue = <<>>
      BY <1>0, <1>1, <1>9, <3>1, EmptySeq DEF Follows
    <3>2. CASE b.queue # <<>>
      <4>1. Len(b.queue) \in 1 .. Len(b.queue)
        BY <1>2, <3>2, EmptySeq
      <4>2. nonceOf[t] = a.nonce + Len(b.queue) - 1 + 1
        BY <1>7, <1>9, <3>2, <4>1 DEF Follows, Last
      <4> QED
        BY <1>0, <1>2, <4>2
    <3> QED
      BY <3>1, <3>2
  <2>4. prevOf[t] = IF b.queue = <<>> THEN a.last ELSE Last(b.queue)
    BY <1>1, <1>9 DEF Follows
  <2>5. /\ Insert(b.queue, t) \in Seq(Tx)
        /\ QueueOK(Insert(b.queue, t), a.nonce, a.last, V)
    BY <1>0, <1>1, <1>2, <2>2, <2>3, <2>4, AppendOK
  <2>6. /\ r \in AcctType
        /\ r.nonce = a.nonce /\ r.last = a.last /\ r.queue = Insert(b.queue, t)
    BY <1>1, <1>9, <2>5, Zenon DEF AcctType
  <2> QED
    BY <2>5, <2>6
<1>10. CASE /\ ~(nonceOf[t] < a.nonce) /\ t \notin Queued(b) /\ ~Follows(b, t)
            /\ Replaces(b, t)
            /\ r = [b EXCEPT !.queue = Insert(WithoutRival(b.queue, t), t)]
  <2> DEFINE p == WithoutRival(b.queue, t)
             i == Insert(p, t)
  <2>1. b.queue # <<>> /\ nonceOf[t] <= nonceOf[Last(b.queue)] /\ nonceOf[t] >= a.nonce
    BY <1>0, <1>10 DEF Replaces
  <2>2. /\ p \in Seq(Tx) /\ QueueOK(p, a.nonce, a.last, U)
        /\ nonceOf[t] = a.nonce + Len(p)
    BY <1>0, <1>1, <1>2, <2>1, RivalFact
  <2>3. t \notin Range(a.queue)
    <3>1. SUFFICES ASSUME NEW j \in 1 .. Len(a.queue), a.queue[j] = t PROVE FALSE
      BY <1>4 DEF Range
    <3>2. nonceOf[t] = a.nonce + j - 1
      BY <3>1 DEF QueueOK
    <3>3. Len(b.queue) \in 1 .. Len(b.queue)
      BY <1>2, <2>1, EmptySeq
    <3>4. nonceOf[Last(b.queue)] = a.nonce + Len(b.queue) - 1
      BY <1>7, <3>3 DEF Last
    <3>5. j \in 1 .. Len(b.queue)
      BY <1>0, <1>2, <2>1, <3>2, <3>4
    <3>6. t \in Range(b.queue)
      BY <1>3, <1>4, <3>1, <3>5 DEF Range
    <3> QED
      BY <1>10, <3>6 DEF Queued
  <2> HIDE DEF p
  <2>4. i \in {p, Append(p, t)}
    <3>1. Len(p) \in Nat /\ \A j \in 1 .. Len(p) : nonceOf[p[j]] = a.nonce + j - 1
      BY <2>2, LenProperties DEF QueueOK
    <3>2. \A j \in 1 .. Len(p) : nonceOf[p[j]] <= nonceOf[t]
      BY <1>0, <2>2, <3>1
    <3> QED
      BY <2>2, <3>2, InsertEnd
  <2>5. r = [b EXCEPT !.queue = i]
    BY <1>10 DEF p
  <2> HIDE DEF i, r
  <2>6. i \in Seq(Tx)
    BY <2>2, <2>4, AppendProperties
  <2>7. /\ r \in AcctType
        /\ r.nonce = a.nonce /\ r.last = a.last /\ r.queue = i
    BY <1>1, <2>5, <2>6, Zenon DEF AcctType
  <2>8. U \subseteq V
    BY <1>10 DEF Unchecked
  <2>9. QueueOK(i, a.nonce, a.last, V)
    <3>1. CASE i = p
      <4> HIDE DEF V
      <4> QED
        BY <2>2, <2>8, <3>1, QueueMono
    <3>2. CASE i = Append(p, t)
      <4>1. t \in Range(i)
        <5>1. Len(p) \in Nat /\ Len(i) = Len(p) + 1 /\ i[Len(p) + 1] = t
          BY <2>2, <3>2, AppendProperties, LenProperties
        <5>2. Len(p) + 1 \in DOMAIN i
          BY <2>6, <5>1, LenProperties
        <5> QED
          BY <5>1, <5>2 DEF Range
      <4>2. t \in V
        BY <1>10, <2>3, <2>7, <4>1 DEF Unchecked
      <4> HIDE DEF V
      <4>3. \A j \in 1 .. Len(p) : p[j] \in U => p[j] \in V
        BY <2>8
      <4> QED
        BY <1>0, <2>2, <4>2, <4>3, AppendOK DEF i
    <3> QED
      BY <2>4, <3>1, <3>2
  <2> QED
    BY <2>7, <2>9
<1>11. \/ r = a \/ r = b
       \/ /\ ~(nonceOf[t] < a.nonce) /\ t \notin Queued(b) /\ Follows(b, t)
          /\ r = [b EXCEPT !.queue = Insert(b.queue, t)]
       \/ /\ ~(nonceOf[t] < a.nonce) /\ t \notin Queued(b) /\ ~Follows(b, t)
          /\ Replaces(b, t)
          /\ r = [b EXCEPT !.queue = Insert(WithoutRival(b.queue, t), t)]
  BY DEF PushSend, b
<1> HIDE DEF r, Good
<1> QED
  BY <1>8, <1>9, <1>10, <1>11, Zenon

============================================================================
