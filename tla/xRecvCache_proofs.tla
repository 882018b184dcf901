-------------------------- MODULE xRecvCache_proofs --------------------------
(***************************************************************************)
(* Lemmas about the receipt cache of the transaction pool, as operators on *)
(* its state: whatever is loaded or dropped, its blocks stay an interval   *)
(* whose receipts are seen or expired (Good); loading only adds, and only  *)
(* what the store has (Grows, Kept); a cache that a receipt was judged     *)
(* with looks for no older blocks (Ready), and one that has all blocks up  *)
(* to its latest loads none at all (Caught).                               *)
(***************************************************************************)
EXTENDS xRecvPool, SequenceTheorems, NatSets

---------------------------------------------------------------------------
(* The invariant: the cache is good, at any clock. *)

CacheType == [seen : SUBSET Receipt, blocks : SUBSET (Height \cup {0}),
              latest : Height \cup {0}, full : BOOLEAN]

\* The genesis block aside, no block is left out between two that were taken in.
Interval(B) == \A a, b \in B \ {0} : \A k \in Height : a <= k /\ k <= b => k \in B

\* The receipts of every block that was taken in are seen or expired at clock t.
Covers(c, t) == \A h \in c.blocks : h # 0 =>
                    \A r \in chain[h] : r \in c.seen \/ Expired(r, t)

Sound(c, t) == c \in CacheType /\ Interval(c.blocks) /\ Covers(c, t)
Good(c, t) == Sound(c, t) /\ MaxBlock(c) <= c.latest

LEMMA ChainFacts ==
    /\ Len(chain) \in Nat
    /\ MaxHeight \in Nat
    /\ Height \cup {0} \subseteq Nat
    /\ \A h \in Height \cup {0} : h < MaxHeight /\ h <= Len(chain)
    /\ \A h \in Height : h # 0 /\ chain[h] \subseteq Receipt
BY RecvAssumption DEF Height, MaxHeight

LEMMA MaxOfBlocks ==
    ASSUME NEW B, B \subseteq Height \cup {0}
    PROVE  /\ Max(B \cup {0}) \in B \cup {0}
           /\ Max(B \cup {0}) \in Height \cup {0}
           /\ \A b \in B : b <= Max(B \cup {0})
<1> DEFINE S == B \cup {0}
<1>1. S \in SUBSET Nat /\ S # {} /\ \A x \in S : x <= Len(chain)
  BY ChainFacts
<1>2. \E x \in S : \A y \in S : x >= y
  <2> HIDE DEF S
  <2> QED
    BY <1>1, ChainFacts, GreatestExists, Zenon
<1>3. Max(S) \in S /\ \A y \in S : Max(S) >= y
  <2> HIDE DEF S
  <2> QED
    BY <1>2, Zenon DEF Max
<1> QED
  BY <1>1, <1>3, Zenon

LEMMA MinOfBlocks ==
    ASSUME NEW B, B \subseteq Height \cup {0}
    PROVE  /\ Min(B \cup {MaxHeight}) \in B \cup {MaxHeight}
           /\ Min(B \cup {MaxHeight}) \in Nat
           /\ \A b \in B : Min(B \cup {MaxHeight}) <= b
<1> DEFINE S == B \cup {MaxHeight}
<1>1. S \in SUBSET Nat /\ S # {}
  BY ChainFacts
<1>2. \E x \in S : \A y \in S : x <= y
  <2> HIDE DEF S
  <2> QED
    BY <1>1, LeastExists
<1>3. Min(S) \in S /\ \A y \in S : Min(S) <= y
  <2> HIDE DEF S
  <2> QED
    BY <1>2, Zenon DEF Min
<1> QED
  BY <1>1, <1>3

\* The highest committed block.
LEMMA TopType ==
    ASSUME stored \subseteq Height
    PROVE  Top \in Height \cup {0}
BY MaxOfBlocks DEF Top

\* Expired receipts stay so.
LEMMA GoodLater ==
    ASSUME NEW c, NEW t \in Nat, NEW u \in Nat, t <= u, Good(c, t)
    PROVE  Good(c, u)
<1>1. \A h \in c.blocks : h # 0 => \A r \in chain[h] : r \in Receipt
  BY ChainFacts DEF Good, Sound, CacheType
<1>2. \A r \in Receipt : Expired(r, t) => Expired(r, u)
  BY RecvAssumption DEF Expired
<1> QED
  BY <1>1, <1>2 DEF Good, Sound, Covers

\* insert_block_tx_to_cache, if the blocks stay an interval.
LEMMA InsertSound ==
    ASSUME NEW c, NEW t, Sound(c, t), NEW H, H \subseteq Height \cup {0},
           Interval(c.blocks \cup H)
    PROVE  /\ Sound(insert_block_tx_to_cache(c, H), t)
           /\ insert_block_tx_to_cache(c, H).latest = c.latest
           /\ insert_block_tx_to_cache(c, H).blocks = c.blocks \cup H
<1> DEFINE d == insert_block_tx_to_cache(c, H)
<1>1. Received(H) \subseteq Receipt
  BY ChainFacts DEF Received
<1>2. d = [c EXCEPT !.seen = c.seen \cup Received(H), !.blocks = c.blocks \cup H]
  BY DEF insert_block_tx_to_cache
<1>3. /\ d \in CacheType
      /\ d.seen = c.seen \cup Received(H)
      /\ d.blocks = c.blocks \cup H
      /\ d.latest = c.latest
  BY <1>1, <1>2, Zenon DEF Sound, CacheType
<1>4. Covers(d, t)
  <2>1. \A h \in H : h # 0 => chain[h] \subseteq Received(H)
    BY DEF Received
  <2> QED
    BY <1>3, <2>1 DEF Sound, Covers
<1> QED
  BY <1>3, <1>4 DEF Sound

---------------------------------------------------------------------------
(* The operators on the cache keep it good. *)

\* The facts about MaxBlock and MinBlock of a cache.
LEMMA BlockBounds ==
    ASSUME NEW c, c \in CacheType
    PROVE  /\ MaxBlock(c) \in c.blocks \cup {0}
           /\ MaxBlock(c) \in Height \cup {0}
           /\ \A b \in c.blocks : b <= MaxBlock(c)
           /\ MinBlock(c) \in c.blocks \cup {MaxHeight}
           /\ MinBlock(c) \in Nat
           /\ \A b \in c.blocks : MinBlock(c) <= b
BY MaxOfBlocks, MinOfBlocks DEF CacheType, MaxBlock, MinBlock

\* LoadUp continues the blocks of the cache.
LEMMA LoadUpSound ==
    ASSUME NEW c, NEW t, Sound(c, t), stored \subseteq Height,
           NEW h \in Height \cup {0}
    PROVE  /\ Sound(LoadUp(c, h), t)
           /\ LoadUp(c, h).latest = c.latest
           /\ \A b \in LoadUp(c, h).blocks : b <= MaxBlock(c) \/ b <= h
<1> DEFINE m == MaxBlock(c)
           H == {k \in m + 1 .. h : m + 1 .. k \subseteq stored}
<1>1. c \in CacheType /\ c.blocks \subseteq Height \cup {0}
  BY DEF Sound, CacheType
<1>2. m \in c.blocks \cup {0} /\ m \in Nat /\ \A b \in c.blocks : b <= m
  BY <1>1, BlockBounds, ChainFacts
<1>3. h \in Nat /\ stored \subseteq Nat
  BY ChainFacts
<1>4. H \subseteq Height /\ \A k \in H : k \in Nat /\ m < k /\ k <= h
  <2> HIDE DEF m
  <2> QED
    BY <1>2, <1>3
<1>5. Interval(c.blocks \cup H)
  <2>1. SUFFICES ASSUME NEW a \in (c.blocks \cup H) \ {0}, NEW b \in (c.blocks \cup H) \ {0},
                        NEW k \in Height, a <= k, k <= b
                 PROVE  k \in c.blocks \cup H
    BY DEF Interval
  <2>2. a \in Nat /\ b \in Nat /\ k \in Nat
    BY <1>1, <1>4, ChainFacts
  <2>3. CASE b \in c.blocks
    BY <1>2, <1>4, <2>1, <2>2, <2>3 DEF Sound, Interval
  <2>4. CASE b \in H /\ k <= m
    <3>1. a \in c.blocks /\ m \in c.blocks /\ m # 0
      BY <1>2, <1>4, <2>1, <2>2, <2>4
    <3> QED
      BY <1>2, <2>1, <2>2, <2>4, <3>1 DEF Sound, Interval
  <2>5. CASE b \in H /\ k > m
    <3>1. m + 1 .. k \subseteq m + 1 .. b /\ k \in m + 1 .. h
      BY <1>2, <1>3, <1>4, <2>1, <2>2, <2>5
    <3> QED
      BY <2>5, <3>1
  <2> QED
    BY <1>2, <2>2, <2>3, <2>4, <2>5
<1>6. LoadUp(c, h) = insert_block_tx_to_cache(c, H)
  BY DEF LoadUp
<1> HIDE DEF m, H
<1>7. /\ Sound(LoadUp(c, h), t)
      /\ LoadUp(c, h).latest = c.latest
      /\ LoadUp(c, h).blocks = c.blocks \cup H
  BY <1>4, <1>5, <1>6, InsertSound
<1> QED
  BY <1>2, <1>4, <1>7 DEF m

\* The highest block of a cache whose blocks are at most n is at most n.
LEMMA MaxAtMost ==
    ASSUME NEW c, c \in CacheType, NEW n \in Nat, \A b \in c.blocks : b <= n
    PROVE  MaxBlock(c) <= n
BY BlockBounds, ChainFacts

\* A cache with another latest block is as sound.
LEMMA LatestSound ==
    ASSUME NEW c, NEW t, Sound(c, t), NEW n \in Height \cup {0}
    PROVE  /\ Sound([c EXCEPT !.latest = n], t)
           /\ [c EXCEPT !.latest = n].latest = n
           /\ [c EXCEPT !.latest = n].blocks = c.blocks
           /\ MaxBlock([c EXCEPT !.latest = n]) = MaxBlock(c)
<1> DEFINE d == [c EXCEPT !.latest = n]
<1>1. d \in CacheType /\ d.latest = n /\ d.blocks = c.blocks /\ d.seen = c.seen
  BY DEF Sound, CacheType
<1> QED
  BY <1>1 DEF Sound, Covers, MaxBlock

LEMMA BeginGood ==
    ASSUME NEW c, NEW t, Good(c, t), stored \subseteq Height
    PROVE  Good(Begin(c), t)
<1>1. c \in CacheType /\ Sound(c, t) /\ MaxBlock(c) <= c.latest
  BY DEF Good, Sound
<1>2. CASE c.latest # 0
  BY <1>1, <1>2 DEF Begin, Good
<1>3. CASE c.latest = 0
  <2> DEFINE d == [c EXCEPT !.latest = Top]
             e == insert_block_tx_to_cache(d, {Top})
  <2>1. Top \in Height \cup {0} /\ Top \in Nat
    BY TopType, ChainFacts
  <2>2. Sound(d, t) /\ d.latest = Top /\ d.blocks = c.blocks
    BY <1>1, <2>1, LatestSound
  <2>3. c.blocks \subseteq {0}
    <3>1. \A b \in c.blocks : b <= 0 /\ b \in Nat
      BY <1>1, <1>3, BlockBounds, ChainFacts DEF CacheType
    <3> QED
      BY <3>1
  <2>4. Interval(d.blocks \cup {Top})
    BY ChainFacts, <2>1, <2>2, <2>3 DEF Interval
  <2>5. Sound(e, t) /\ e.latest = Top /\ e.blocks = c.blocks \cup {Top}
    <3> HIDE DEF d
    <3> QED
      BY <2>1, <2>2, <2>4, InsertSound
  <2>6. \A b \in e.blocks : b <= Top
    BY <2>1, <2>3, <2>5
  <2>7. Begin(c) = e
    BY <1>3 DEF Begin
  <2> HIDE DEF e
  <2>8. MaxBlock(e) <= Top
    BY <2>1, <2>5, <2>6, MaxAtMost DEF Sound
  <2> QED
    BY <2>5, <2>7, <2>8 DEF Good
<1> QED
  BY <1>2, <1>3

\* Blocks up to a height that is not above the latest.
LEMMA LoadUpGood ==
    ASSUME NEW c, NEW t, Good(c, t), stored \subseteq Height,
           NEW h \in Height \cup {0}, h <= c.latest
    PROVE  Good(LoadUp(c, h), t)
<1>1. c.latest \in Nat /\ h \in Nat /\ MaxBlock(c) \in Nat
  BY ChainFacts, BlockBounds DEF Good, Sound, CacheType
<1>2. /\ Sound(LoadUp(c, h), t) /\ LoadUp(c, h).latest = c.latest
      /\ \A b \in LoadUp(c, h).blocks : b <= MaxBlock(c) \/ b <= h
  BY LoadUpSound DEF Good
<1>3. \A b \in LoadUp(c, h).blocks : b \in Nat
  BY <1>2, ChainFacts DEF Sound, CacheType
<1>4. \A b \in LoadUp(c, h).blocks : b <= c.latest
  BY <1>1, <1>2, <1>3 DEF Good
<1> QED
  BY <1>1, <1>2, <1>4, MaxAtMost DEF Good, Sound

LEMMA LoadLatestGood ==
    ASSUME NEW c, NEW t, Good(c, t), stored \subseteq Height
    PROVE  Good(LoadLatest(c), t)
<1>1. Good(Begin(c), t)
  BY BeginGood
<1>2. Begin(c).latest \in Height \cup {0} /\ Begin(c).latest <= Begin(c).latest
  BY <1>1, ChainFacts DEF Good, Sound, CacheType
<1> QED
  BY <1>1, <1>2, LoadUpGood DEF LoadLatest

LEMMA LoadCommitGood ==
    ASSUME NEW c, NEW t, Good(c, t), stored \subseteq Height,
           NEW commit \in Height \cup {0}
    PROVE  Good(LoadCommit(c, commit), t)
<1> DEFINE d == LoadUp(c, commit)
           n == IF MaxBlock(d) > d.latest THEN MaxBlock(d) ELSE d.latest
<1>1. Sound(d, t)
  BY LoadUpSound DEF Good
<1> HIDE DEF d
<1>2. MaxBlock(d) \in Height \cup {0} /\ d.latest \in Height \cup {0}
  BY <1>1, BlockBounds DEF Sound, CacheType
<1>3. n \in Height \cup {0} /\ MaxBlock(d) <= n
  BY <1>2, ChainFacts
<1>4. LoadCommit(c, commit) = [d EXCEPT !.latest = n]
  BY DEF LoadCommit, d
<1> HIDE DEF n
<1> QED
  BY <1>1, <1>3, <1>4, LatestSound DEF Good

LEMMA LatestBlocksGood ==
    ASSUME NEW c, NEW t, Good(c, t), stored \subseteq Height,
           NEW commit \in Height \cup {0, MaxHeight}
    PROVE  Good(cache_latest_blocks(c, commit), t)
<1>1. Good(LoadLatest(c), t)
  BY LoadLatestGood
<1>2. CASE commit = 0 \/ commit = MaxHeight \/ MaxBlock(LoadLatest(c)) < LoadLatest(c).latest
  BY <1>1, <1>2 DEF cache_latest_blocks
<1>3. CASE ~(commit = 0 \/ commit = MaxHeight \/ MaxBlock(LoadLatest(c)) < LoadLatest(c).latest)
  <2>1. Good(LoadCommit(LoadLatest(c), commit), t)
    BY <1>1, <1>3, LoadCommitGood
  <2> QED
    BY <1>3, <2>1 DEF cache_latest_blocks
<1> QED
  BY <1>2, <1>3

LEMMA OldestWantedType ==
    ASSUME NEW c, c \in CacheType
    PROVE  OldestWanted(c) \in Nat \ {0}
<1> DEFINE m == MinBlock(c)
           S == {h \in 1 .. m - 1 : chain[h] # {}}
<1>1. m \in Nat
  BY BlockBounds
<1> HIDE DEF m
<1>2. S \in SUBSET Nat /\ 0 \notin S /\ \A x \in S : x <= m
  BY <1>1
<1> HIDE DEF S
<1>3. CASE S # {}
  <2>1. \E x \in S : \A y \in S : x >= y
    BY <1>1, <1>2, <1>3, GreatestExists, Zenon
  <2>2. Max(S) \in S
    BY <2>1, Zenon DEF Max
  <2>3. OldestWanted(c) = Max(S)
    BY <1>3 DEF OldestWanted, S, m
  <2> QED
    BY <1>2, <2>2, <2>3, Zenon
<1>4. CASE S = {}
  BY <1>4 DEF OldestWanted, S, m
<1> QED
  BY <1>3, <1>4

LEMMA LoadOldGood ==
    ASSUME NEW c, NEW t, Good(c, t), stored \subseteq Height, Looks(c)
    PROVE  Good(LoadOld(c), t)
<1> DEFINE m == MinBlock(c)
           o == OldestWanted(c)
           H == {h \in o .. m - 1 : h .. m - 1 \subseteq stored}
           d == LoadOld(c)
<1>1. c \in CacheType /\ c.blocks \subseteq Height \cup {0} /\ Interval(c.blocks)
  BY DEF Good, Sound, CacheType
<1>2. /\ m \in c.blocks /\ m \in Nat /\ m > 1 /\ o \in Nat /\ o > 0
      /\ \A b \in c.blocks : m <= b /\ b \in Nat
  BY <1>1, BlockBounds, ChainFacts, OldestWantedType DEF Looks
<1>3. d = insert_block_tx_to_cache(c, H)
  BY DEF LoadOld
<1> HIDE DEF m, o, d
<1>4. H \subseteq Height /\ \A k \in H : k \in Nat /\ k < m
  <2>1. \A k \in H : k \in k .. m - 1 /\ k \in Nat /\ k < m
    BY <1>2
  <2> QED
    BY <2>1
<1>5. Interval(c.blocks \cup H)
  <2>1. SUFFICES ASSUME NEW a \in (c.blocks \cup H) \ {0}, NEW b \in (c.blocks \cup H) \ {0},
                        NEW k \in Height, a <= k, k <= b
                 PROVE  k \in c.blocks \cup H
    BY DEF Interval
  <2>2. a \in Nat /\ b \in Nat /\ k \in Nat
    BY <1>2, <1>4, ChainFacts
  <2>3. CASE k < m
    <3>1. a \in H
      BY <1>2, <2>1, <2>2, <2>3
    <3>2. k .. m - 1 \subseteq a .. m - 1 /\ k \in o .. m - 1
      BY <1>2, <2>1, <2>2, <2>3, <3>1
    <3> QED
      BY <3>1, <3>2
  <2>4. CASE k >= m
    <3>1. b \in c.blocks /\ m # 0
      BY <1>2, <1>4, <2>1, <2>2, <2>4
    <3> QED
      BY <1>1, <1>2, <2>1, <2>4, <3>1 DEF Interval
  <2> QED
    BY <1>2, <2>2, <2>3, <2>4
<1> HIDE DEF H
<1>6. Sound(d, t) /\ d.latest = c.latest /\ d.blocks = c.blocks \cup H
  BY <1>3, <1>4, <1>5, InsertSound DEF Good
<1>7. MaxBlock(c) \in Nat /\ c.latest \in Nat /\ \A b \in c.blocks : b <= MaxBlock(c)
  BY <1>1, BlockBounds, ChainFacts DEF CacheType
<1>8. \A b \in d.blocks : b <= c.latest
  BY <1>2, <1>4, <1>6, <1>7 DEF Good
<1> QED
  BY <1>6, <1>7, <1>8, MaxAtMost DEF Good, Sound, d

\* A cache that differs in the flag only.
LEMMA MarkFullGood ==
    ASSUME NEW c, NEW t, Good(c, t), NEW old
    PROVE  Good(MarkFull(c, old), t)
<1> DEFINE f == c.full \/ (c.seen # {} /\ old < Trusted(c) /\ Trusted(c) + Window <= clock)
           d == [c EXCEPT !.full = f]
<1>1. f \in BOOLEAN
  OBVIOUS
<1>2. MarkFull(c, old) = d
  BY DEF MarkFull
<1> HIDE DEF f
<1>3. d \in CacheType /\ d.seen = c.seen /\ d.blocks = c.blocks /\ d.latest = c.latest
  BY <1>1 DEF Good, Sound, CacheType
<1> QED
  BY <1>2, <1>3 DEF Good, Sound, Covers, MaxBlock

LEMMA OldBlocksGood ==
    ASSUME NEW c, NEW t, Good(c, t), stored \subseteq Height, NEW old
    PROVE  Good(cache_old_blocks(c, old), t)
<1>1. CASE Looks(c)
  BY <1>1, LoadOldGood, MarkFullGood DEF cache_old_blocks
<1>2. CASE ~Looks(c)
  BY <1>2, MarkFullGood DEF cache_old_blocks
<1> QED
  BY <1>1, <1>2

LEMMA CheckedGood ==
    ASSUME NEW c, NEW t, Good(c, t), stored \subseteq Height, NEW r, NEW now,
           NEW commit \in Height \cup {0, MaxHeight}
    PROVE  Good(Checked(c, r, now, commit), t)
<1>1. Good(cache_latest_blocks(c, commit), t)
  BY LatestBlocksGood
<1>2. Good(cache_old_blocks(cache_latest_blocks(c, commit), clockOf[r]), t)
  BY <1>1, OldBlocksGood
<1> QED
  BY <1>1, <1>2 DEF Checked

LEMMA DeleteExpiredGood ==
    ASSUME NEW c, Good(c, clock)
    PROVE  Good(delete_expired_cache(c), clock)
<1> DEFINE S == {r \in c.seen : ~Expired(r, clock)}
           d == [c EXCEPT !.seen = S]
<1>1. S \subseteq c.seen /\ \A r \in c.seen : r \in S \/ Expired(r, clock)
  OBVIOUS
<1>2. delete_expired_cache(c) \in {c, d}
  BY DEF delete_expired_cache
<1> HIDE DEF S
<1>3. d \in CacheType /\ d.seen = S /\ d.blocks = c.blocks /\ d.latest = c.latest
  BY <1>1 DEF Good, Sound, CacheType
<1>4. Good(d, clock)
  BY <1>1, <1>3 DEF Good, Sound, Covers, MaxBlock
<1> QED
  BY <1>2, <1>4

---------------------------------------------------------------------------
(* What the operators on the cache leave alone. *)

\* The cache was filled when a receipt was found new: it has no reason to look for
\* older blocks again.
Ready(c) == c.full \/ c.seen # {} \/ \E b \in c.blocks : b <= 1

\* The blocks of the cache are in the store S.
Kept(c, S) == c.blocks \subseteq S \cup {0} /\ c.latest \in S \cup {0}

\* The cache has all blocks up to the latest one, which is not below commit.
Caught(c, commit, S) ==
    commit <= c.latest /\ MaxBlock(c) = c.latest /\ 1 .. c.latest \subseteq S

---------------------------------------------------------------------------
(* Loading only adds to the cache, and only what the store has. *)

Grows(c, d) ==
    /\ c.seen \subseteq d.seen
    /\ c.blocks \subseteq d.blocks
    /\ c.full => d.full
    /\ d.blocks \subseteq c.blocks \cup stored \cup {0}
    /\ d.latest \in {c.latest, 0} \cup d.blocks \cup stored

LEMMA GrowsKeeps ==
    ASSUME NEW c, NEW d, Grows(c, d)
    PROVE  /\ Kept(c, stored) => Kept(d, stored)
           /\ Ready(c) => Ready(d)
BY DEF Grows, Kept, Ready

LEMMA GrowsOn ==
    ASSUME NEW c, NEW d, NEW e, Grows(c, d), Grows(d, e)
    PROVE  Grows(c, e)
BY DEF Grows

LEMMA InsertGrows ==
    ASSUME NEW c, c \in CacheType, NEW H, H \subseteq stored \cup {0}
    PROVE  /\ Grows(c, insert_block_tx_to_cache(c, H))
           /\ insert_block_tx_to_cache(c, H).latest = c.latest
           /\ insert_block_tx_to_cache(c, H).full = c.full
           /\ insert_block_tx_to_cache(c, H).blocks = c.blocks \cup H
           /\ insert_block_tx_to_cache(c, H).seen = c.seen \cup Received(H)
           /\ H = {} => insert_block_tx_to_cache(c, H) = c
<1> DEFINE d == insert_block_tx_to_cache(c, H)
<1>1. /\ d.seen = c.seen \cup Received(H) /\ d.blocks = c.blocks \cup H
      /\ d.latest = c.latest /\ d.full = c.full
  BY DEF insert_block_tx_to_cache, CacheType
<1>2. H = {} => d = c
  BY Zenon DEF insert_block_tx_to_cache, CacheType, Received
<1> QED
  BY <1>1, <1>2 DEF Grows

LEMMA LoadUpGrows ==
    ASSUME NEW c, c \in CacheType, stored \subseteq Height, NEW h \in Height \cup {0}
    PROVE  /\ Grows(c, LoadUp(c, h))
           /\ LoadUp(c, h).latest = c.latest
           /\ h <= MaxBlock(c) => LoadUp(c, h) = c
           /\ 1 .. h \subseteq stored => h \in LoadUp(c, h).blocks \/ h <= MaxBlock(c)
<1> DEFINE m == MaxBlock(c)
           H == {k \in m + 1 .. h : m + 1 .. k \subseteq stored}
<1>1. m \in Nat /\ h \in Nat
  BY BlockBounds, ChainFacts
<1>2. LoadUp(c, h) = insert_block_tx_to_cache(c, H)
  BY DEF LoadUp
<1> HIDE DEF m
<1>3. H \subseteq stored \cup {0}
  <2>1. \A k \in H : k \in m + 1 .. k
    BY <1>1
  <2> QED
    BY <2>1
<1>4. h <= m => H = {}
  BY <1>1
<1>5. 1 .. h \subseteq stored /\ h > m => h \in H
  BY <1>1
<1> HIDE DEF H
<1>6. /\ Grows(c, LoadUp(c, h)) /\ LoadUp(c, h).latest = c.latest
      /\ LoadUp(c, h).blocks = c.blocks \cup H
      /\ H = {} => LoadUp(c, h) = c
  BY <1>2, <1>3, InsertGrows
<1> QED
  BY <1>1, <1>4, <1>5, <1>6 DEF m

LEMMA TopKept ==
    ASSUME stored \subseteq Height
    PROVE  Top \in stored \cup {0} /\ \A h \in stored : h <= Top
BY MaxOfBlocks DEF Top

LEMMA BeginGrows ==
    ASSUME NEW c, c \in CacheType, stored \subseteq Height
    PROVE  Grows(c, Begin(c)) /\ (c.latest = 0 => Begin(c).blocks # {})
<1>1. CASE c.latest # 0
  BY <1>1 DEF Begin, Grows
<1>2. CASE c.latest = 0
  <2> DEFINE d == [c EXCEPT !.latest = Top]
  <2>1. Top \in stored \cup {0} /\ Top \in Height \cup {0}
    BY TopKept, TopType
  <2>2. d \in CacheType /\ Grows(c, d)
    BY <2>1 DEF CacheType, Grows
  <2>3. Begin(c) = insert_block_tx_to_cache(d, {Top})
    BY <1>2 DEF Begin
  <2> HIDE DEF d
  <2>4. Grows(d, Begin(c)) /\ Begin(c).blocks = d.blocks \cup {Top}
    BY <2>1, <2>2, <2>3, InsertGrows
  <2> QED
    BY <2>2, <2>4, GrowsOn
<1> QED
  BY <1>1, <1>2

LEMMA LoadLatestGrows ==
    ASSUME NEW c, NEW t, Good(c, t), stored \subseteq Height
    PROVE  Grows(c, LoadLatest(c)) /\ (c.latest = 0 => LoadLatest(c).blocks # {})
<1>1. c \in CacheType
  BY DEF Good, Sound
<1>2. Good(Begin(c), t)
  BY BeginGood
<1>3. Begin(c) \in CacheType /\ Begin(c).latest \in Height \cup {0}
  BY <1>2 DEF Good, Sound, CacheType
<1>4. Grows(c, Begin(c)) /\ (c.latest = 0 => Begin(c).blocks # {})
  BY <1>1, BeginGrows
<1>5. Grows(Begin(c), LoadLatest(c))
  BY <1>3, LoadUpGrows DEF LoadLatest
<1>6. Begin(c).blocks \subseteq LoadLatest(c).blocks
  BY <1>5 DEF Grows
<1> QED
  BY <1>4, <1>5, <1>6, GrowsOn

LEMMA LoadCommitGrows ==
    ASSUME NEW c, NEW t, Good(c, t), stored \subseteq Height,
           NEW commit \in Height \cup {0}
    PROVE  Grows(c, LoadCommit(c, commit))
<1> DEFINE d == LoadUp(c, commit)
           n == IF MaxBlock(d) > d.latest THEN MaxBlock(d) ELSE d.latest
<1>1. Grows(c, d)
  BY LoadUpGrows DEF Good, Sound
<1>2. d \in CacheType
  BY LoadUpSound DEF Good, Sound
<1>3. LoadCommit(c, commit) = [d EXCEPT !.latest = n]
  BY DEF LoadCommit
<1> HIDE DEF d
<1>4. n \in d.blocks \cup {0, d.latest}
  BY <1>2, BlockBounds
<1> HIDE DEF n
<1>5. Grows(d, LoadCommit(c, commit))
  BY <1>2, <1>3, <1>4 DEF Grows, CacheType
<1> QED
  BY <1>1, <1>5, GrowsOn

LEMMA LatestBlocksGrow ==
    ASSUME NEW c, NEW t, Good(c, t), stored \subseteq Height,
           NEW commit \in Height \cup {0, MaxHeight}
    PROVE  Grows(c, cache_latest_blocks(c, commit))
<1>1. Good(LoadLatest(c), t) /\ Grows(c, LoadLatest(c))
  BY LoadLatestGood, LoadLatestGrows
<1>2. CASE commit = 0
  BY <1>2 DEF cache_latest_blocks, Grows
<1>3. CASE commit # 0 /\ (commit = MaxHeight \/ MaxBlock(LoadLatest(c)) < LoadLatest(c).latest)
  BY <1>1, <1>3 DEF cache_latest_blocks
<1>4. CASE ~(commit = 0 \/ commit = MaxHeight \/ MaxBlock(LoadLatest(c)) < LoadLatest(c).latest)
  <2>1. Grows(LoadLatest(c), LoadCommit(LoadLatest(c), commit))
    BY <1>1, <1>4, LoadCommitGrows
  <2> QED
    BY <1>1, <1>4, <2>1, GrowsOn DEF cache_latest_blocks
<1> QED
  BY <1>2, <1>3, <1>4

LEMMA MarkFullGrows ==
    ASSUME NEW c, c \in CacheType, NEW old
    PROVE  /\ Grows(c, MarkFull(c, old))
           /\ MarkFull(c, old).latest = c.latest
           /\ MarkFull(c, old).seen = c.seen
<1> DEFINE f == c.full \/ (c.seen # {} /\ old < Trusted(c) /\ Trusted(c) + Window <= clock)
           d == [c EXCEPT !.full = f]
<1>1. MarkFull(c, old) = d
  BY DEF MarkFull
<1>2. c.full => f
  OBVIOUS
<1> HIDE DEF f
<1>3. d.seen = c.seen /\ d.blocks = c.blocks /\ d.latest = c.latest /\ d.full = f
  BY DEF CacheType
<1> QED
  BY <1>1, <1>2, <1>3 DEF Grows

\* The older blocks, and what they bring when all of them are there.
LEMMA LoadOldGrows ==
    ASSUME NEW c, c \in CacheType, stored \subseteq Height, Looks(c)
    PROVE  /\ Grows(c, LoadOld(c))
           /\ LoadOld(c).latest = c.latest
           /\ OldCached(c) => Ready(LoadOld(c))
<1> DEFINE m == MinBlock(c)
           o == OldestWanted(c)
           H == {h \in o .. m - 1 : h .. m - 1 \subseteq stored}
<1>1. m \in Nat /\ m > 1 /\ o \in Nat /\ o > 0
  BY BlockBounds, OldestWantedType DEF Looks
<1>2. LoadOld(c) = insert_block_tx_to_cache(c, H)
  BY DEF LoadOld
<1>3. o \in 1 .. m - 1 /\ (chain[o] # {} \/ o = 1)
  <2> DEFINE S == {h \in 1 .. m - 1 : chain[h] # {}}
  <2>1. CASE S # {}
    <3>1. S \in SUBSET Nat /\ \A x \in S : x <= m
      BY <1>1
    <3>2. o = Max(S)
      BY <2>1 DEF OldestWanted
    <3> HIDE DEF S, m, o
    <3>3. \E x \in S : \A y \in S : x >= y
      BY <1>1, <2>1, <3>1, GreatestExists, Zenon
    <3>4. Max(S) \in S
      BY <3>3, Zenon DEF Max
    <3> QED
      BY <3>2, <3>4 DEF S
  <2>2. CASE S = {}
    <3>1. o = 1
      BY <2>2 DEF OldestWanted
    <3> QED
      BY <1>1, <3>1
  <2> QED
    BY <2>1, <2>2
<1> HIDE DEF m, o
<1>4. H \subseteq stored \cup {0}
  <2>1. \A k \in H : k \in k .. m - 1
    BY <1>1
  <2> QED
    BY <2>1
<1>5. OldCached(c) => o \in H
  BY <1>1, <1>3 DEF OldCached, m, o
<1> HIDE DEF H
<1>6. /\ Grows(c, LoadOld(c)) /\ LoadOld(c).latest = c.latest
      /\ LoadOld(c).blocks = c.blocks \cup H
      /\ LoadOld(c).seen = c.seen \cup Received(H)
  BY <1>2, <1>4, InsertGrows
<1>7. OldCached(c) => o \in LoadOld(c).blocks /\ (o = 1 \/ LoadOld(c).seen # {})
  <2>1. H \subseteq Height \cup {0} /\ (o \in H => o \in H \cap Height)
    BY <1>1, <1>4
  <2>2. o \in H => chain[o] \subseteq Received(H)
    BY <2>1 DEF Received
  <2> QED
    BY <1>3, <1>5, <1>6, <2>2
<1> QED
  BY <1>6, <1>7 DEF Ready

LEMMA ReadyDoesNotLook ==
    ASSUME NEW c, c \in CacheType, Ready(c)
    PROVE  ~Looks(c)
<1>1. \A b \in c.blocks : MinBlock(c) <= b /\ b \in Nat /\ MinBlock(c) \in Nat
  BY BlockBounds, ChainFacts DEF CacheType
<1> QED
  BY <1>1 DEF Ready, Looks

LEMMA OldBlocksGrow ==
    ASSUME NEW c, NEW t, Good(c, t), stored \subseteq Height, NEW old
    PROVE  /\ Grows(c, cache_old_blocks(c, old))
           /\ cache_old_blocks(c, old).latest = c.latest
           /\ ~Looks(c) => cache_old_blocks(c, old).seen = c.seen
           /\ OldCached(c) /\ c.blocks # {} => Ready(cache_old_blocks(c, old))
<1> DEFINE d == cache_old_blocks(c, old)
<1>1. c \in CacheType
  BY DEF Good, Sound
<1>2. CASE c.full
  BY <1>2 DEF cache_old_blocks, Looks, Grows, Ready
<1>3. CASE Looks(c)
  <2>1. LoadOld(c) \in CacheType
    BY <1>3, LoadOldGood DEF Good, Sound
  <2>2. /\ Grows(c, LoadOld(c)) /\ LoadOld(c).latest = c.latest
        /\ OldCached(c) => Ready(LoadOld(c))
    BY <1>1, <1>3, LoadOldGrows
  <2>3. /\ Grows(LoadOld(c), MarkFull(LoadOld(c), old))
        /\ MarkFull(LoadOld(c), old).latest = LoadOld(c).latest
    BY <2>1, MarkFullGrows
  <2>4. d \in {LoadOld(c), MarkFull(LoadOld(c), old)}
    BY <1>3 DEF cache_old_blocks, Looks
  <2>5. Grows(LoadOld(c), d) /\ d.latest = c.latest
    BY <2>2, <2>3, <2>4 DEF Grows
  <2> QED
    BY <1>3, <2>2, <2>5, GrowsOn, GrowsKeeps
<1>4. CASE ~c.full /\ ~Looks(c)
  <2>1. d = MarkFull(c, old)
    BY <1>4 DEF cache_old_blocks
  <2>2. Grows(c, d) /\ d.latest = c.latest /\ d.seen = c.seen
    BY <1>1, <2>1, MarkFullGrows
  <2>3. c.blocks # {} => Ready(c)
    <3>1. ASSUME c.blocks # {} PROVE MinBlock(c) \in c.blocks
      <4>1. PICK b \in c.blocks : b < MaxHeight /\ b \in Nat
        BY <1>1, <3>1, ChainFacts DEF CacheType
      <4>2. MinBlock(c) <= b /\ MinBlock(c) \in c.blocks \cup {MaxHeight}
        BY <1>1, BlockBounds
      <4> QED
        BY <4>1, <4>2, ChainFacts
    <3>2. \A b \in c.blocks : b # MaxHeight /\ b \in Nat
      BY <1>1, ChainFacts DEF CacheType
    <3> QED
      BY <1>4, <3>1, <3>2 DEF Looks, Ready
  <2> QED
    BY <1>4, <2>2, <2>3, GrowsKeeps
<1> QED
  BY <1>2, <1>3, <1>4

LEMMA CheckedGrows ==
    ASSUME NEW c, NEW t, Good(c, t), stored \subseteq Height, NEW r, NEW now,
           NEW commit \in Height \cup {0, MaxHeight}
    PROVE  Grows(c, Checked(c, r, now, commit))
<1> DEFINE d == cache_latest_blocks(c, commit)
<1>1. Good(d, t) /\ Grows(c, d)
  BY LatestBlocksGood, LatestBlocksGrow
<1> HIDE DEF d
<1>2. Grows(d, cache_old_blocks(d, clockOf[r]))
  BY <1>1, OldBlocksGrow
<1>3. Grows(c, cache_old_blocks(d, clockOf[r])) /\ Grows(c, c)
  BY <1>1, <1>2, GrowsOn DEF Grows
<1> QED
  BY <1>1, <1>3 DEF Checked, d

\* What the answer "new" of is_receipt_duplicated means.
LEMMA NewMeans ==
    ASSUME NEW c, NEW r, NEW now, NEW commit,
           is_receipt_duplicated(c, r, now, commit) = "new"
    PROVE  /\ ~Expired(r, now)
           /\ r \notin Checked(c, r, now, commit).seen
           /\ LatestCached(c, commit)
           /\ OldCached(cache_latest_blocks(c, commit))
           /\ MaxBlock(Checked(c, r, now, commit)) = Checked(c, r, now, commit).latest
           /\ commit \in {MaxHeight, Checked(c, r, now, commit).latest}
BY DEF is_receipt_duplicated, check_timer_height_trusted_section_by_left

\* A receipt enters the pool only when older blocks need not be looked for again.
LEMMA NewIsReady ==
    ASSUME NEW c, NEW t, Good(c, t), stored \subseteq Height, NEW r, NEW now,
           is_receipt_duplicated(c, r, now, MaxHeight) = "new"
    PROVE  Ready(Checked(c, r, now, MaxHeight))
<1> DEFINE d == LoadLatest(c)
<1>1. MaxHeight # 0
  BY RecvAssumption DEF MaxHeight
<1>2. cache_latest_blocks(c, MaxHeight) = d
  BY <1>1 DEF cache_latest_blocks
<1>3. /\ ~Expired(r, now) /\ LatestCached(c, MaxHeight) /\ OldCached(d)
  BY <1>2, NewMeans
<1>4. Good(d, t) /\ (c.latest = 0 => d.blocks # {})
  BY LoadLatestGood, LoadLatestGrows
<1>5. MaxBlock(d) >= d.latest
  BY <1>1, <1>2, <1>3 DEF LatestCached
<1>6. c.latest # 0 => d.latest = c.latest
  <2>1. c \in CacheType /\ c.latest \in Height \cup {0}
    BY DEF Good, Sound, CacheType
  <2>2. c.latest # 0 => d = LoadUp(c, c.latest)
    BY DEF LoadLatest, Begin
  <2> QED
    BY <2>1, <2>2, LoadUpGrows
<1> HIDE DEF d
<1>7. d.blocks # {}
  <2>1. d \in CacheType /\ d.latest \in Nat
    BY <1>4, ChainFacts DEF Good, Sound, CacheType
  <2>2. MaxBlock(d) \in d.blocks \cup {0} /\ MaxBlock(d) \in Nat
    BY <2>1, BlockBounds, ChainFacts
  <2> QED
    BY <1>4, <1>5, <1>6, <2>1, <2>2
<1>8. Ready(cache_old_blocks(d, clockOf[r]))
  BY <1>3, <1>4, <1>7, OldBlocksGrow
<1> QED
  BY <1>2, <1>3, <1>8 DEF Checked

\* A good cache that grew, with the same latest block, still has that block.
LEMMA CaughtOn ==
    ASSUME NEW c, NEW d, NEW t, NEW commit, Good(c, t), Good(d, t), Grows(c, d),
           d.latest = c.latest, Caught(c, commit, stored)
    PROVE  Caught(d, commit, stored)
<1>1. c \in CacheType /\ d \in CacheType /\ c.latest \in Nat
  BY ChainFacts DEF Good, Sound, CacheType
<1>2. /\ MaxBlock(c) \in c.blocks \cup {0} /\ MaxBlock(c) \in Nat /\ MaxBlock(d) \in Nat
      /\ \A b \in d.blocks : b <= MaxBlock(d)
  BY <1>1, BlockBounds, ChainFacts
<1>3. MaxBlock(c) <= MaxBlock(d)
  BY <1>2 DEF Grows
<1> QED
  BY <1>1, <1>2, <1>3 DEF Good, Caught

\* Nothing is loaded upwards into a cache that has its latest block.
LEMMA CaughtLatest ==
    ASSUME NEW c, NEW t, Good(c, t), stored \subseteq Height,
           NEW commit \in Height, Caught(c, commit, stored)
    PROVE  cache_latest_blocks(c, commit) = c /\ cache_latest_blocks(c, MaxHeight) = c
<1>1. /\ c \in CacheType /\ c.latest \in Height \cup {0} /\ c.latest \in Nat
      /\ commit \in Nat /\ commit # 0 /\ commit # MaxHeight /\ MaxHeight # 0
  BY ChainFacts, RecvAssumption DEF Good, Sound, CacheType, MaxHeight
<1>2. c.latest # 0 /\ c.latest <= MaxBlock(c) /\ commit <= MaxBlock(c)
  BY <1>1 DEF Caught
<1>3. LoadLatest(c) = c
  BY <1>1, <1>2, LoadUpGrows DEF LoadLatest, Begin
<1>4. LoadUp(c, commit) = c
  BY <1>1, <1>2, LoadUpGrows
<1>5. LoadCommit(c, commit) = c
  <2>1. ~(MaxBlock(c) > c.latest)
    BY <1>1 DEF Caught
  <2> QED
    BY <1>1, <1>4, <2>1 DEF LoadCommit, CacheType
<1> QED
  BY <1>1, <1>3, <1>5 DEF cache_latest_blocks

LEMMA CaughtChecked ==
    ASSUME NEW c, NEW t, Good(c, t), stored \subseteq Height, NEW r, NEW now,
           NEW commit \in Height, Caught(c, commit, stored),
           NEW q \in {commit, MaxHeight}
    PROVE  /\ Caught(Checked(c, r, now, q), commit, stored)
           /\ Ready(c) => Checked(c, r, now, q).seen = c.seen
<1> DEFINE d == cache_old_blocks(c, clockOf[r])
<1>1. cache_latest_blocks(c, q) = c
  BY CaughtLatest
<1>2. Checked(c, r, now, q) \in {c, d}
  BY <1>1 DEF Checked
<1>3. Good(d, t) /\ Grows(c, d) /\ d.latest = c.latest /\ (~Looks(c) => d.seen = c.seen)
  BY OldBlocksGood, OldBlocksGrow
<1> HIDE DEF d
<1>4. Caught(d, commit, stored)
  BY <1>3, CaughtOn
<1>5. Ready(c) => ~Looks(c)
  BY ReadyDoesNotLook DEF Good, Sound
<1> QED
  BY <1>2, <1>3, <1>4, <1>5

---------------------------------------------------------------------------
(* update_tx_cache *)

\* The cache to which Updated applies LoadLatest.
LEMMA UpdateStart ==
    ASSUME NEW c, NEW t, Good(c, t), stored \subseteq Height, NEW h \in stored \cup {0}
    PROVE  \E e : /\ Good(e, t) /\ Grows(c, e) /\ Updated(c, h) = LoadLatest(e)
                  /\ e.latest \in {c.latest, h} /\ h <= e.latest /\ c.latest <= e.latest
<1> DEFINE n == IF h > c.latest THEN h ELSE c.latest
           d == [c EXCEPT !.latest = n]
           m == MaxBlock(c)
           e == IF h = m + 1 \/ m = 0 THEN insert_block_tx_to_cache(d, {h}) ELSE d
<1>0. h \in Height \cup {0}
  OBVIOUS
<1>1. /\ c \in CacheType /\ c.latest \in Height \cup {0} /\ c.latest \in Nat /\ h \in Nat
      /\ m \in c.blocks \cup {0} /\ m \in Nat /\ m <= c.latest
      /\ \A b \in c.blocks : b <= m /\ b \in Nat
  BY <1>0, BlockBounds, ChainFacts DEF Good, Sound, CacheType
<1> HIDE DEF m
<1>2. /\ n \in {c.latest, h} /\ n \in Height \cup {0} /\ n \in Nat
      /\ h <= n /\ m <= n /\ c.latest <= n
  BY <1>0, <1>1
<1>3. /\ Sound(d, t) /\ d.latest = n /\ d.blocks = c.blocks /\ MaxBlock(d) = m
      /\ Grows(c, d) /\ d \in CacheType
  <2> HIDE DEF n
  <2>1. /\ Sound(d, t) /\ d.latest = n /\ d.blocks = c.blocks /\ MaxBlock(d) = m
    BY <1>2, LatestSound DEF Good, m
  <2>2. d.seen = c.seen /\ d.full = c.full
    BY <1>1 DEF CacheType
  <2> QED
    BY <1>2, <2>1, <2>2 DEF Grows, Sound
<1>4. Updated(c, h) = LoadLatest(e)
  BY <1>3 DEF Updated
<1> HIDE DEF d, n
<1>5. Good(e, t) /\ Grows(c, e) /\ e.latest = n
  <2>1. CASE h = m + 1 \/ m = 0
    <3>1. Interval(c.blocks \cup {h})
      BY <1>1, <2>1, ChainFacts DEF Good, Sound, Interval
    <3>2. Sound(e, t) /\ e.latest = n /\ e.blocks = c.blocks \cup {h}
      BY <1>0, <1>3, <2>1, <3>1, InsertSound
    <3>3. Grows(d, e)
      BY <1>3, <2>1, InsertGrows
    <3> HIDE DEF e
    <3>4. \A b \in e.blocks : b <= n
      BY <1>1, <1>2, <3>2
    <3>5. MaxBlock(e) <= n
      BY <1>2, <3>2, <3>4, MaxAtMost DEF Sound
    <3> QED
      BY <1>3, <3>2, <3>3, <3>5, GrowsOn DEF Good
  <2>2. CASE ~(h = m + 1 \/ m = 0)
    BY <1>2, <1>3, <2>2 DEF Good
  <2> QED
    BY <2>1, <2>2
<1> HIDE DEF e
<1> QED
  BY <1>2, <1>4, <1>5

LEMMA UpdateGood ==
    ASSUME NEW c, Good(c, clock), stored \subseteq Height, NEW h \in stored \cup {0}
    PROVE  /\ Good(update_tx_cache(c, h), clock)
           /\ Kept(c, stored) => Kept(update_tx_cache(c, h), stored)
           /\ Ready(c) => Ready(update_tx_cache(c, h))
<1> DEFINE u == Updated(c, h)
           d == delete_expired_cache(u)
<1>1. PICK e : Good(e, clock) /\ Grows(c, e) /\ u = LoadLatest(e)
  BY UpdateStart
<1>2. Good(u, clock) /\ Grows(c, u)
  BY <1>1, LoadLatestGood, LoadLatestGrows, GrowsOn
<1> HIDE DEF u
<1>3. Good(d, clock)
  BY <1>2, DeleteExpiredGood
<1>4. d.blocks = u.blocks /\ d.latest = u.latest /\ d.full = u.full /\ (~u.full => d = u)
  BY <1>2 DEF delete_expired_cache, Good, Sound, CacheType
<1>5. d = update_tx_cache(c, h)
  BY DEF update_tx_cache, u
<1> HIDE DEF d
<1>6. /\ Kept(c, stored) => Kept(u, stored)
      /\ Ready(c) => Ready(u)
  BY <1>2, GrowsKeeps
<1>7. Kept(u, stored) => Kept(d, stored)
  BY <1>4 DEF Kept
<1>8. Ready(u) => Ready(d)
  BY <1>4 DEF Ready
<1> QED
  BY <1>3, <1>5, <1>6, <1>7, <1>8

\* With a connected block, and a latest one that is connected too, all is loaded.
LEMMA UpdateCaught ==
    ASSUME NEW c, Good(c, clock), stored \subseteq Height, NEW h \in stored,
           1 .. h \subseteq stored, 1 .. c.latest \subseteq stored
    PROVE  \A commit \in {h, c.latest} : Caught(update_tx_cache(c, h), commit, stored)
<1> DEFINE u == Updated(c, h)
           d == update_tx_cache(c, h)
<1>1. PICK e : /\ Good(e, clock) /\ Grows(c, e) /\ u = LoadLatest(e)
               /\ e.latest \in {c.latest, h} /\ h <= e.latest /\ c.latest <= e.latest
  BY UpdateStart
<1>2. /\ e \in CacheType /\ e.latest \in Height \cup {0} /\ e.latest \in Nat
      /\ h \in Nat /\ h > 0 /\ c.latest \in Nat
  BY <1>1, ChainFacts DEF Good, Sound, CacheType, Height
<1>3. e.latest # 0 /\ 1 .. e.latest \subseteq stored
  BY <1>1, <1>2
<1>4. u = LoadUp(e, e.latest)
  BY <1>1, <1>3 DEF LoadLatest, Begin
<1>5. Good(u, clock)
  BY <1>1, LoadLatestGood
<1>6. /\ u.latest = e.latest /\ e.blocks \subseteq u.blocks
      /\ e.latest \in u.blocks \/ e.latest <= MaxBlock(e)
  BY <1>2, <1>3, <1>4, LoadUpGrows DEF Grows
<1> HIDE DEF u
<1>7. MaxBlock(u) = u.latest
  <2>1. /\ MaxBlock(e) \in e.blocks \cup {0} /\ MaxBlock(e) \in Nat
        /\ \A b \in u.blocks : b <= MaxBlock(u) /\ b \in Nat
        /\ MaxBlock(u) \in Nat /\ u.latest \in Nat
    BY <1>2, <1>5, BlockBounds, ChainFacts, Zenon DEF Good, Sound, CacheType
  <2>2. MaxBlock(u) <= u.latest
    BY <1>5 DEF Good
  <2> QED
    BY <1>2, <1>3, <1>6, <2>1, <2>2
<1>8. d.blocks = u.blocks /\ d.latest = u.latest
  BY <1>5 DEF delete_expired_cache, update_tx_cache, u, Good, Sound, CacheType
<1> HIDE DEF d
<1>9. MaxBlock(d) = d.latest
  BY <1>7, <1>8 DEF MaxBlock
<1>10. h <= d.latest /\ c.latest <= d.latest
  BY <1>1, <1>2, <1>6, <1>8
<1> QED
  BY <1>1, <1>3, <1>6, <1>8, <1>9, <1>10 DEF Caught, d

=============================================================================
