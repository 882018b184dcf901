---------------------------- MODULE xBlockStore ----------------------------
(***************************************************************************)
(* The block store as a running process: blocks arrive from the sync       *)
(* module in any order, idle accounts are closed and opened again, and the *)
(* process may crash at any write.                                         *)
(***************************************************************************)
EXTENDS xBlockAcct

CONSTANT Ahead  \* the blocks that gossip may bring before the blocks below them

ASSUME AheadAssumption == Ahead \subseteq Proposed

VARIABLES
    store,      \* the record of xBlockAcct; its trail is empty between operations
    acked,      \* the highest lock that was ever handed out (history)
    final,      \* every block the database ever held as committed (history)
    ahead       \* whether a block was stored before its parent (history)

vars == <<store, acked, final, ahead>>

IsOpen == store.cache # {}

\* An operation ends: the caller may now read the lock, and rely on it.
Done(s) ==
    LET lock == LatestLock(s)
    IN  /\ store' = [s EXCEPT !.trail = <<>>]
        /\ final' = final \cup s.disk.committed
        /\ acked' = IF height[lock] >= height[acked] THEN lock ELSE acked

\* The process dies after some write of the operation that leads to s.
DiesIn(s) ==
    \E d \in ToSet(s.trail) :
        /\ store' = Closed(d)
        /\ final' = final \cup d.committed
        /\ UNCHANGED acked

Init ==
    /\ store = Closed(EmptyDisk)
    /\ acked = Genesis
    /\ final = {}
    /\ ahead = FALSE

\* The first access opens the account.
Open ==
    /\ ~IsOpen
    /\ LET s == init(store.disk) IN Done(s) \/ DiesIn(s)
    /\ UNCHANGED ahead

\* The downloader fetches a chain upwards from the current block; table blocks that
\* arrive by gossip are written ahead of the blocks below them.
Sync(b) ==
    /\ IsOpen
    /\ b \in Ahead \/ parent[b] \in store.cache
    /\ LET s == sync_store_block(store, b) IN Done(s) \/ DiesIn(s)
    /\ ahead' = (ahead \/ parent[b] \notin store.cache)

\* The idle timer closes the account, and leaves what is on the disk after the last write.
Close == IsOpen /\ DiesIn(close(store)) /\ UNCHANGED ahead

\* The process dies between two operations.
Crash ==
    /\ IsOpen
    /\ store' = Closed(store.disk)
    /\ UNCHANGED <<acked, final, ahead>>

Next ==
    \/ \E b \in Proposed : Sync(b)
    \/ Open \/ Close \/ Crash

Spec == Init /\ [][Next]_vars

---------------------------------------------------------------------------

TypeOK ==
    /\ \A f \in {"cache", "prev", "locked", "committed", "connected", "executed", "stored"} :
            store[f] \subseteq Block
    /\ store.meta.cert \in Nat /\ store.meta.lock \in Nat /\ store.meta.commit \in Nat
    /\ store.meta.connect \in Nat /\ store.meta.exec \in Nat
    /\ \A b, c \in store.disk.db : height[b] = height[c] => b = c
    /\ store.disk.committed \cup store.disk.connected \cup store.disk.executed \subseteq store.disk.db
    /\ acked \in Block /\ final \subseteq Block

(***************************************************************************)
(* What xBFTRules::get_lock_block relies on after a restart: the lock that *)
(* the store reports never falls behind one it has reported, whatever      *)
(* write the process died at.                                              *)
(***************************************************************************)
LockKept == IsOpen => height[LatestLock(store)] >= height[acked]

(***************************************************************************)
(* A store whose blocks came upwards keeps the lock it has reported: init  *)
(* and check_meta recover it from the last certificate.                    *)
(***************************************************************************)
LockSurvives == ~ahead => LockKept

(***************************************************************************)
(* The assertions at the end of xblockacct_t::close hold at all times.     *)
(***************************************************************************)
MetaOrdered ==
    /\ store.meta.connect <= store.meta.commit
    /\ store.meta.commit <= store.meta.lock
    /\ store.meta.lock <= store.meta.cert

(***************************************************************************)
(* Blocks are executed once each, from the genesis block upwards along one *)
(* chain (execute_block's "restrict matched"), across crashes and forks.   *)
(***************************************************************************)
ExecutedInOrder ==
    \A i \in 1..Len(store.disk.execs) - 1 :
        parent[store.disk.execs[i + 1]] = store.disk.execs[i]

(***************************************************************************)
(* The database holds every block that xstore has executed: neither a fork *)
(* nor a crash puts another block at the height of an executed one.        *)
(***************************************************************************)
ExecutedStays == ToSet(store.disk.execs) \subseteq store.disk.db

(***************************************************************************)
(* A height whose block was once stored as committed never holds another   *)
(* block, if blocks came upwards: the rules of store_block, across crashes *)
(* and forks.                                                              *)
(***************************************************************************)
CommittedStays == ~ahead => final \subseteq store.disk.db

(***************************************************************************)
(* save_block "try to execute history block": execution follows the        *)
(* highest connected block, at most one block behind it (the block that    *)
(* was connected when the process died is executed with the next one).     *)
(***************************************************************************)
HistoryExecuted == store.meta.connect <= store.meta.exec + 1

============================================================================
