---------------------------- MODULE xBlockAcct -----------------------------
(***************************************************************************)
(* xblockacct_t / xchainacct_t: the block store of one account.  A cache   *)
(* of block objects over a database that keeps one block at each height,   *)
(* and a record of heights (xacctmeta_t) that is written only when the     *)
(* account is closed.                                                      *)
(*                                                                         *)
(* The store is a record s:                                                *)
(*   cache      m_all_blocks                                               *)
(*   prev       objects whose m_prev_block is set.  Closing a block drops  *)
(*              its own link only: a child goes on pointing at a parent    *)
(*              that was thrown out of the cache.                          *)
(*   locked, committed, connected, executed, stored                        *)
(*              the flags of the block objects, one object for a hash      *)
(*   meta       m_meta.  A hash that may be empty is a set of at most one  *)
(*              block.                                                     *)
(*   disk       what a crash leaves: the blocks of the database with their *)
(*              flags, the /lastcert/ block (written as header and body),  *)
(*              the blocks xstore executed, in order, and the saved meta   *)
(*   trail      the disk after each write of the operation that runs       *)
(* The operators below take and return such records, since one call of     *)
(* store_block runs through all of them under the lock of the account.     *)
(*                                                                         *)
(* Blocks are neither full blocks nor containers, and the account stays    *)
(* below the enum_max_cached_blocks heights from which clean_blocks evicts. *)
(***************************************************************************)
EXTENDS xBlockTree, Sequences, SequencesExt

Higher(m, n) == IF m > n THEN m ELSE n

At(s, h) == {b \in s.cache : height[b] = h}

\* query_block: of the blocks S of one height, the one with the highest view.
Newest(S) == {b \in S : \A c \in S : view[c] <= view[b]}

\* query_latest_block: the highest height first, then the highest view.
Latest(S) == Newest({b \in S : \A c \in S : height[c] <= height[b]})

\* xacctmeta_t::xacctmeta_t
EmptyMeta == [cert |-> 0, lock |-> 0, commit |-> 0,
              connect |-> 0, connectHash |-> {}, exec |-> 0, execHash |-> {}]

EmptyDisk == [db |-> {}, committed |-> {}, connected |-> {}, executed |-> {},
              lastcert |-> {}, lastbody |-> {}, execs |-> <<>>, meta |-> EmptyMeta]

Write(s, d) == [s EXCEPT !.disk = d, !.trail = Append(@, d)]

\* get_modified_count() > 0: the object is not what the database holds.
Modified(s, b) ==
    \/ b \notin s.locked \cup s.committed
    \/ b \notin s.disk.db
    \/ (b \in s.committed) # (b \in s.disk.committed)
    \/ (b \in s.connected) # (b \in s.disk.connected)
    \/ (b \in s.executed) # (b \in s.disk.executed)

\* Throw blocks out of the cache: xvblock_t::close and erase.
Erase(s, S) == [s EXCEPT !.cache = @ \ S, !.prev = @ \ S]

\* A bug: the key is the hash.
set_vblock_mutant(s, b) ==
    [Write(s, [s.disk EXCEPT !.db = @ \cup {b}]) EXCEPT !.stored = @ \cup {b}]

\* xstore::set_vblock and set_vblock_header: the key is the height.
set_vblock(s, b) ==
    LET Put(S, flag) == {c \in S : height[c] # height[b]} \cup ({b} \cap flag)
    IN  [Write(s, [s.disk EXCEPT !.db = Put(@, Block),
                                 !.committed = Put(@, s.committed),
                                 !.connected = Put(@, s.connected),
                                 !.executed = Put(@, s.executed)])
         EXCEPT !.stored = @ \cup {b}]

\* store_block_by_path: the body first, then the header.
store_lastcert(s, b) ==
    LET body == Write(s, [s.disk EXCEPT !.lastbody = {b}])
    IN  Write(body, [body.disk EXCEPT !.lastcert = {b}])

\* Step 1 of save_to_xdb: a committed block is connected when the block below is.
MarkConnected(s, b) ==
    IF /\ b \in s.committed
       /\ \/ height[b] <= s.meta.connect
          \/ b \in s.prev /\ parent[b] \in s.connected
          \/ height[b] = s.meta.connect + 1 /\ s.meta.connectHash = {parent[b]}
    THEN [s EXCEPT !.connected = @ \cup {b}]
    ELSE s

ConnectTo(s, b) ==
    [s EXCEPT !.meta.connect = height[b], !.meta.connectHash = {b}, !.connected = @ \cup {b}]

RECURSIVE ExtendConnect(_)

\* On along the committed blocks in the cache; at each height the lowest view counts.
ExtendConnect(s) ==
    LET same == At(s, s.meta.connect + 1)
        next == {c \in same : /\ \A d \in same : view[c] <= view[d]
                              /\ c \in s.committed
                              /\ s.meta.connectHash = {parent[c]}}
    IN  IF next = {} THEN s ELSE ExtendConnect(ConnectTo(s, CHOOSE c \in next : TRUE))

\* The highest connected block moves up to b, and on from there.
RaiseConnect(s, b) ==
    IF b \in s.connected /\ height[b] > s.meta.connect
    THEN ExtendConnect(ConnectTo(s, b))
    ELSE s

\* A bug: a block that is saved does not raise the locked height.
RaiseMeta_mutant(s, b) ==
    LET cert == [s EXCEPT !.meta.cert = Higher(@, height[b])]
    IN  IF b \in s.committed
        THEN RaiseConnect([cert EXCEPT !.meta.commit = Higher(@, height[b])], b)
        ELSE cert

\* The heights after a locked or committed block was saved or loaded.
RaiseMeta(s, b) ==
    LET lock == [s EXCEPT !.meta.cert = Higher(@, height[b]),
                          !.meta.lock = Higher(@, height[b])]
    IN  IF b \in s.committed
        THEN RaiseConnect([lock EXCEPT !.meta.commit = Higher(@, height[b])], b)
        ELSE lock

\* A bug: a block that was saved as locked is not saved again as committed.
SaveModified_mutant(s, b) ==
    IF b \in s.stored THEN s ELSE RaiseMeta(set_vblock(s, b), b)

\* Steps 2 to 4 of save_to_xdb.
SaveModified(s, b) ==
    IF b \in s.stored /\ ~ Modified(s, b) THEN s ELSE RaiseMeta(set_vblock(s, b), b)

\* Of the blocks that are only certified, the last is kept aside.
save_to_xdb(s, b) ==
    CASE b \in s.locked \cup s.committed -> SaveModified(MarkConnected(s, b), b)
      [] b \notin s.locked \cup s.committed /\ height[b] > s.meta.cert ->
            [store_lastcert(s, b) EXCEPT !.meta.cert = height[b]]
      [] OTHER -> s

\* A bug: what a crash interrupted is executed again.
xstore_execute_mutant(s, b) == Write(s, [s.disk EXCEPT !.execs = Append(@, b)])

\* xstore::execute_block: a block at or below the last executed one is left alone.
xstore_execute(s, b) ==
    IF s.disk.execs = <<>> \/ height[b] > height[Last(s.disk.execs)]
    THEN Write(s, [s.disk EXCEPT !.execs = Append(@, b)])
    ELSE s

ReadyToExecute(s, b) ==
    \/ s.meta.exec = 0 /\ height[b] = 0
    \/ height[b] = s.meta.exec + 1 /\ s.meta.execHash = {parent[b]}

execute_block(s, b) ==
    LET Executed(t) == [t EXCEPT !.meta.exec = height[b], !.meta.execHash = {b}]
    IN  CASE b \notin s.committed \cap s.connected -> s
          [] b \in s.committed \cap s.connected \cap s.executed ->
                IF s.meta.exec < height[b] THEN Executed(s) ELSE s
          [] OTHER ->
                IF ReadyToExecute(s, b)
                THEN Executed(save_to_xdb([xstore_execute(s, b) EXCEPT
                                                !.executed = @ \cup {b}], b))
                ELSE s

\* clean_candidates: b's height keeps only blocks of b's stage or a later one.
clean_candidates(s, b) ==
    LET others == At(s, height[b])
    IN  CASE b \in s.committed -> Erase(s, others \ s.committed)
          [] b \in s.locked \ s.committed -> Erase(s, others \ s.locked)
          [] OTHER -> s

RECURSIVE load_block(_, _, _), save_block(_, _), Execute(_, _), connect_block(_, _, _),
          LinkAll(_, _), ProcessAll(_, _)

\* The locked block at height h, from the cache or else from the database.
load_block_object(s, h) ==
    LET cached == Newest(At(s, h) \cap s.locked)
    IN  IF cached # {} THEN [s |-> s, got |-> cached] ELSE load_block(s, h, 1)

\* save_block tries to execute history blocks, up to the highest connected height.
ExecuteHistory(s, last) ==
    IF s.meta.exec > last /\ s.meta.exec < s.meta.connect
    THEN Execute(load_block_object(s, s.meta.exec + 1), s.meta.exec)
    ELSE s

\* Execute the block of r, if there is one, and go on while that gets above last.
Execute(r, last) ==
    ExecuteHistory(IF r.got = {} THEN r.s ELSE execute_block(r.s, CHOOSE b \in r.got : TRUE),
                   last)

\* The first committed block takes a genesis block that is not stored yet with it.
save_block(s, b) ==
    LET g == IF /\ height[b] = 1 /\ b \in s.committed
                /\ Genesis \in s.cache \ s.stored
             THEN save_block(s, Genesis)
             ELSE s
    IN  Execute([s |-> save_to_xdb(g, b), got |-> {b}], -1)

\* process_block: b locks its parent, and commits it when b is locked itself.
LockParent(s, b) ==
    LET p == parent[b]
    IN  IF p \notin s.locked \/ s.meta.lock < height[p]
        THEN clean_candidates(
                save_block([s EXCEPT !.locked = @ \cup {p},
                                     !.committed = IF b \in s.locked THEN @ \cup {p} ELSE @],
                           p), p)
        ELSE s

\* process_block: b commits the block that its parent is linked to.
CommitGrandparent(s, b) ==
    LET g == grandparent(b)
    IN  IF /\ parent[b] \in s.prev
           /\ g \notin s.committed \/ s.meta.commit < height[g] \/ s.meta.exec < height[g]
        THEN clean_candidates(save_block([s EXCEPT !.committed = @ \cup {g}], g), g)
        ELSE s

(***************************************************************************)
(* xchainacct_t::process_block, for a block that is linked.  The comments  *)
(* in the code explain the tests of meta: xBFT sets the flags of the       *)
(* shared objects before the store does.                                   *)
(***************************************************************************)
process_block(s, b) ==
    IF b \in s.prev THEN CommitGrandparent(LockParent(s, b), b) ELSE s

Link(s, b) == process_block([s EXCEPT !.prev = @ \cup {b}], b)

\* Step 1 of connect_block: the parent is in the cache.
LinkParent(s, b) == IF b # Genesis /\ parent[b] \in s.cache THEN Link(s, b) ELSE s

\* What load_block found at the height below is the parent.
LinkLoaded(r, b) == IF r.got = {parent[b]} THEN Link(r.s, b) ELSE r.s

\* Step 2: the parent may be in the database.
LoadParent(s, b, reenter) ==
    IF b # Genesis /\ (b \notin s.prev \/ parent[b] \notin s.cache) /\ reenter > 0
    THEN LinkLoaded(load_block(s, height[b] - 1, reenter - 1), b)
    ELSE s

\* Link the blocks S of one height, from the highest view down.
LinkAll(s, S) ==
    LET first == CHOOSE b \in Newest(S) : TRUE
    IN  IF S = {} THEN s ELSE LinkAll(Link(s, first), S \ {first})

\* Step 3: the children in the cache.
LinkChildren(s, b) == LinkAll(s, {c \in At(s, height[b] + 1) : parent[c] = b})

ProcessAll(s, S) ==
    LET first == CHOOSE b \in Newest(S) : TRUE
    IN  IF S = {} THEN s ELSE ProcessAll(process_block(s, first), S \ {first})

\* Step 4: the blocks two above.
ProcessAbove(s, b) ==
    IF At(s, height[b] + 1) = {} THEN s ELSE ProcessAll(s, At(s, height[b] + 2))

\* xchainacct_t::connect_block: link b to its parent and its children, and process them.
connect_block(s, b, reenter) ==
    ProcessAbove(LinkChildren(LoadParent(LinkParent(s, b), b, reenter), b), b)

\* The object that the database holds for b, or a new genesis object.
Loaded(s, b) ==
    LET Take(S, flag) == (S \ {b}) \cup ({b} \cap (IF b \in s.disk.db THEN flag ELSE {}))
    IN  [s EXCEPT !.cache = @ \cup {b},
                  !.prev = @ \ {b},
                  !.stored = Take(@, s.disk.db),
                  !.locked = @ \cup {b},
                  !.committed = Take(@, s.disk.committed) \cup ({b} \cap {Genesis}),
                  !.connected = Take(@, s.disk.connected) \cup ({b} \cap {Genesis}),
                  !.executed = Take(@, s.disk.executed)]

(***************************************************************************)
(* The database has b at height h (the genesis block is made on demand).   *)
(* The result is empty when there is none, or its view is taken already.   *)
(***************************************************************************)
load_block(s, h, reenter) ==
    LET found == {b \in s.disk.db \cup {Genesis} : height[b] = h}
        b == CHOOSE c \in found : TRUE
        Raise(t) == RaiseMeta(MarkConnected(t, b), b)
    IN  IF found = {} \/ \E c \in At(s, h) : view[c] = view[b]
        THEN [s |-> s, got |-> {}]
        ELSE [s |-> Raise(connect_block(Loaded(s, b), b, reenter)), got |-> {b}]

(***************************************************************************)
(* A block may take the slot of old, which is not committed, when the      *)
(* committed block above, if r holds it, stands on the new one.            *)
(***************************************************************************)
Replace(r, b, old) ==
    LET above == {c \in At(r.s, height[b] + 1) : parent[c] = b}
        kept == {b} \cap {c \in Proposed : old \in r.s.prev /\ parent[c] = parent[old]}
    IN  IF \E c \in r.got \cap r.s.committed : parent[c] = b
        THEN save_block([Erase(r.s, {old}) EXCEPT
                            !.cache = @ \cup {b},
                            !.prev = @ \cup kept \cup above,
                            !.stored = IF old \in @ THEN @ \cup {b} ELSE @], b)
        ELSE r.s

\* store_block finds the block old in b's slot: the same object, or a fork.
Reuse(s, b, old) ==
    CASE old = b -> IF Modified(s, b) THEN save_block(s, b) ELSE s
      [] old # b /\ old \in s.committed -> s
      [] OTHER -> Replace(load_block_object(s, height[b] + 1), b, old)

SaveNew(s, b) == IF Modified(s, b) THEN save_block(s, b) ELSE s

\* store_block finds no block in b's slot.
Insert(s, b) == SaveNew(connect_block([s EXCEPT !.cache = @ \cup {b}], b, 1), b)

\* A bug: rule 2 is missing, so a certified block may join a locked or committed one.
Slots_mutant(s, b) ==
    LET same == At(s, height[b])
    IN  [bar |-> {}, lower |-> {}, peers |-> {c \in same : view[c] = view[b]}]

(***************************************************************************)
(* The "3 rules for managing cache": blocks of a lower stage make way, one *)
(* locked or committed block at a height, and no overwriting at one stage. *)
(* Of the blocks at b's height, bar holds those that keep b out, lower     *)
(* those that make way, and peers those whose slot b would take.           *)
(***************************************************************************)
Slots(s, b) ==
    LET same == At(s, height[b])
    IN  CASE b \in s.committed ->
                [bar |-> {}, lower |-> same \ s.committed, peers |-> same \cap s.committed]
          [] b \in s.locked \ s.committed ->
                [bar |-> same \cap s.committed,
                 lower |-> same \ s.locked, peers |-> same \cap s.locked]
          [] OTHER ->
                [bar |-> same \cap (s.locked \cup s.committed),
                 lower |-> {}, peers |-> {c \in same : view[c] = view[b]}]

Put(s, b) ==
    LET slots == Slots(s, b)
        room == Erase(s, slots.lower)
    IN  CASE slots.bar # {} -> s
          [] slots.bar = {} /\ slots.peers = {} -> Insert(room, b)
          [] OTHER -> Reuse(room, b, CHOOSE c \in Newest(slots.peers) : TRUE)

\* xblockacct_t::store_block first loads what the database has at b's height.
store_block(s, b) ==
    LET h == height[b]
    IN  Put(IF At(s, h) = {} /\ (h <= s.meta.commit \/ h <= s.meta.exec \/ h <= s.meta.connect)
            THEN load_block(s, h, 0).s
            ELSE s,
            b)

\* Where the store r has dropped b, an older object of b keeps the flags it had in s.
KeepOld(r, s, b) ==
    LET Old(S, flag) == IF b \in r.cache THEN S ELSE S \cup ({b} \cap flag)
    IN  [r EXCEPT !.locked = Old(@, s.locked),
                  !.committed = Old(@, s.committed),
                  !.connected = Old(@, s.connected),
                  !.executed = Old(@, s.executed),
                  !.stored = Old(@, s.stored)]

(***************************************************************************)
(* xsyncvstore_t::store_block: a block that came from a peer is a new      *)
(* object whose flags are cleared; only its certificate is verified.       *)
(***************************************************************************)
sync_store_block(s, b) ==
    LET fresh == [s EXCEPT !.prev = @ \ {b}, !.locked = @ \ {b}, !.committed = @ \ {b},
                           !.connected = @ \ {b}, !.executed = @ \ {b}, !.stored = @ \ {b}]
    IN  IF b \in s.cache THEN s ELSE KeepOld(store_block(fresh, b), s, b)

\* get_latest_blocks_list
LatestCert(s) == CHOOSE b \in Latest(s.cache) : TRUE
LatestLock(s) == CHOOSE b \in Latest(s.cache \cap s.locked) : TRUE
LatestCommit(s) == CHOOSE b \in Latest(s.cache \cap s.committed) : TRUE

---------------------------------------------------------------------------

\* A field of meta is raised to h when load_block_object found a block there.
RaiseTo(r, h, field) ==
    IF r.got # {} /\ r.s.meta[field] < h THEN [r.s EXCEPT !.meta[field] = h] ELSE r.s

TryHeight(s, h, field) == RaiseTo(load_block_object(s, h), h, field)

\* A bug: the height of the last certified block is taken over alone.
RecoverCert_mutant(s) ==
    [s EXCEPT !.meta.cert = Max({@} \cup {height[b] : b \in s.disk.lastcert})]

\* check_meta: the last certified block is newer than the saved meta.
RecoverCert(s) ==
    LET cert == Max({0} \cup {height[b] : b \in s.disk.lastcert})
        TryCommit(t) == IF cert = 1 THEN t ELSE TryHeight(t, cert - 2, "commit")
    IN  IF cert > s.meta.cert
        THEN TryCommit(TryHeight([s EXCEPT !.meta.cert = cert], cert - 1, "lock"))
        ELSE s

\* check_meta: the last block that xstore executed is newer than the meta.
RecoverExecuted(s) ==
    LET last == Last(s.disk.execs)
        exec == [s EXCEPT !.meta.exec = height[last],
                          !.meta.execHash = {last},
                          !.meta.commit = Higher(@, height[last]),
                          !.meta.lock = Higher(@, Higher(s.meta.commit, height[last]))]
        RaiseCert(t) == [t EXCEPT !.meta.cert = Higher(@, t.meta.lock)]
    IN  IF s.disk.execs # <<>> /\ s.meta.exec < height[last]
        THEN RaiseCert(TryHeight(exec, exec.meta.commit + 1, "lock"))
        ELSE s

check_meta(s) == RecoverExecuted(RecoverCert(s))

RECURSIVE Failover(_)

\* init: the highest connected block cannot be loaded, so look for one below it.
Failover(s) ==
    LET Try(r) == IF r.got = {} THEN Failover(r.s) ELSE [r.s EXCEPT !.meta.connectHash = r.got]
    IN  IF s.meta.connect = 0
        THEN s
        ELSE Try(load_block([s EXCEPT !.meta.connect = @ - 1], s.meta.connect - 1, 1))

\* init loads the highest connected, full, executed, committed and locked block in turn;
\* the genesis block counts as the last full block.
LoadHighest(s, field) ==
    LET Take(r) ==
            CASE field = "connect" /\ r.got = {} -> Failover([r.s EXCEPT !.meta.connectHash = {}])
              [] field = "connect" /\ r.got # {} ->
                    [r.s EXCEPT !.meta.connectHash = IF @ = {} THEN r.got ELSE @]
              [] field = "commit" /\ r.got = {} -> [r.s EXCEPT !.meta.commit = 0]
              [] field = "lock" /\ r.got = {} -> [r.s EXCEPT !.meta.lock = r.s.meta.commit]
              [] OTHER -> r.s
    IN  Take(load_block_object(s, IF field = "full" THEN 0 ELSE s.meta[field]))

\* The last certified block comes from the /lastcert/ path.
LoadCertified(s) ==
    LET top == {b \in s.disk.lastcert \cap s.disk.lastbody :
                    height[b] = s.meta.cert /\ s.meta.cert > s.meta.lock}
    IN  IF top = {} THEN s ELSE store_block(s, CHOOSE b \in top : TRUE)

\* An account that is not open: the disk d.
Closed(d) ==
    [cache |-> {}, prev |-> {}, locked |-> {}, committed |-> {}, connected |-> {},
     executed |-> {}, stored |-> {}, meta |-> d.meta, disk |-> d, trail |-> <<>>]

\* xblockacct_t::init
init(d) ==
    LoadCertified(FoldLeft(LoadHighest, check_meta(Closed(d)),
                           <<"connect", "full", "exec", "commit", "lock">>))

\* close_blocks, for one block of the cache.
CloseBlock(s, b) ==
    LET To(t) == [t EXCEPT !.meta.connect = height[b], !.meta.connectHash = {b}]
        s1 == CASE b \in s.stored \cap s.connected ->
                        IF height[b] > s.meta.connect THEN To(s) ELSE s
                [] b \in (s.stored \cap s.committed) \ s.connected ->
                        IF height[b] = s.meta.connect + 1 /\ s.meta.connectHash = {parent[b]}
                        THEN [To(s) EXCEPT !.connected = @ \cup {b}]
                        ELSE s
                [] OTHER -> s
    IN  IF Modified(s1, b) THEN save_block(s1, b) ELSE s1

RECURSIVE CloseAll(_, _)

\* close_blocks walks the cache from the lowest height up, and there from the lowest view up.
CloseAll(s, S) ==
    LET lowest == {b \in S : \A c \in S : height[b] <= height[c]}
        first == CHOOSE b \in lowest : \A c \in lowest : view[b] <= view[c]
    IN  IF S = {} THEN s ELSE CloseAll(CloseBlock(s, first), S \ {first})

\* xblockacct_t::close, from which only the disk is left.
close(s) ==
    LET top == CHOOSE b \in Latest(s.cache) : TRUE
        SaveMeta(t) == Write(t, [t.disk EXCEPT !.meta = t.meta])
    IN  SaveMeta(CloseAll(IF top \in s.locked \cup s.committed THEN s ELSE store_lastcert(s, top),
                          s.cache))

============================================================================
