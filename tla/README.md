# TLA+ models of FISCO-BCOS PBFT sealing

This directory has TLA+ specifications of the PBFT seal engine of FISCO-BCOS
(`src/libpbftseal/PBFT.cpp`) and of the parts of the Ethereum client
(`src/libethereum/Client.cpp`) that drive it. It also has the TLC
configurations that check them.

## The system

Each miner runs one `PBFT` object and one `Client`.

- **PBFT engine** (`PBFT.cpp`). A worker thread (`workLoop`) runs these in turn:
  - it pops one packet and dispatches it (`handleMsg`) to one of
    `handlePrepareMsg`, `handleSignMsg`, `handleCommitMsg` and
    `handleViewChangeMsg`;
  - it calls `checkTimeout`, `handleFutureBlock` and `collectGarbage`.

  The handlers fill the vote caches and move a proposal through its phases:
  - `checkAndCommit` runs when the sign votes reach `quorum()`. It locks the
    proposal in `m_committed_prepare_cache`, writes it to the backup LevelDB
    and sends a commit vote.
  - `checkAndSave` runs when the sign and commit votes both reach `quorum()`.
    It hands the block to the client through `m_onSealGenerated`.
  - `checkTimeout` sends a view-change vote. `checkAndChangeView` moves to the
    new view once `quorum()-1` peers asked for it.

  The leader is `(view + highest) % N`.
- **Client** (`Client.cpp`). `doWork` runs `syncBlockQueue` (import a block,
  then `onChainChanged`, which calls `reportBlock` on the engine) and
  `rejigSealing` in turn, on one thread.
  - `rejigSealing` asks `shouldSeal`. When this node leads and holds no lock,
    it builds a block and calls `generateSeal`, which broadcasts the prepare.
    The sealer then calls `generateCommit`, which adds the leader's own sign
    vote.
  - When `shouldSeal` finds a lock at the current height, it calls
    `reHandlePrepareReq` to re-propose the locked block in the current view.
  - `submitSealed` puts a sealed block into the block queue.
  - Transactions wait in the queue `m_tq`. `syncTransactionQueue` executes
    them into the working block `m_working`, and `rejigSealing` commits it to
    seal.
  - Two flags wake the phases of `doWork`: `m_syncBlockQueue` (raised by the
    block queue) and `m_syncTransactionQueue` (raised by the transaction
    queue, and again by `resyncStateFromChain` after every import).
  - The engine's thread (`submitSealed`), the network (`queueBlock`) and RPC
    threads interleave with `doWork`.
- Not modelled:
  - The RPC server (`src/unnamed/part_000`) only routes JSON-RPC calls.
  - `src/unnamed/part_001` holds types and constants.
  - Neither takes part in consensus.

## Modules

| Module | What it is |
|---|---|
| `ConsensusChain` | The abstract promise: one sequence `decided` of blocks that grows by `Decide`. Each miner's `chain` is a prefix of it and grows by `Learn`. |
| `PBFT` | The engine and the client's sealing round for every miner of `Node`, with the network and crashes. |
| `BroadcastFilter` | The broadcast layer of `PBFT.cpp`: `broadcastMsg`, the per-peer known-key queues of `broadcastFilter`/`broadcastMark`, `clearMask`, and the one-hop relay at the end of `handleMsg`. |
| `MCBroadcastFilter` | Instantiates `BroadcastFilter`: miners 0, 1, 2 in a line (0-1-2) and observer 3 linked to 0 and 2, three proposals of miner 0, a vote of miner 1 and an old proposal of miner 2, queue cap 1. |
| `BlockSign` | `checkBlockSign` as operators (the per-entry loop is `RECURSIVE`) and `Certified`, the reference definition of a certificate. Its inputs are drawn in `Init` over bounded sets. |
| `ClientTx` | The client's transaction pipeline for one node: `m_tq`, `m_working`, `m_postSeal`, the block queue and the three phases of `doWork`. Consensus is abstracted to the block decided at each height. |
| `MCPBFT` | Instantiates `PBFT` for TLC: nodes `0..NodeCount-1`, two block bodies `b1`, `b2` as model values, and which bodies each miner's client seals. |

### PBFT: state

| Variable | Code |
|---|---|
| `pbft[i]` | The record of the engine's members: `m_view`, `m_to_view`, `m_leader_failed`, `m_consensus_block_number`, the raw, prepare, committed and future prepare caches, the sign and commit caches, `m_commitMap`, `m_recv_view_change_req` |
| `sealing[i]` | The client's sealing round: idle, `shouldSeal` said yes, or `generateSeal` done. It also keeps the height and view of the last proposal. |
| `chain[i]` | The local blockchain |
| `bq[i]` | The block queue |
| `up[i]` | Whether the process runs |
| `msgs` | Every packet ever sent. Receiving does not remove it, so the network may lose, duplicate and reorder packets. |
| `sealLog[i]` | The blocks passed to `m_onSealGenerated`, in order |
| `restarts[i]` | Restarts so far, bounded by `MaxRestarts` |

A vote (`Req`) is `<<height, view, idx, hash>>`. A block hash is the pair of a
height and a body. Caches that the code keys by signature are sets keyed by
`(hash, idx)`, because a signature is determined by its signer and the hash
signed.

### PBFT: operators and actions

The handlers are pure operators from a state to `[s, out, seal]`: the new
state, the packets sent and the blocks emitted. `Apply` installs that result.
Each handler includes every cache update and every `checkAnd*` call it makes,
in the code's order.

- Actions:
  - `Receive`: `workLoop` and `handleMsg`, for any packet ever sent.
  - `CheckTimeout`, `HandleFutureBlock`, `CollectGarbage`.
  - `ShouldSeal`, `GenerateSeal` and `GenerateCommit`: the three steps of a
    sealing round. Other threads (the worker loop's timeouts and handlers)
    can run between them, because the engine's mutex is taken per call.
    `ShouldSeal` lets a node propose once per height and view. The client
    that drives the engine is outside `src/` (`rejigSealing` alone would
    commit again on every pass), so this is an assumption: without it an
    honest leader proposes two bodies in one view, and `LockedDecision`
    fails under `MCCrash`.
  - `ReHandlePrepareReq`. It runs only between sealing rounds, because
    `shouldSeal`, its only caller, is asked by `rejigSealing` on the same
    thread that runs the round.
  - `ImportBlock`: `syncBlockQueue` followed by `reportBlock`.
  - `Crash` and `Restart`. `Restart` is `initEnv` plus `initBackupDB`, which
    reloads the lock.
- Time is abstracted. A timeout can fire at any step, which covers every
  setting of `m_view_timeout`.
- Signatures are taken to be valid, and every block passes `checkBlockValid`.
  All nodes are honest.

A miner in `BackupFailNodes` has every `m_backup_db->Put` fail. `BackupMsg`
then leaves the stored copy (`backup`) behind the in-memory lock, as
`backupMsg` does when it only logs the failure. `Restart` reloads `backup`.

### BroadcastFilter

- State:
  - `known[n][p][kd]` is miner n's queue of keys of kind kd that peer p is
    taken to know.
  - `inflight` is the packets written to a session and not yet handled.
  - `has[n]` is the keys n originated or handled.
- A key stands for `uniqueKey()`: kind, height, view, originator and hash.
- Actions:
  - `Originate` stands for the four `broadcast*Req` senders.
  - `ReHandlePrepareReq` is `clearMask` followed by a broadcast.
  - `HandleMsg` is the tail of `handleMsg`. A packet received straight from
    its originator, and within 10 heights of the tip, is relayed with the
    sender and the originator in the filter.
- The engine may broadcast a key it sent before, so the filter has something
  to suppress. For example, a sign vote is sent again when its prepare is
  accepted a second time in one view. `MaxBroadcasts` bounds this.
- Sessions are fixed for a run. A reconnect makes a fresh `PBFTPeer`, whose
  queues are empty as in `Init`.
- `PBFT` abstracts this layer by its set `msgs`. It assumes a handler never
  sees its own packets. The relay filter holds the originator, so no packet
  goes back to it.

`PROJECT.json` maps every definition to the lines it models.

### ClientTx

- State:
  - `tq` is `m_tq`;
  - `working` and `postSeal` are `m_working` and `m_postSeal`. Each holds its
    parent height, its executed transactions, the header `commitToSeal`
    fixed and whether `sealBlock` ran;
  - `bq` is the block queue;
  - `syncBQ` and `syncTQ` are the two flags, and `needReset` is
    `m_needStateReset`;
  - `pc` is the phase of `doWork`.
  - `m_preSeal` is always a fresh block on the tip, so it is the operator
    `PreSeal`.
- The history variables are:
  - `submitted` and `cleared`, the transactions submitted and those
    `clearPending` dropped;
  - `proposals`, every header passed to `generateSeal`;
  - `decided`, the block consensus decided at each height;
  - `sealCalled`, the heights whose decision reached `submitSealed`;
  - `replaced`, the transactions the queue replaced by a new version, and
    `staleW`, those `m_working` executed in a version since replaced.
- Actions of `doWork`, in its order:
  - `DoWorkSyncBlockQueue` is `syncBlockQueue`, then `onChainChanged` and
    `resyncStateFromChain`;
  - `DoWorkResetState` reads `m_needStateReset` and, if it is set, runs
    `resetState`; `DoWorkClearReset` is the later store of `false`. They are
    two steps because the flag is read and cleared apart, so a replacement
    can fall between them;
  - `DoWorkSyncTransactionQueue` is `syncTransactionQueue`;
  - `DoWorkRejigSealing` is `rejigSealing`, which runs `commitToSeal`, then
    `generateSeal`.
- Actions of the other threads:
  - `SubmitSealed` is the engine's seal callback;
  - `QueueBlock` is block sync from peers;
  - `SubmitTx` and `ClearPending` are RPC calls;
  - `Replace` is the queue replacing a queued transaction by a new version
    of it (same nonce) from an RPC thread; its `onReplaced` callback sets
    `m_needStateReset`. A transaction is one model value in both versions.
  - `DecideOwn` and `DecidePeer` are consensus.
- `PBFT` checks consensus itself. Here a leader height is decided as one of
  the node's own proposals, and any other height as a peer's block of known
  transactions.
- The transaction queue and `Block` are outside `src/`. They follow the
  interfaces `spec.md` names:
  - the queue keeps a transaction until `dropGood`, or until `Block::sync`
    finds it already in the chain;
  - `sealBlock` succeeds only for the header the block was committed with.
- Replacement is the queue's own decision (gas price, nonce). `Replace`
  lets any queued transaction of `ReplaceTx` not in the chain be replaced
  once.

## Runs

The runs use `MCPBFT` unless the table names another module.

| Run (cfg) | Bounds | Checks | Result |
|---|---|---|---|
| `MCNormal` | N=4, node 3 down, 2 heights, no view change, `FairSpec` | `CommitCertified`, `EveryHeightDecided` | pass |
| `MCViewChange` | N=2, 1 height, views 0..2 | `TypeOK`, `CommitCertified`, `LockedDecision`, `Refinement`, `ViewMonotonic` | pass |
| `MCCrash` | N=2, both may crash and restart once, both seal either body | `LockedDecision`, `Refinement` | pass |
| `MCClientTx` (`ClientTx`) | 2 transactions, heights 1..3, node leads 1 and 3, `t1` replaceable, `FairSpec` | `ChainIsDecided`, `NoTxLoss`, `StaleWorkingFlagged`, `TxEventuallyChained`, `BlocksImported` | pass |
| `MCSignQuorum` | N=4 all live | `SignQuorumLocks` | violation |
| `MCDoubleSeal` | N=2, views 0..1 | `AtMostOnceEmission` | violation |
| `MCEquivocation` | as `MCViewChange`, `Spec` | `NoEquivocation` | violation |
| `MCBackupFail` | as `MCCrash`, backup writes of both miners fail | `Refinement` | violation |
| `MCBroadcast` (`MCBroadcastFilter`) | 4 nodes, 4 broadcasts, cap 1, `FairSpec` | `KnownImpliesHeld`, `Disseminated` | pass |
| `MCPeerSeen` (`MCBroadcastFilter`) | as `MCBroadcast` | `PeerSeenBound` | violation |
| `MCSignList` (`BlockSign`) | N=4, every sign list of up to 3 entries over 2 hashes | `AcceptedIsCertified` | violation |

`Refinement` checks `ConsensusChain!Spec` under the following mapping:
`decided` is the blocks emitted by any miner, ordered by height, and `chain`
is the miners' chains. It states agreement (no two blocks at one height) and
that every imported block was decided.

### Findings

The violations are disagreements between the code and what `spec.md` says of
it. `PROJECT.json` lists them with the code lines.

1. **`checkAndCommit` tests `have_sign == quorum()`** (line 1172). Sign votes
   cached before their prepare make the count overshoot. The replica then
   never locks and never sends its commit (`MCSignQuorum`).
2. **`checkAndChangeView` clears `m_commitMap`** (line 1212). A block decided
   before a view change is emitted again when the locked prepare is
   re-proposed (`MCDoubleSeal`).
3. **`generateSeal` does not re-check that the node still leads** (line
   183). It takes the current `m_view`, which a timeout may have changed
   since `shouldSeal`. Node 0 starts a round as leader of view 0, and the
   view moves to 1. Node 0 then proposes and signs b1 in view 1, which node
   1 leads. When node 1 proposes b2, node 0 signs that too: an honest node
   signs two blocks at one height and view (`MCEquivocation`). Spec 4.5.1
   lets only the leader of the view seal. The same trace leaves
   `m_prepare_cache` different from `m_raw_prepare_cache`
   (`PrepareMatchesRaw`, kept in `PBFT` without a run).

   Locks still hold: `LockedDecision` passes in `MCViewChange` and `MCCrash`,
   and at N=2 agreement holds (`Refinement`).

4. **`backupMsg` only logs a failed write** (line 1485), and the commit
   vote is still sent. After a restart the replica has lost its lock. With
   both miners of a two-miner system in this state, two blocks are emitted at
   height 1 (`MCBackupFail`). With one failing miner out of two, agreement
   holds.
5. **`broadcastMark` pops only when a queue is larger than its cap** (line
   691). A peer's queue therefore holds cap + 1 keys, against spec §8
   invariant 7 (`MCPeerSeen`). Only memory is at stake: `KnownImpliesHeld`
   and `Disseminated` hold with eviction taking place.

6. **`checkBlockSign` counts entries, not signers** (line 1447). One miner's
   valid signature repeated N - (N-1)/3 times passes the count test and
   every per-entry check, so a single miner can make a block that every node
   imports (`MCSignList`). The sign list `checkAndSave` builds has one entry
   per commit-cache voter, so honest blocks are not affected.

Also noted, without a run:

- The engine may call `submitSealed` after the doWork thread has already
  imported the same block from peers. Then `resyncStateFromChain` finds
  `m_postSeal` unsealed and imports its transactions into `m_tq` again (line
  670). These transactions are already in the chain. The comment of
  `onNewBlocks` says imported transactions are removed from `m_tq` "rather
  than relying on out of date nonce later on".
  - `TqDisjointChain` states that comment. TLC finds it violated in 8 steps
    with the constants of `MCClientTx` and `SPECIFICATION Spec`.
  - The next transaction sync drops these transactions again, so nothing is
    lost (`NoTxLoss` holds), so it is left without a run of its own.
- `doWork` reads `m_needStateReset`, runs `resetState` and only then stores
  `false` (lines 828-833), so a replacement signalled during `resetState` is
  erased. `StaleWorkingFlagged` (in `MCClientTx`) shows this is harmless:
  such a replacement finds `m_working` already emptied, so a stale version
  is never left in `m_working` without the flag set. The mutant in which
  `resetState` leaves `m_working` alone breaks it.
- When `handlePrepareMsg` receives an empty block,
it changes the view but does not set `m_leader_failed`. Spec §4.5.3 step 7
says it does.

## Bounds

- **MCNormal.** Four nodes with one down is the smallest system where a
  quorum (3) is less than N and a node can miss a phase.
  - Two heights exercise `reportBlock`, the future cache and the leader
    rotation.
  - With all four live, or with view changes at N=4, the state space grows
    past several million states. So view changes and crashes are checked at N=2 (F=0, quorum 2). There every vote counts, and all the
    interleavings of timeouts, sealing rounds and late votes still occur.
- **View changes.** Three views let a node lock in one view, change view
  twice and be leader again, which finding 3 needs.
- **Broadcast.** The line 0-1-2 is the smallest topology where a relay is
  needed. The observer checks that non-miners are skipped, and miner 2's old
  proposal checks the relay's height gate.
  - With a cap of 1, three proposals of miner 0 evict the first. A fourth
    broadcast then re-sends a key, which exercises both suppression and
    eviction.
- **Block sign.** N=4 is the smallest roster with F=1, where the count
  threshold (3) is below N. Sign lists up to 3 entries over two hashes and
  5 indexes (one out of range) cover every way an entry can fail.
- **ClientTx.** Two transactions and three heights are enough for both
  kinds of block: the node leads heights 1 and 3, and a peer leads 2.
  Both paths of a decided block into `m_bq` can race. A transaction can miss
  one leader height and still have the next. Transactions are submitted
  only while two leader heights remain, so each one has a block it can go
  into. One transaction (`ReplaceTx = {t1}`) can be replaced; it can be in
  `m_working`, committed or sealed when that happens, and the replacement
  can fall between any two steps of `doWork`, including between
  `resetState` and the store of `false`. Two replaceable transactions
  take the run past ten minutes without adding an interleaving of the flag,
  and so does a fourth height, which repeats the peer height 2.
- **Crashes.** `MaxRestarts = 1` per node is enough for a crash between
  locking and committing.

## Fairness

`FairSpec` (used by `MCNormal`) assumes weak fairness for each live miner's
steps:
- receiving a packet that is in the network;
- `handleFutureBlock`;
- each step of the sealing round;
- `reHandlePrepareReq`;
- importing a block.

The code justifies this:
- `workLoop` runs forever and calls `handleFutureBlock` on every iteration.
- Peers talk over TCP, and the engine rebroadcasts on every step.
- `doWork` loops over `syncBlockQueue` and `rejigSealing`.

`MCBroadcast` assumes weak fairness of handling each in-flight packet. A
session is a TCP connection and `workLoop` pops every queued packet. Nothing
makes the engine broadcast, so origination is not fair.

`MCClientTx` assumes weak fairness of:
- the three phases of `doWork`, which loops forever and waits at most one
  second;
- consensus deciding each height, which `EveryHeightDecided` checks of
  `PBFT` without view changes;
- the seal callback, and block sync fetching every decided block.

Transaction submissions and `clearPending` are RPC calls, so they are not
fair.

`checkTimeout` and crashes are not fair, because no run needs them to happen.
`EveryHeightDecided` is checked without view changes (`MaxView = 0`).

## Not modelled, and the plan

- **Session loss during a broadcast.** A peer disconnected at that moment
  never gets the packet, and the code has no retry. Consensus then relies on
  the view change. `BroadcastFilter` keeps sessions fixed.
- **The composition of `BroadcastFilter` with `PBFT`.** `PBFT`'s network is
  a superset of what the broadcast layer delivers.
- **The empty-block path.** `handlePrepareMsg` still models it
  (`OmitEmptyBlock`, `EmptyBlocks`), but no run checks it now. Its check only
  restated the guard that refuses to sign an empty block.
- **Client paths outside consensus:**
  - The dead blocks of `onChainChanged`. PBFT has no forks.
  - `reopenChain`, `rewind` and `updateConfig`. `updateConfig` runs once,
    sequentially; its one hazard is the 256-bit product `min_block_gas`
    (line 138), which can wrap, and that is outside TLC's integers.
  - Filters, watches and `tick`.
- **Roster changes in `resetConfig`, and Byzantine miners.**
- **Timestamps**, `m_change_cycle` and the view-change backoff. They affect
  when timeouts happen, not which steps are possible.
- **Liveness with view changes.** This needs a fairness assumption on timeouts
  and is planned.
