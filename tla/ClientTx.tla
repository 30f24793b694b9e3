------------------------------- MODULE ClientTx -------------------------------
(***************************************************************************)
(* The transaction pipeline of one node's client (src/libethereum/        *)
(* Client.cpp): the transaction queue m_tq, the working block m_working    *)
(* that collects transactions and is committed to seal, m_postSeal, the    *)
(* block queue m_bq, and the doWork loop with its flags                    *)
(* m_syncBlockQueue and m_syncTransactionQueue.  The doWork thread runs    *)
(* its phases in order; the seal engine's thread (submitSealed), the       *)
(* network (queueBlock) and RPC threads (transaction submission,           *)
(* clearPending) interleave with them.  Each step holds the locks of the   *)
(* code (x_working, x_postSeal), so it is atomic.                          *)
(*                                                                         *)
(* Consensus is abstracted: decided[h] is the block PBFT decides at height *)
(* h.  At the node's own leader heights it is one of the node's proposals  *)
(* (generateSeal); at others it is a peer's block of known transactions.   *)
(* A block is its height and its transactions: the hash of two blocks is   *)
(* equal exactly when these are.  The node is not major-syncing and has no *)
(* remote miner, so isSyncing() and m_remoteWorking are false.             *)
(***************************************************************************)
EXTENDS Naturals, Sequences, SequencesExt, FiniteSets

CONSTANTS
  Tx,          \* transactions (model values)
  MaxHeight,   \* no block above this height is decided
  OwnHeights,  \* the heights at which this node is the PBFT leader
  MaxBlockTx,  \* m_maxBlockTransactions
  ReplaceTx    \* the transactions whose sender sends a new version of them

ASSUME /\ MaxHeight \in Nat \ {0}
       /\ OwnHeights \subseteq 1 .. MaxHeight
       /\ MaxBlockTx \in Nat \ {0}
       /\ ReplaceTx \subseteq Tx

VARIABLES
  tq,         \* the current transactions of m_tq
  submitted,  \* every transaction submitted to this node (history)
  cleared,    \* the transactions clearPending dropped from m_tq (history)
  chain,      \* the blocks of bc(), heights 1 .. Len(chain)
  working,    \* m_working
  postSeal,   \* m_postSeal
  bq,         \* the blocks in m_bq
  syncBQ,     \* m_syncBlockQueue
  syncTQ,     \* m_syncTransactionQueue
  pc,         \* the phase of doWork the client's thread is at
  proposals,  \* every block passed to generateSeal
  decided,    \* decided[h]: the block consensus decided at height h
  sealCalled, \* the heights whose decision the engine passed to submitSealed
  needReset,  \* m_needStateReset
  replaced,   \* the transactions m_tq replaced by a new version (history)
  staleW      \* the transactions m_working executed in a version since replaced

vars == <<tq, submitted, cleared, chain, working, postSeal, bq, syncBQ,
          syncTQ, pc, proposals, decided, sealCalled, needReset, replaced,
          staleW>>

\* The variables of the replacement of transactions.
replVars == <<needReset, replaced, staleW>>

Block == [h : 1 .. MaxHeight, txs : SUBSET Tx]

\* The header of a block not committed to seal.
NoHeader == [h |-> 0, txs |-> {}]

\* A Block object: the height of its parent, its executed transactions
\* (pending()), the header commitToSeal fixed, and whether sealBlock ran.
WorkBlock == [parent : 0 .. MaxHeight, txs : SUBSET Tx,
              header : Block \cup {NoHeader}, sealed : BOOLEAN]

\* Block::sync(bc()) of a block behind the tip: a fresh block on the tip.
EmptyOn(n) == [parent |-> n, txs |-> {}, header |-> NoHeader, sealed |-> FALSE]

Tip == Len(chain)

\* m_preSeal: resyncStateFromChain keeps it a fresh block on the tip.
PreSeal == EmptyOn(Tip)

TxsOf(s) == UNION {s[i].txs : i \in DOMAIN s}
ChainTxs == TxsOf(chain)

(***************************************************************************)
(* Other threads.                                                          *)
(***************************************************************************)
\* A transaction submitted over RPC: m_tq.import, whose onReady callback
\* is onTransactionQueueReady.  Transactions are only submitted while two
\* leader heights are still to be decided, so each has a block to go in.
SubmitTx(t) ==
  /\ t \notin submitted
  /\ Cardinality({h \in OwnHeights : h > Len(decided)}) >= 2
  /\ tq' = tq \cup {t}
  /\ submitted' = submitted \cup {t}
  /\ syncTQ' = TRUE
  /\ UNCHANGED <<cleared, chain, working, postSeal, bq, syncBQ, pc, proposals,
                 decided, sealCalled>>
  /\ UNCHANGED replVars

\* PBFT decides one of the node's proposals at a leader height.
DecideOwn(p) ==
  /\ p \in proposals
  /\ p.h = Len(decided) + 1
  /\ decided' = Append(decided, p)
  /\ UNCHANGED <<tq, submitted, cleared, chain, working, postSeal, bq, syncBQ,
                 syncTQ, pc, proposals, sealCalled>>
  /\ UNCHANGED replVars

\* PBFT decides a peer leader's block, of transactions gossiped to it and
\* not yet decided.
DecidePeer(txs) ==
  /\ Len(decided) + 1 \in (1 .. MaxHeight) \ OwnHeights
  /\ txs \subseteq submitted \ TxsOf(decided)
  /\ Cardinality(txs) <= MaxBlockTx
  /\ decided' = Append(decided, [h |-> Len(decided) + 1, txs |-> txs])
  /\ UNCHANGED <<tq, submitted, cleared, chain, working, postSeal, bq, syncBQ,
                 syncTQ, pc, proposals, sealCalled>>
  /\ UNCHANGED replVars

\* Mutant: sealBlock does not compare the header with the committed one.
SubmitSealedAnyHeader(h) ==
  /\ h \in DOMAIN decided
  /\ decided[h] \in proposals
  /\ h \notin sealCalled
  /\ sealCalled' = sealCalled \cup {h}
  /\ IF working.header # NoHeader /\ ~working.sealed
     THEN /\ working' = [working EXCEPT !.sealed = TRUE]
          /\ postSeal' = working'
          /\ bq' = bq \cup {working.header}
          /\ syncBQ' = TRUE
     ELSE UNCHANGED <<working, postSeal, bq, syncBQ>>
  /\ UNCHANGED <<tq, submitted, cleared, chain, syncTQ, pc, proposals, decided>>
  /\ UNCHANGED replVars

\* The engine passes the decided block of its own proposal to the seal
\* callback, submitSealed: m_working.sealBlock succeeds only if the header
\* is the one m_working was committed with; then m_postSeal = m_working
\* and the block goes into m_bq, whose onReady raises m_syncBlockQueue.
SubmitSealed(h) ==
  /\ h \in DOMAIN decided
  /\ decided[h] \in proposals
  /\ h \notin sealCalled
  /\ sealCalled' = sealCalled \cup {h}
  /\ IF working.header = decided[h] /\ ~working.sealed
     THEN /\ working' = [working EXCEPT !.sealed = TRUE]
          /\ postSeal' = working'
          /\ bq' = bq \cup {working.header}
          /\ syncBQ' = TRUE
     ELSE UNCHANGED <<working, postSeal, bq, syncBQ>>
  /\ UNCHANGED <<tq, submitted, cleared, chain, syncTQ, pc, proposals, decided>>
  /\ UNCHANGED replVars

\* A transaction of m_tq replaced by a new version of it (same sender
\* and nonce, higher gas price): m_tq's onReplaced callback sets
\* m_needStateReset, and onReady raises m_syncTransactionQueue.  A version
\* m_working already executed is stale from now on.  A transaction of the
\* chain has a used nonce and is not replaced; each is replaced at most once.
Replace(t) ==
  /\ t \in tq \ ChainTxs
  /\ t \notin replaced
  /\ replaced' = replaced \cup {t}
  /\ needReset' = TRUE
  /\ syncTQ' = TRUE
  /\ staleW' = IF t \in working.txs THEN staleW \cup {t} ELSE staleW
  /\ UNCHANGED <<tq, submitted, cleared, chain, working, postSeal, bq, syncBQ,
                 pc, proposals, decided, sealCalled>>

\* Block sync from peers: queueBlock puts a decided block above the tip
\* into m_bq.
QueueBlock(h) ==
  /\ h \in DOMAIN decided
  /\ h > Tip
  /\ decided[h] \notin bq
  /\ bq' = bq \cup {decided[h]}
  /\ syncBQ' = TRUE
  /\ UNCHANGED <<tq, submitted, cleared, chain, working, postSeal, syncTQ, pc,
                 proposals, decided, sealCalled>>
  /\ UNCHANGED replVars

\* clearPending: with pending transactions in m_postSeal, clear m_tq and
\* reset m_postSeal to m_preSeal; m_working is left as it is.
ClearPending ==
  /\ postSeal.txs # {}
  /\ cleared' = cleared \cup tq
  /\ tq' = {}
  /\ postSeal' = PreSeal
  /\ UNCHANGED <<submitted, chain, working, bq, syncBQ, syncTQ, pc, proposals,
                 decided, sealCalled>>
  /\ UNCHANGED replVars

(***************************************************************************)
(* The client's thread: doWork.                                            *)
(***************************************************************************)
\* Mutant: the closing onTransactionQueueReady of resyncStateFromChain is
\* dropped.
ResyncWithoutTqReady(tip, tq1) ==
  LET stale == ~postSeal.sealed \/ postSeal.header # tip.last
  IN /\ working' = EmptyOn(tip.n)
     /\ postSeal' = EmptyOn(tip.n)
     /\ tq' = IF stale THEN tq1 \cup postSeal.txs ELSE tq1
     /\ syncTQ' = ((stale /\ postSeal.txs # {}) \/ syncTQ)
     /\ staleW' = {}

\* resyncStateFromChain after the tip moved to tip.n with block tip.last:
\* m_preSeal and m_working become a fresh block on the tip; unless
\* m_postSeal is the sealed parent of that block, its transactions are
\* imported into m_tq again (IfDropped::Retry); m_postSeal = m_working;
\* onTransactionQueueReady raises m_syncTransactionQueue.  tq1 is m_tq as
\* onChainChanged left it.
ResyncStateFromChain(tip, tq1) ==
  LET stale == ~postSeal.sealed \/ postSeal.header # tip.last
  IN /\ working' = EmptyOn(tip.n)
     /\ postSeal' = EmptyOn(tip.n)
     /\ tq' = IF stale THEN tq1 \cup postSeal.txs ELSE tq1
     /\ syncTQ' = TRUE
     /\ staleW' = {}

\* onChainChanged for the live blocks new: m_tq.dropGood of their
\* transactions, then resyncStateFromChain.
OnChainChanged(new) ==
  /\ chain' = chain \o new
  /\ ResyncStateFromChain([n |-> Tip + Len(new), last |-> Last(new)],
                          tq \ TxsOf(new))

\* The blocks of m_bq at heights Tip+1 .. Tip+k.
ReadyRun(k) == [j \in 1 .. k |-> CHOOSE b \in bq : b.h = Tip + j]
Ready(k) == \A j \in 1 .. k : \E b \in bq : b.h = Tip + j

\* Mutant: syncBlockQueue ignores what bc().sync says of the blocks left.
SyncBlockQueueDroppingMore ==
  \E k \in 1 .. MaxHeight :
    /\ Ready(k)
    /\ bq' = {b \in bq : b.h > Tip + k}
    /\ syncBQ' = FALSE
    /\ OnChainChanged(ReadyRun(k))

\* syncBlockQueue: bc().sync imports the next k blocks of m_bq (k is
\* m_syncAmount, which adapts to the import time), drops the blocks at
\* or below the new tip, and sets m_syncBlockQueue to whether more are
\* ready; onChainChanged follows when some block was imported.
SyncBlockQueue ==
  \E k \in 1 .. MaxHeight :
    /\ Ready(k)
    /\ bq' = {b \in bq : b.h > Tip + k}
    /\ syncBQ' = \E b \in bq' : b.h = Tip + k + 1
    /\ OnChainChanged(ReadyRun(k))

\* doWork, first phase: if m_syncBlockQueue was set, clear it and
\* syncBlockQueue.
DoWorkSyncBlockQueue ==
  /\ pc = "bq"
  /\ pc' = "reset"
  /\ IF syncBQ /\ Ready(1)
     THEN SyncBlockQueue
     ELSE /\ syncBQ' = FALSE
          /\ UNCHANGED <<tq, chain, working, postSeal, bq, syncTQ, staleW>>
  /\ UNCHANGED <<submitted, cleared, proposals, decided, sealCalled,
                 needReset, replaced>>

\* Mutant: resetState leaves m_working as it is.
ResetStateKeepingWorking ==
  /\ postSeal' = working
  /\ syncTQ' = TRUE
  /\ UNCHANGED <<working, staleW>>

\* resetState: m_working = m_preSeal, m_postSeal = m_working, and
\* onTransactionQueueReady raises m_syncTransactionQueue.
ResetState ==
  /\ working' = PreSeal
  /\ postSeal' = PreSeal
  /\ syncTQ' = TRUE
  /\ staleW' = {}

\* doWork, reset phase, first step: m_needStateReset is read, and if it
\* is set, resetState runs.
DoWorkResetState ==
  /\ pc = "reset"
  /\ IF needReset
     THEN /\ pc' = "clear"
          /\ ResetState
     ELSE /\ pc' = "tq"
          /\ UNCHANGED <<working, postSeal, syncTQ, staleW>>
  /\ UNCHANGED <<tq, submitted, cleared, chain, bq, syncBQ, proposals,
                 decided, sealCalled, needReset, replaced>>

\* doWork, reset phase, second step: m_needStateReset = false, a store
\* apart from the read, so a replacement in between is not seen again.
DoWorkClearReset ==
  /\ pc = "clear"
  /\ pc' = "tq"
  /\ needReset' = FALSE
  /\ UNCHANGED <<tq, submitted, cleared, chain, working, postSeal, bq, syncBQ,
                 syncTQ, proposals, decided, sealCalled, replaced, staleW>>

\* Mutant: Block::sync takes the transactions it executes out of m_tq.
SyncTransactionQueueTaking ==
  IF Cardinality(working.txs) >= MaxBlockTx
  THEN UNCHANGED <<tq, working, postSeal>>
  ELSE LET fresh == tq \ (ChainTxs \cup working.txs)
       IN /\ tq' = tq \ (ChainTxs \cup fresh)
          /\ working' = [working EXCEPT !.txs = @ \cup fresh]
          /\ postSeal' = IF fresh = {} THEN postSeal ELSE working'

\* syncTransactionQueue: a full block is skipped; otherwise
\* m_working.sync(bc(), m_tq) executes every queued transaction not in the
\* block and drops from m_tq those already in the chain (their nonce is
\* used); with new receipts, m_postSeal = m_working.
SyncTransactionQueue ==
  IF Cardinality(working.txs) >= MaxBlockTx
  THEN UNCHANGED <<tq, working, postSeal>>
  ELSE LET fresh == tq \ (ChainTxs \cup working.txs)
       IN /\ tq' = tq \ ChainTxs
          /\ working' = [working EXCEPT !.txs = @ \cup fresh]
          /\ postSeal' = IF fresh = {} THEN postSeal ELSE working'

\* doWork, second phase: unless m_working is sealed, if
\* m_syncTransactionQueue was set, clear it and syncTransactionQueue.
DoWorkSyncTransactionQueue ==
  /\ pc = "tq"
  /\ pc' = "rejig"
  /\ IF ~working.sealed /\ syncTQ
     THEN /\ syncTQ' = FALSE
          /\ SyncTransactionQueue
     ELSE UNCHANGED <<tq, working, postSeal, syncTQ>>
  /\ UNCHANGED <<submitted, cleared, chain, bq, syncBQ, proposals, decided,
                 sealCalled>>
  /\ UNCHANGED replVars

\* PBFT::shouldSeal: the node leads the next height, and it has not
\* committed a block of that height yet.
ShouldSeal == LET h == working.parent + 1
              IN h \in OwnHeights /\ h > Len(decided)

\* doWork, third phase, rejigSealing: if the engine should seal and
\* m_working is not sealed, commitToSeal, m_postSeal = m_working, and
\* generateSeal on its header.  The wait that ends doWork changes nothing.
DoWorkRejigSealing ==
  /\ pc = "rejig"
  /\ pc' = "bq"
  /\ IF ShouldSeal /\ ~working.sealed
     THEN LET hd == [h |-> working.parent + 1, txs |-> working.txs]
          IN /\ working' = [working EXCEPT !.header = hd]
             /\ postSeal' = working'
             /\ proposals' = proposals \cup {hd}
     ELSE UNCHANGED <<working, postSeal, proposals>>
  /\ UNCHANGED <<tq, submitted, cleared, chain, bq, syncBQ, syncTQ, decided,
                 sealCalled>>
  /\ UNCHANGED replVars

\* startedWorking: m_preSeal synced to the genesis tip, and m_working and
\* m_postSeal copies of it.
Init ==
  /\ tq = {}
  /\ submitted = {}
  /\ cleared = {}
  /\ chain = <<>>
  /\ working = EmptyOn(0)
  /\ postSeal = EmptyOn(0)
  /\ bq = {}
  /\ syncBQ = FALSE
  /\ syncTQ = FALSE
  /\ pc = "bq"
  /\ proposals = {}
  /\ decided = <<>>
  /\ sealCalled = {}
  /\ needReset = FALSE
  /\ replaced = {}
  /\ staleW = {}

Next ==
  \/ \E t \in Tx : SubmitTx(t)
  \/ \E p \in proposals : DecideOwn(p)
  \/ \E txs \in SUBSET Tx : DecidePeer(txs)
  \/ \E h \in 1 .. MaxHeight : SubmitSealed(h)
  \/ \E h \in 1 .. MaxHeight : QueueBlock(h)
  \/ \E t \in ReplaceTx : Replace(t)
  \/ ClearPending
  \/ DoWorkSyncBlockQueue
  \/ DoWorkResetState
  \/ DoWorkClearReset
  \/ DoWorkSyncTransactionQueue
  \/ DoWorkRejigSealing

Spec == Init /\ [][Next]_vars

\* doWork runs forever; the engine reaches a decision at every height and
\* hands its own to the seal callback; block sync fetches every decided
\* block from peers.  RPC calls are not fair.
FairSpec ==
  /\ Spec
  /\ WF_vars(DoWorkSyncBlockQueue)
  /\ WF_vars(DoWorkResetState)
  /\ WF_vars(DoWorkClearReset)
  /\ WF_vars(DoWorkSyncTransactionQueue)
  /\ WF_vars(DoWorkRejigSealing)
  /\ WF_vars(\E p \in proposals : DecideOwn(p))
  /\ WF_vars(\E txs \in SUBSET Tx : DecidePeer(txs))
  /\ \A h \in 1 .. MaxHeight : WF_vars(SubmitSealed(h)) /\ WF_vars(QueueBlock(h))

(***************************************************************************)
(* Properties.                                                             *)
(***************************************************************************)
TypeOK ==
  /\ tq \subseteq Tx /\ submitted \subseteq Tx /\ cleared \subseteq Tx
  /\ chain \in Seq(Block) /\ decided \in Seq(Block)
  /\ working \in WorkBlock /\ postSeal \in WorkBlock
  /\ bq \subseteq Block /\ proposals \subseteq Block
  /\ syncBQ \in BOOLEAN /\ syncTQ \in BOOLEAN
  /\ pc \in {"bq", "reset", "clear", "tq", "rejig"}
  /\ sealCalled \subseteq 1 .. MaxHeight
  /\ needReset \in BOOLEAN /\ replaced \subseteq Tx /\ staleW \subseteq Tx

\* The client imports only what consensus decided: every block of the
\* chain is the block decided at its height, although submitSealed may
\* run after m_working was committed again or reset by an import.
ChainIsDecided ==
  /\ Len(chain) <= Len(decided)
  /\ \A i \in DOMAIN chain : chain[i] = decided[i]

\* No submitted transaction is lost: each one not dropped by clearPending
\* is in the chain or still in m_tq, whichever proposal consensus picks and
\* whichever path (submitSealed or block sync) brings the block in.
NoTxLoss == \A t \in submitted \ cleared : t \in ChainTxs \/ t \in tq

\* m_tq holds no transaction of the chain: onNewBlocks' comment says the
\* transactions of imported blocks are removed from m_tq rather than left
\* to the nonce check.
TqDisjointChain == tq \cap ChainTxs = {}

\* Every submitted transaction ends up in the chain (or is dropped by
\* clearPending): the flags of doWork wake the transaction sync whenever
\* the chain moves.
TxEventuallyChained ==
  \A t \in Tx : t \in submitted ~> (t \in ChainTxs \/ t \in cleared)

\* Every decided block is eventually imported, however m_syncBlockQueue
\* and the two paths into m_bq interleave.
BlocksImported ==
  \A h \in 1 .. MaxHeight : Len(decided) >= h ~> Len(chain) >= h

\* A replacement is never forgotten while m_working still holds the
\* replaced version: whenever m_working has executed a stale transaction,
\* m_needStateReset is set, however the onReplaced callback interleaves
\* with doWork's read of the flag, resetState and the store of false.
StaleWorkingFlagged == staleW # {} => needReset
=============================================================================
