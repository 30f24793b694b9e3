-------------------------------- MODULE PBFT --------------------------------
(***************************************************************************)
(* The PBFT seal engine of src/libpbftseal/PBFT.cpp, one instance per      *)
(* miner, together with the parts of the host that drive it: the client    *)
(* that asks shouldSeal, seals a block and calls generateSeal and          *)
(* generateCommit, and the chain that imports sealed blocks and calls      *)
(* reportBlock.                                                            *)
(*                                                                         *)
(* Every handler of PBFT.cpp runs under m_mutex, so each is one atomic     *)
(* step.  The network is the set msgs of every message ever sent: a        *)
(* receiver may take any of them at any time, any number of times, or      *)
(* never, which models loss, duplication, reordering and the relay of      *)
(* handleMsg.  Wall-clock time is not modelled: the consensus timeout of   *)
(* checkTimeout may fire in any state, which covers every choice of        *)
(* m_view_timeout, m_change_cycle and of the anchors m_last_consensus_time *)
(* and m_last_sign_time.  Signatures are those of honest miners: a vote's  *)
(* signature is determined by its signer and block hash (dev::sign is      *)
(* deterministic), so the caches key votes by (hash, idx) as the code      *)
(* keys them by sig.hex().                                                 *)
(***************************************************************************)
EXTENDS Integers, Sequences, SequencesExt, FiniteSetsExt, Functions

CONSTANTS
  Node,            \* miner indexes 0 .. N-1 (m_node_idx)
  Blocks,          \* block bodies a leader may seal (model values)
  EmptyBlocks,     \* the bodies without transactions
  ClientBlocks,    \* ClientBlocks[i]: bodies miner i's client may seal
  OmitEmptyBlock,  \* m_omit_empty_block
  GenesisBlock,    \* body of block 0
  NoBlock,         \* body of the zero hash h256()
  CrashNodes,      \* miners whose process may crash and restart
  DownNodes,       \* miners whose process is not running at first
  MaxHeight,       \* blocks beyond this height are not sealed
  MaxRestarts,     \* each miner restarts at most this many times
  MaxView,         \* checkTimeout does not raise m_to_view beyond this,
                   \* nor runs once height MaxHeight is in the chain
  BackupFailNodes  \* miners whose m_backup_db->Put fails (e.g. disk full)

ASSUME
  /\ Node = 0 .. (Cardinality(Node) - 1)
  /\ EmptyBlocks \subseteq Blocks
  /\ ClientBlocks \in [Node -> SUBSET Blocks]
  /\ OmitEmptyBlock \in BOOLEAN
  /\ CrashNodes \subseteq Node
  /\ DownNodes \subseteq Node
  /\ MaxHeight \in Nat \ {0}
  /\ MaxRestarts \in Nat
  /\ MaxView \in Nat
  /\ BackupFailNodes \subseteq Node

VARIABLES
  pbft,     \* pbft[i]: the members of miner i's PBFT object (see NodeState)
  sealing,  \* sealing[i]: where miner i's client is in its sealing round
  chain,    \* chain[i]: hashes of blocks 1..n in miner i's block chain
  bq,       \* bq[i]: sealed blocks handed to miner i's block queue
  up,       \* up[i]: miner i's process is running
  msgs,     \* every PBFT packet ever sent
  sealLog,  \* sealLog[i]: every block passed to m_onSealGenerated, in order
  restarts  \* restarts[i]: how often miner i's process has restarted

vars == <<pbft, sealing, chain, bq, up, msgs, sealLog, restarts>>

N == Cardinality(Node)

\* m_f, resetConfig.
F == (N - 1) \div 3

\* quorum(): miner_num - (miner_num - 1) / 3, as in checkBlockSign.
Quorum == N - F

(***************************************************************************)
(* Hashes, requests and packets.                                           *)
(***************************************************************************)
Heights == 0 .. MaxHeight
Views == 0 .. MaxView

\* hash(WithoutSeal) of the block with body b at height h.
Hash == [h : Heights, b : Blocks \cup {GenesisBlock, NoBlock}]
NoHash == [h |-> 0, b |-> NoBlock]
GenesisHash == [h |-> 0, b |-> GenesisBlock]

\* The fields of a PBFTMsg the engine reads: PrepareReq, SignReq, CommitReq
\* and ViewChangeReq all carry them.  The block bytes of a PrepareReq are
\* determined by its hash.
Req == [height : Heights, view : Views, idx : Node, hash : Hash]
MkReq(h, v, i, hh) == [height |-> h, view |-> v, idx |-> i, hash |-> hh]

\* PrepareReq(): the cleared request.
EmptyReq == MkReq(0, 0, 0, NoHash)

Broadcast == -1
PacketType == {"prepare", "sign", "commit", "viewchange"}
Packet == [type : PacketType, req : Req, to : Node \cup {Broadcast}]
Pkt(t, r, to) == [type |-> t, req |-> r, to |-> to]

(***************************************************************************)
(* The state of one PBFT object.                                           *)
(***************************************************************************)
NodeState == [
  view : Views,             \* m_view
  toView : Views,           \* m_to_view
  leaderFailed : BOOLEAN,   \* m_leader_failed
  consensus : Nat,          \* m_consensus_block_number
  raw : Req,                \* m_raw_prepare_cache
  prep : Req,               \* m_prepare_cache
  signs : SUBSET Req,       \* m_sign_cache, keyed by (hash, idx)
  commits : SUBSET Req,     \* m_commit_cache, keyed by (hash, idx)
  commitMap : SUBSET Hash,  \* hashes h with m_commitMap[h] = true
  committed : Req,          \* m_committed_prepare_cache
  backup : Req,             \* backup_key_committed in m_backup_db
  future : Req,             \* m_future_prepare_cache.second
  vcs : SUBSET Req]         \* m_recv_view_change_req, keyed by (view, idx)

\* initEnv followed by the reportBlock of the chain tip n at start-up;
\* reloadMsg restores the committed prepare from the backup database.
StartState(n, committed) == [
  view |-> 0, toView |-> 0, leaderFailed |-> FALSE, consensus |-> n + 1,
  raw |-> EmptyReq, prep |-> EmptyReq, signs |-> {}, commits |-> {},
  commitMap |-> {}, committed |-> committed, backup |-> committed,
  future |-> EmptyReq, vcs |-> {}]

\* The result of a handler: the new state, the packets it sent and the
\* blocks it passed to m_onSealGenerated.
Ret(s) == [s |-> s, out |-> {}, seal |-> <<>>]
Sent(r, p) == [r EXCEPT !.out = @ \cup p]

Highest(i) == Len(chain[i])
HighestHash(i) == IF chain[i] = <<>> THEN GenesisHash ELSE chain[i][Len(chain[i])]

\* getLeader: (m_view + m_highest_block.number()) % m_node_num.
Leader(s, hi) == (s.view + hi) % N

VotesFor(votes, h) == {v \in votes : v.hash = h}

\* isExistSign / isExistCommit: a vote with the same signature is cached.
HasVote(votes, r) == \E v \in votes : v.hash = r.hash /\ v.idx = r.idx

\* addSignReq / addCommitReq: m_cache[hash][sig.hex()] = req.
AddVote(votes, r) == {v \in votes : ~(v.hash = r.hash /\ v.idx = r.idx)} \cup {r}

(***************************************************************************)
(* Helpers of PBFT.cpp.                                                    *)
(***************************************************************************)
\* addRawPrepare: a new proposal resets the prepare cache.
AddRawPrepare(s, r) == [s EXCEPT !.raw = r, !.prep = EmptyReq]

\* Mutant: votes cached from other views are kept.
AddPrepareReqKeepingVotes(s, r) == [s EXCEPT !.prep = r]

\* addPrepareReq: drop cached votes for the hash from other views.
AddPrepareReq(s, r) ==
  [s EXCEPT !.prep = r,
            !.signs = {v \in @ : v.hash # r.hash \/ v.view = r.view},
            !.commits = {v \in @ : v.hash # r.hash \/ v.view = r.view}]

\* checkAndSave: emit the block once sign and commit quorums are reached.
CheckAndSave(s, hi) ==
  LET h == s.prep.hash IN
  IF /\ Cardinality(VotesFor(s.signs, h)) >= Quorum
     /\ Cardinality(VotesFor(s.commits, h)) >= Quorum
     /\ h \notin s.commitMap
  THEN [s |-> [s EXCEPT !.commitMap = @ \cup {h}], out |-> {},
        seal |-> IF s.prep.view = s.view /\ s.prep.height > hi
                 THEN <<h>> ELSE <<>>]
  ELSE Ret(s)

\* The lock of checkAndCommit: m_committed_prepare_cache takes the raw
\* prepare and backupMsg writes it to the backup database; a failed Put
\* is only logged.
BackupMsg(s, i) ==
  [s EXCEPT !.committed = s.raw,
            !.backup = IF i \in BackupFailNodes THEN @ ELSE s.raw]

\* Mutant: the commit phase starts one sign vote early.
CheckAndCommitEarly(s, i, hi) ==
  LET h == s.prep.hash
      own == MkReq(s.prep.height, s.prep.view, i, h)
  IN IF Cardinality(VotesFor(s.signs, h)) = Quorum - 1 /\ s.prep.view = s.view
     THEN Sent(CheckAndSave([BackupMsg(s, i) EXCEPT !.commits = AddVote(@, own)], hi),
               {Pkt("commit", own, Broadcast)})
     ELSE Ret(s)

\* Mutant: the commit phase waits for more than quorum() sign votes.
CheckAndCommitAboveQuorum(s, i, hi) ==
  LET h == s.prep.hash
      own == MkReq(s.prep.height, s.prep.view, i, h)
  IN IF Cardinality(VotesFor(s.signs, h)) = Quorum + 1 /\ s.prep.view = s.view
     THEN Sent(CheckAndSave([BackupMsg(s, i) EXCEPT !.commits = AddVote(@, own)], hi),
               {Pkt("commit", own, Broadcast)})
     ELSE Ret(s)

\* checkAndCommit: on exactly Quorum signs, lock the raw prepare, back it
\* up, broadcast the own commit and try to save.
CheckAndCommit(s, i, hi) ==
  LET h == s.prep.hash
      own == MkReq(s.prep.height, s.prep.view, i, h)
  IN IF Cardinality(VotesFor(s.signs, h)) = Quorum /\ s.prep.view = s.view
     THEN Sent(CheckAndSave([BackupMsg(s, i) EXCEPT !.commits = AddVote(@, own)], hi),
               {Pkt("commit", own, Broadcast)})
     ELSE Ret(s)

\* Mutant: a view change that also drops the committed prepare.
CheckAndChangeViewClearingLock(s) ==
  IF Cardinality({v \in s.vcs : v.view = s.toView}) >= Quorum - 1
  THEN [s EXCEPT !.leaderFailed = FALSE, !.view = s.toView,
                 !.raw = EmptyReq, !.prep = EmptyReq, !.signs = {},
                 !.commits = {}, !.commitMap = {}, !.committed = EmptyReq,
                 !.vcs = {v \in @ : v.view > s.toView}]
  ELSE s

\* checkAndChangeView: quorum - 1 other miners asked for m_to_view.
CheckAndChangeView(s) ==
  IF Cardinality({v \in s.vcs : v.view = s.toView}) >= Quorum - 1
  THEN [s EXCEPT !.leaderFailed = FALSE, !.view = s.toView,
                 !.raw = EmptyReq, !.prep = EmptyReq, !.signs = {},
                 !.commits = {}, !.commitMap = {},
                 !.vcs = {v \in @ : v.view > s.toView}]
  ELSE s

\* recvFutureBlock: keep one future proposal, replaced by another hash.
RecvFutureBlock(s, r) ==
  IF s.future.hash # r.hash THEN [s EXCEPT !.future = r] ELSE s

\* delCache: forget the votes and the flag of a block now in the chain.
DelCache(s, h) ==
  [s EXCEPT !.signs = {v \in @ : v.hash # h},
            !.commits = {v \in @ : v.hash # h},
            !.prep = IF @.hash = h THEN EmptyReq ELSE @,
            !.commitMap = @ \ {h}]

\* delViewChange: drop view changes below the tip or forking at the tip.
DelViewChange(vcs, n, h) ==
  {v \in vcs : v.height > n \/ (v.height = n /\ v.hash = h)}

\* reportBlock: block n with hash h became the chain tip.
ReportBlock(s, n, h) ==
  LET s1 == IF n >= s.consensus
            THEN [s EXCEPT !.view = 0, !.toView = 0, !.leaderFailed = FALSE,
                           !.consensus = n + 1,
                           !.vcs = DelViewChange(@, n, h)]
            ELSE s
  IN DelCache(s1, h)

(***************************************************************************)
(* Message handlers.                                                       *)
(***************************************************************************)
\* handlePrepareMsg(_from, _req, _self).
HandlePrepareMsg(s, i, r, self, hi) ==
  IF \/ s.raw.hash = r.hash
     \/ ~self /\ r.idx = i
     \/ r.height < s.consensus \/ r.view < s.view
  THEN Ret(s)
  ELSE IF r.height > s.consensus \/ r.view > s.view
  THEN Ret(RecvFutureBlock(s, r))
  ELSE IF \/ s.leaderFailed \/ r.idx # Leader(s, hi)
          \/ r.height = s.committed.height /\ r.hash # s.committed.hash
  THEN Ret(s)
  ELSE IF r.hash.b \in EmptyBlocks /\ OmitEmptyBlock
  THEN \* changeViewForEmptyBlockWithoutLock only clears timing state.
       Ret(AddRawPrepare(s, r))
  ELSE LET own == MkReq(r.height, r.view, i, r.hash)
           s1 == AddPrepareReq(AddRawPrepare(s, r), r)
       IN Sent(CheckAndCommit([s1 EXCEPT !.signs = AddVote(@, own)], i, hi),
               {Pkt("sign", own, Broadcast)})

\* handleSignMsg.
HandleSignMsg(s, i, r, hi) ==
  IF HasVote(s.signs, r) \/ r.idx = i THEN Ret(s)
  ELSE IF s.prep.hash # r.hash
  THEN Ret(IF r.height >= s.consensus \/ r.view > s.view
           THEN [s EXCEPT !.signs = AddVote(@, r)] ELSE s)
  ELSE IF s.prep.view # r.view THEN Ret(s)
  ELSE CheckAndCommit([s EXCEPT !.signs = AddVote(@, r)], i, hi)

\* handleCommitMsg.
HandleCommitMsg(s, i, r, hi) ==
  IF HasVote(s.commits, r) \/ r.idx = i THEN Ret(s)
  ELSE IF s.prep.hash # r.hash
  THEN Ret(IF r.height >= s.consensus \/ r.view > s.view
           THEN [s EXCEPT !.commits = AddVote(@, r)] ELSE s)
  ELSE IF s.prep.view # r.view THEN Ret(s)
  ELSE CheckAndSave([s EXCEPT !.commits = AddVote(@, r)], hi)

\* Mutant: the fast view change counts requests for any view.
FastViewChangeAnyView(s, hi) ==
  LET newer == {v \in s.vcs : v.height >= hi}
      minHeight == Min({v.height : v \in newer})
  IN IF /\ Cardinality({v.idx : v \in newer}) > F
        /\ ~(minHeight = s.consensus /\ minHeight = s.committed.height)
     THEN [s EXCEPT !.toView = Min({v.view : v \in newer}) - 1]
     ELSE s

\* The fast view change of handleViewChangeMsg: more than f miners ask
\* for views above m_to_view from heights not below the tip.
FastViewChange(s, hi) ==
  LET newer == {v \in s.vcs : v.view > s.toView /\ v.height >= hi}
      minHeight == Min({v.height : v \in newer})
  IN IF /\ Cardinality({v.idx : v \in newer}) > F
        /\ ~(minHeight = s.consensus /\ minHeight = s.committed.height)
     THEN [s EXCEPT !.toView = Min({v.view : v \in newer}) - 1]
     ELSE s

\* handleViewChangeMsg; direct says the packet came from its signer.
HandleViewChangeMsg(s, i, r, direct, hi, hh) ==
  LET reply == IF r.view + 1 < s.toView /\ direct
               THEN {Pkt("viewchange", MkReq(hi, s.toView, i, hh), r.idx)}
               ELSE {}
  IN IF (\E v \in s.vcs : v.view = r.view /\ v.idx = r.idx) \/ r.idx = i
     THEN Ret(s)
     ELSE IF \/ r.height < hi \/ r.view <= s.view
             \/ r.height = hi /\ r.hash # hh
     THEN Sent(Ret(s), reply)
     ELSE LET s1 == [s EXCEPT !.vcs = @ \cup {r}]
          IN Sent(Ret(IF r.view = s.toView THEN CheckAndChangeView(s1)
                      ELSE FastViewChange(s1, hi)), reply)

(***************************************************************************)
(* Actions.                                                                *)
(***************************************************************************)
\* Apply handler result res to miner i.
Apply(i, res) ==
  /\ pbft' = [pbft EXCEPT ![i] = res.s]
  /\ msgs' = msgs \cup res.out
  /\ sealLog' = [sealLog EXCEPT ![i] = @ \o res.seal]
  \* m_onSealGenerated: the client imports the sealed block.
  /\ bq' = [bq EXCEPT ![i] = @ \cup ToSet(res.seal)]

\* workLoop pops packet p and handleMsg dispatches it.
Receive(i, p) ==
  /\ up[i]
  /\ p.to \in {Broadcast, i}
  /\ p.req.idx # i
  /\ LET s == pbft[i]
         r == p.req
         hi == Highest(i)
     IN CASE p.type = "prepare" -> Apply(i, HandlePrepareMsg(s, i, r, FALSE, hi))
          [] p.type = "sign" -> Apply(i, HandleSignMsg(s, i, r, hi))
          [] p.type = "commit" -> Apply(i, HandleCommitMsg(s, i, r, hi))
          [] p.type = "viewchange" ->
               \E direct \in BOOLEAN :
                 Apply(i, HandleViewChangeMsg(s, i, r, direct, hi, HighestHash(i)))
  /\ UNCHANGED <<sealing, chain, up, restarts>>

\* checkTimeout: ask for the next view and try to change to it.
CheckTimeout(i) ==
  /\ up[i]
  /\ pbft[i].toView < MaxView
  /\ Highest(i) < MaxHeight
  /\ LET s == pbft[i]
         t == s.toView + 1
         hi == Highest(i)
         hh == HighestHash(i)
         s1 == [s EXCEPT !.leaderFailed = TRUE, !.toView = t,
                         !.vcs = {v \in @ : v.view # t}
                                 \cup DelViewChange({v \in @ : v.view = t}, hi, hh)]
     IN Apply(i, Sent(Ret(CheckAndChangeView(s1)),
                      {Pkt("viewchange", MkReq(hi, t, i, hh), Broadcast)}))
  /\ UNCHANGED <<sealing, chain, up, restarts>>

\* handleFutureBlock: replay the future proposal once it is current.
HandleFutureBlock(i) ==
  /\ up[i]
  /\ pbft[i].future.height = pbft[i].consensus
  /\ pbft[i].future.view = pbft[i].view
  /\ LET res == HandlePrepareMsg(pbft[i], i, pbft[i].future, FALSE, Highest(i))
     IN Apply(i, [res EXCEPT !.s.future = EmptyReq])
  /\ UNCHANGED <<sealing, chain, up, restarts>>

\* The client's sealing round: stage, the request it seals and the
\* <<height, view>> of its last generateSeal.
NoSealing == [stage |-> "idle", req |-> EmptyReq, last |-> <<0, 0>>]

\* shouldSeal as asked by the client's rejigSealing.
IsLeader(i) ==
  /\ ~pbft[i].leaderFailed
  /\ Leader(pbft[i], Highest(i)) = i

\* Mutant: the client seals the block after the next one.
ShouldSealSkippingHeight(i) ==
  /\ up[i]
  /\ sealing[i].stage = "idle"
  /\ IsLeader(i)
  /\ pbft[i].consensus # pbft[i].committed.height
  /\ Highest(i) < MaxHeight
  /\ sealing[i].last # <<Highest(i) + 1, pbft[i].view>>
  /\ \E b \in ClientBlocks[i] :
       sealing' = [sealing EXCEPT ![i].stage = "sealing",
                                  ![i].req = MkReq(Highest(i) + 2, 0, i, [h |-> Highest(i) + 2, b |-> b])]
  /\ UNCHANGED <<pbft, chain, bq, up, msgs, sealLog, restarts>>

\* shouldSeal returns true: the client commits a block body to seal.  The
\* client proposes once per height and view (last is its last proposal):
\* rejigSealing itself would commit again on every pass, and what the PBFT
\* client outside src/ commits then is not in this repository.  Without
\* this guard an honest leader proposes two bodies in one view, and
\* LockedDecision fails under MCCrash.
ShouldSeal(i) ==
  /\ up[i]
  /\ sealing[i].stage = "idle"
  /\ IsLeader(i)
  /\ pbft[i].consensus # pbft[i].committed.height
  /\ Highest(i) < MaxHeight
  /\ sealing[i].last # <<Highest(i) + 1, pbft[i].view>>
  /\ \E b \in ClientBlocks[i] :
       sealing' = [sealing EXCEPT ![i].stage = "sealing",
                                  ![i].req = MkReq(Highest(i) + 1, 0, i, [h |-> Highest(i) + 1, b |-> b])]
  /\ UNCHANGED <<pbft, chain, bq, up, msgs, sealLog, restarts>>

\* shouldSeal finds a committed prepare at the current height:
\* reHandlePrepareReq re-proposes it in the current view.  shouldSeal is
\* asked only by rejigSealing on the client's thread, which also runs the
\* sealing round, so no re-proposal falls inside a round.
ReHandlePrepareReq(i) ==
  /\ up[i]
  /\ sealing[i].stage = "idle"
  /\ IsLeader(i)
  /\ pbft[i].consensus = pbft[i].committed.height
  /\ pbft[i].consensus # pbft[i].raw.height
  /\ LET s == pbft[i]
         r == MkReq(s.committed.height, s.view, i, s.committed.hash)
     IN Apply(i, Sent(HandlePrepareMsg(s, i, r, TRUE, Highest(i)),
                      {Pkt("prepare", r, Broadcast)}))
  /\ UNCHANGED <<sealing, chain, up, restarts>>

\* generateSeal: broadcast the proposal in the current view.
GenerateSeal(i) ==
  /\ up[i]
  /\ sealing[i].stage = "sealing"
  /\ LET r == [sealing[i].req EXCEPT !.view = pbft[i].view]
     IN /\ pbft' = [pbft EXCEPT ![i] = AddRawPrepare(@, r)]
        /\ msgs' = msgs \cup {Pkt("prepare", r, Broadcast)}
        /\ sealing' = [sealing EXCEPT ![i] = [stage |-> "sealed", req |-> r,
                                              last |-> <<r.height, r.view>>]]
  /\ UNCHANGED <<chain, bq, up, sealLog, restarts>>

\* generateCommit: the leader's own sign vote for the block it sealed,
\* refused if the view changed since generateSeal.
GenerateCommit(i) ==
  /\ up[i]
  /\ sealing[i].stage = "sealed"
  /\ sealing' = [sealing EXCEPT ![i].stage = "idle"]
  /\ LET s == pbft[i]
         r == sealing[i].req
         s1 == [AddPrepareReq(s, r) EXCEPT !.signs = AddVote(@, r)]
     IN IF r.view = s.view
        THEN Apply(i, Sent(CheckAndCommit(s1, i, Highest(i)), {Pkt("sign", r, Broadcast)}))
        ELSE UNCHANGED <<pbft, msgs, sealLog, bq>>
  /\ UNCHANGED <<chain, up, restarts>>

\* The chain imports the next block, sealed here or synced from a peer,
\* and calls reportBlock.  Client::doWork runs syncBlockQueue and the
\* sealing round of rejigSealing in turn on the client's thread, so no
\* import falls inside a sealing round.
ImportBlock(i) ==
  /\ up[i]
  /\ sealing[i].stage = "idle"
  /\ Highest(i) < MaxHeight
  /\ \E h \in bq[i] \cup {chain[j][Highest(i) + 1] : j \in {k \in Node : Highest(k) > Highest(i)}} :
       /\ h.h = Highest(i) + 1
       /\ chain' = [chain EXCEPT ![i] = Append(@, h)]
       /\ bq' = [bq EXCEPT ![i] = {x \in @ : x.h > h.h}]
       /\ pbft' = [pbft EXCEPT ![i] = ReportBlock(@, h.h, h)]
  /\ UNCHANGED <<sealing, up, msgs, sealLog, restarts>>

\* collectGarbage: drop votes below the tip and the flags of their hashes.
CollectGarbage(i) ==
  /\ up[i]
  /\ LET hi == Highest(i)
         signs == {v \in pbft[i].signs : v.height >= hi}
     IN pbft' = [pbft EXCEPT
                   ![i].signs = signs,
                   ![i].commits = {v \in @ : v.height >= hi},
                   ![i].commitMap = {h \in @ : VotesFor(signs, h) # {}}]
  /\ UNCHANGED <<sealing, chain, bq, up, msgs, sealLog, restarts>>

\* The process stops, to restart later; its chain and backup database
\* survive.
Crash(i) ==
  /\ up[i]
  /\ i \in CrashNodes
  /\ restarts[i] < MaxRestarts
  /\ up' = [up EXCEPT ![i] = FALSE]
  /\ UNCHANGED <<pbft, sealing, chain, bq, msgs, sealLog, restarts>>

\* Mutant: the restart does not reload the backup.
RestartWithoutReloadMsg(i) ==
  /\ ~up[i]
  /\ i \in CrashNodes
  /\ restarts[i] < MaxRestarts
  /\ restarts' = [restarts EXCEPT ![i] = @ + 1]
  /\ up' = [up EXCEPT ![i] = TRUE]
  /\ pbft' = [pbft EXCEPT ![i] = StartState(Highest(i), EmptyReq)]
  /\ sealing' = [sealing EXCEPT ![i] = NoSealing]
  /\ bq' = [bq EXCEPT ![i] = {}]
  /\ UNCHANGED <<chain, msgs, sealLog>>

\* initEnv on restart: reloadMsg restores the committed prepare from the
\* backup database.
Restart(i) ==
  /\ ~up[i]
  /\ i \in CrashNodes
  /\ restarts[i] < MaxRestarts
  /\ restarts' = [restarts EXCEPT ![i] = @ + 1]
  /\ up' = [up EXCEPT ![i] = TRUE]
  /\ pbft' = [pbft EXCEPT ![i] = StartState(Highest(i), @.backup)]
  /\ sealing' = [sealing EXCEPT ![i] = NoSealing]
  /\ bq' = [bq EXCEPT ![i] = {}]
  /\ UNCHANGED <<chain, msgs, sealLog>>

Init ==
  /\ pbft = [i \in Node |-> StartState(0, EmptyReq)]
  /\ sealing = [i \in Node |-> NoSealing]
  /\ chain = [i \in Node |-> <<>>]
  /\ bq = [i \in Node |-> {}]
  /\ up = [i \in Node |-> i \notin DownNodes]
  /\ msgs = {}
  /\ sealLog = [i \in Node |-> <<>>]
  /\ restarts = [i \in Node |-> 0]

Next ==
  \E i \in Node :
    \/ \E p \in msgs : Receive(i, p)
    \/ CheckTimeout(i)
    \/ HandleFutureBlock(i)
    \/ ShouldSeal(i)
    \/ ReHandlePrepareReq(i)
    \/ GenerateSeal(i)
    \/ GenerateCommit(i)
    \/ ImportBlock(i)
    \/ CollectGarbage(i)
    \/ Crash(i)
    \/ Restart(i)

Spec == Init /\ [][Next]_vars

(***************************************************************************)
(* Fairness of the normal case.  The PBFT worker loop keeps popping the    *)
(* packets the transport (TCP sessions between connected miners) delivers, *)
(* and the client's doWork loop keeps running syncBlockQueue and           *)
(* rejigSealing.  Timeouts, crashes and garbage collection get no          *)
(* fairness: a run that checks liveness bounds them away.                  *)
(***************************************************************************)
FairSpec ==
  /\ Spec
  /\ \A i \in Node :
       /\ WF_vars(\E p \in msgs : Receive(i, p))
       /\ WF_vars(HandleFutureBlock(i))
       /\ WF_vars(ShouldSeal(i))
       /\ WF_vars(ReHandlePrepareReq(i))
       /\ WF_vars(GenerateSeal(i))
       /\ WF_vars(GenerateCommit(i))
       /\ WF_vars(ImportBlock(i))

(***************************************************************************)
(* Properties.                                                             *)
(***************************************************************************)
TypeOK ==
  /\ pbft \in [Node -> NodeState]
  /\ sealing \in [Node -> [stage : {"idle", "sealing", "sealed"}, req : Req,
                           last : Heights \X Views]]
  /\ chain \in [Node -> Seq(Hash)]
  /\ bq \in [Node -> SUBSET Hash]
  /\ up \in [Node -> BOOLEAN]
  /\ msgs \subseteq Packet
  /\ sealLog \in [Node -> Seq(Hash)]
  /\ restarts \in [Node -> 0 .. MaxRestarts]

(***************************************************************************)
(* The blocks decided so far are those some miner passed to                *)
(* m_onSealGenerated; the k-th decided block is the one of height k.       *)
(***************************************************************************)
Emitted == UNION {ToSet(sealLog[i]) : i \in Node}

DecidedSeq ==
  [k \in 1 .. Cardinality({d.h : d \in Emitted}) |-> CHOOSE d \in Emitted : d.h = k]

Abs == INSTANCE ConsensusChain WITH decided <- DecidedSeq, chain <- chain

\* The engine and the chain import of every miner implement ConsensusChain:
\* the blocks checkAndSave passes to m_onSealGenerated form one sequence,
\* at most one block per height, and every miner's chain (fed by its own
\* sealed blocks and by blocks synced from peers) is a growing prefix of it.
Refinement == Abs!Spec

\* Once a block is sealed at height k, every miner whose committed prepare
\* (m_committed_prepare_cache, restored from m_backup_db on restart) is at
\* height k is locked on that block: the lock of checkAndCommit and the
\* committed-prepare check of handlePrepareMsg keep later views from
\* locking another block at a decided height.
LockedDecision ==
  \A d \in Emitted, i \in Node :
    pbft[i].committed.height = d.h => pbft[i].committed.hash = d

\* Within one height and one process lifetime neither m_view nor m_to_view
\* decreases: checkTimeout, the fast view change of handleViewChangeMsg and
\* checkAndChangeView only raise them, and only reportBlock resets them.
ViewMonotonic ==
  [][\A i \in Node :
       up[i] /\ up'[i] /\ Len(chain'[i]) = Len(chain[i])
         => /\ pbft'[i].view >= pbft[i].view
            /\ pbft'[i].toView >= pbft[i].toView]_vars

\* A live miner that holds at least quorum() sign votes for its prepared
\* block in the current view has locked that block and broadcast its
\* commit (checkAndCommit, spec 4.5.5).
SignQuorumLocks ==
  \A i \in Node :
    LET s == pbft[i] IN
    up[i] /\ s.prep # EmptyReq /\ s.prep.view = s.view
      /\ Cardinality(VotesFor(s.signs, s.prep.hash)) >= Quorum
      => s.committed.hash = s.prep.hash

\* m_onSealGenerated is invoked at most once for any block hash (the
\* m_commitMap flag of checkAndSave, spec 8.2).
AtMostOnceEmission == \A i \in Node : IsInjective(sealLog[i])

\* An honest miner never sends sign votes for two different blocks at the
\* same height and view: handlePrepareMsg signs the one proposal it
\* accepts, generateCommit signs the leader's own block.
NoEquivocation ==
  \A p, q \in {m \in msgs : m.type = "sign"} :
    p.req.idx = q.req.idx /\ p.req.height = q.req.height /\ p.req.view = q.req.view
      => p.req.hash = q.req.hash

\* prepare.blockHash equals rawPrepare.blockHash whenever the prepare cache
\* is not empty (spec section 3, invariant 1).
PrepareMatchesRaw ==
  \A i \in Node : pbft[i].prep # EmptyReq => pbft[i].prep.hash = pbft[i].raw.hash

\* A miner broadcasts a commit vote for a block in a view only after
\* quorum() miners have sent sign votes for that block in that view: the
\* count of checkAndCommit only sees sign votes of the prepared view,
\* because addPrepareReq drops the cached votes of other views and
\* handleSignMsg refuses them.
CommitCertified ==
  \A c \in {m \in msgs : m.type = "commit"} :
    Cardinality({m.req.idx : m \in {s \in msgs : /\ s.type = "sign"
                                                 /\ s.req.hash = c.req.hash
                                                 /\ s.req.view = c.req.view}})
      >= Quorum

\* Without crashes, lost leaders or timeouts, every running miner
\* eventually has every height up to MaxHeight in its chain: the three
\* phases of handlePrepareMsg, handleSignMsg and handleCommitMsg, the
\* replay of handleFutureBlock and the client's import always make
\* progress.
EveryHeightDecided ==
  <>(\A i \in Node \ DownNodes : Len(chain[i]) = MaxHeight)
=============================================================================
