--------------------------- MODULE BroadcastFilter ---------------------------
(***************************************************************************)
(* The broadcast layer of the PBFT engine (src/libpbftseal/PBFT.cpp):      *)
(* broadcastMsg sends a packet to every connected miner peer that is not   *)
(* in the caller's filter and has not already been marked as knowing the   *)
(* packet's key; broadcastMark records the key in the per-peer, per-kind   *)
(* known-key queue, popping the oldest entry when the queue is over its    *)
(* cap; clearMask empties every queue; handleMsg relays a packet received  *)
(* straight from its originator to its other peers.  A key stands for      *)
(* uniqueKey(): one per kind, height, view, idx and block hash.            *)
(***************************************************************************)
EXTENDS Naturals, Sequences, SequencesExt

CONSTANTS
  Node,         \* every node with a session to some other node
  Miner,        \* the nodes whose account type is EN_ACCOUNT_TYPE_MINER
  Link,         \* the connected sessions, as two-element sets of nodes
  Kind,         \* the packet ids that have a known-key queue
  Cap,          \* Cap[kd]: kKnownPrepare, kKnownSign, ... for kind kd
  Key,          \* the keys, records [kind, h, idx] with idx the originator
  Tip,          \* Tip[n]: the height of n's highest block
  RelayWindow,  \* the relay gate of handleMsg: 10 heights
  MaxBroadcasts \* bound on the broadcasts the engine starts

ASSUME /\ Miner \subseteq Node
       /\ \A l \in Link : l \subseteq Node
       /\ Cap \in [Kind -> Nat]
       /\ \A k \in Key : k.kind \in Kind /\ k.idx \in Miner /\ k.h \in Nat
       /\ Tip \in [Node -> Nat]
       /\ RelayWindow \in Nat
       /\ MaxBroadcasts \in Nat

VARIABLES
  known,     \* known[n][p][kd]: n's queue of keys of kind kd known by peer p
  inflight,  \* the packets written to a session and not yet handled
  has,       \* has[n]: the keys n has sent as originator or has handled
  broadcasts \* the broadcasts the engine has started so far

vars == <<known, inflight, has, broadcasts>>

Msg == [from : Node, to : Node, key : Key]

\* foreachPeer: the nodes n has a session with.
Peers(n) == {p \in Node \ {n} : {n, p} \in Link}

\* The peers broadcastMsg does not skip for their account type.
MinerPeers(n) == Peers(n) \cap Miner

\* Every known-key queue empty: a fresh PBFTPeer, or clearMask.
EmptyMask == [p \in Node |-> [kd \in Kind |-> <<>>]]

\* broadcastFilter: whether peer p is marked as knowing key k.
BroadcastFilter(kn, p, k) == k \in ToSet(kn[p][k.kind])

\* broadcastMark on one queue: nothing if the key is there; otherwise pop
\* the oldest key when the queue is larger than the cap, then push k.
BroadcastMark(q, k) ==
  IF k \in ToSet(q) THEN q
  ELSE Append(IF Len(q) > Cap[k.kind] THEN Tail(q) ELSE q, k)

\* kn with k marked for every peer in ps.
MarkAll(kn, ps, k) ==
  [p \in Node |-> IF p \in ps THEN [kn[p] EXCEPT ![k.kind] = BroadcastMark(@, k)]
                              ELSE kn[p]]

\* Mutant: the peer is marked before broadcastFilter is asked.
BroadcastMsgMarkingFirst(n, k, filter, kn, pool) ==
  /\ known' = [known EXCEPT ![n] = MarkAll(kn, MinerPeers(n), k)]
  /\ inflight' = pool \cup
       {[from |-> n, to |-> p, key |-> k] :
          p \in {q \in MinerPeers(n) \ filter :
                   ~BroadcastFilter(MarkAll(kn, MinerPeers(n), k), q, k)}}

\* broadcastMsg of key k by n with the caller's filter, starting from n's
\* queues kn and the in-flight packets pool: a peer in the filter is only
\* marked; another miner peer that does not know k is sent k and marked.
BroadcastMsg(n, k, filter, kn, pool) ==
  /\ known' = [known EXCEPT ![n] = MarkAll(kn, MinerPeers(n), k)]
  /\ inflight' = pool \cup
       {[from |-> n, to |-> p, key |-> k] :
          p \in {q \in MinerPeers(n) \ filter : ~BroadcastFilter(kn, q, k)}}

\* The height gate of handleMsg's relay.
Fresh(n, k) == k.h > Tip[n] \/ Tip[n] - k.h < RelayWindow

(***************************************************************************)
(* Actions.                                                                *)
(***************************************************************************)
\* broadcastPrepareReq, broadcastSignReq, broadcastCommitReq or
\* broadcastViewChangeReq: miner n sends its own packet to all its peers.
\* The engine may send a key again: a sign or commit vote is broadcast
\* again when its prepare is accepted a second time in the same view.
Originate(n, k) ==
  /\ k.idx = n
  /\ broadcasts < MaxBroadcasts
  /\ broadcasts' = broadcasts + 1
  /\ has' = [has EXCEPT ![n] = @ \cup {k}]
  /\ BroadcastMsg(n, k, {}, known[n], inflight)

\* reHandlePrepareReq: clearMask, then broadcast the re-proposal.
ReHandlePrepareReq(n, k) ==
  /\ k.idx = n
  /\ k.kind = "prepare"
  /\ broadcasts < MaxBroadcasts
  /\ broadcasts' = broadcasts + 1
  /\ has' = [has EXCEPT ![n] = @ \cup {k}]
  /\ BroadcastMsg(n, k, {}, EmptyMask, inflight)

\* Mutant: handleMsg relays only what it did not get from the originator.
RelayFromOthers(m) ==
  IF m.key.idx # m.from /\ Fresh(m.to, m.key)
  THEN BroadcastMsg(m.to, m.key, {m.from, m.key.idx}, known[m.to], inflight \ {m})
  ELSE /\ inflight' = inflight \ {m}
       /\ UNCHANGED known

\* The tail of handleMsg: a packet that came straight from its originator
\* and is not too old is relayed to the other peers, with the sender and
\* the originator in the filter.
Relay(m) ==
  IF m.key.idx = m.from /\ Fresh(m.to, m.key)
  THEN BroadcastMsg(m.to, m.key, {m.from, m.key.idx}, known[m.to], inflight \ {m})
  ELSE /\ inflight' = inflight \ {m}
       /\ UNCHANGED known

\* workLoop pops packet m: the handler sees its key, then handleMsg relays.
HandleMsg(m) ==
  /\ m \in inflight
  /\ has' = [has EXCEPT ![m.to] = @ \cup {m.key}]
  /\ Relay(m)
  /\ UNCHANGED broadcasts

Init ==
  /\ known = [n \in Node |-> EmptyMask]
  /\ inflight = {}
  /\ has = [n \in Node |-> {}]
  /\ broadcasts = 0

Next ==
  \/ \E n \in Miner, k \in Key : Originate(n, k)
  \/ \E n \in Miner, k \in Key : ReHandlePrepareReq(n, k)
  \/ \E m \in inflight : HandleMsg(m)

Spec == Init /\ [][Next]_vars

\* Sessions are TCP connections and workLoop pops every queued packet.
FairSpec == Spec /\ \A m \in Msg : WF_vars(HandleMsg(m))

(***************************************************************************)
(* Properties.                                                             *)
(***************************************************************************)
TypeOK ==
  /\ known \in [Node -> [Node -> [Kind -> Seq(Key)]]]
  /\ inflight \subseteq Msg
  /\ has \in [Node -> SUBSET Key]
  /\ broadcasts \in 0 .. MaxBroadcasts

\* The peer-seen filter of broadcastMark holds at most its cap of keys for
\* every peer and kind (spec section 8, invariant 7).
PeerSeenBound ==
  \A n, p \in Node, kd \in Kind : Len(known[n][p][kd]) <= Cap[kd]

\* broadcastFilter only suppresses a send to a peer that already has the
\* key or has it on its way: every key n has marked for p is one p has
\* handled or originated, or one n has written to their session.
KnownImpliesHeld ==
  \A n, p \in Node, kd \in Kind :
    \A k \in ToSet(known[n][p][kd]) :
      k \in has[p] \/ [from |-> n, to |-> p, key |-> k] \in inflight

\* The miners a packet of k's originator reaches: its miner peers, and
\* the miner peers of those that relay it (they find it fresh).
Reach(k) ==
  LET direct == MinerPeers(k.idx)
  IN direct \cup UNION {MinerPeers(n) \ {k.idx} : n \in {x \in direct : Fresh(x, k)}}

\* With sessions up, every packet a miner sends is eventually handled by
\* every miner it reaches directly or through one relay, however the
\* per-peer filters are evicted and cleared.
Disseminated ==
  \A k \in Key : (k \in has[k.idx]) ~> (\A p \in Reach(k) : k \in has[p])
=============================================================================
