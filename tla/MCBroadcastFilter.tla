------------------------- MODULE MCBroadcastFilter -------------------------
(***************************************************************************)
(* Four nodes: miners 0, 1 and 2 and the observer 3.  Miner 1 is the only  *)
(* session between 0 and 2, so their packets reach each other only when 1  *)
(* relays them; the observer is connected but is never sent a packet.      *)
(***************************************************************************)
EXTENDS BroadcastFilter

MCNode == 0 .. 3
MCMiner == {0, 1, 2}
MCLink == {{0, 1}, {1, 2}, {0, 3}, {2, 3}}
MCKind == {"prepare", "sign"}

\* Three proposals of miner 0, a vote of miner 1, and a proposal of miner 2
\* so old that miner 1 does not relay it.
MCKey == {[kind |-> "prepare", h |-> 5, idx |-> 0],
          [kind |-> "prepare", h |-> 7, idx |-> 0],
          [kind |-> "prepare", h |-> 6, idx |-> 0],
          [kind |-> "sign", h |-> 5, idx |-> 1],
          [kind |-> "prepare", h |-> 1, idx |-> 2]}

MCTip == [n \in MCNode |-> IF n = 1 THEN 12 ELSE 5]

\* A cap of one key: a queue that holds two is popped by the next mark.
MCCap == [kd \in MCKind |-> 1]
=============================================================================
