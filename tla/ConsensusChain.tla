--------------------------- MODULE ConsensusChain ---------------------------
(***************************************************************************)
(* What the PBFT seal engine promises the chain of every miner: there is   *)
(* one sequence of decided blocks, a block is decided at most once per     *)
(* height, and each miner's chain is a prefix of that sequence that only   *)
(* grows.  PBFT.tla is checked to implement this specification under the  *)
(* refinement mapping given there.                                         *)
(***************************************************************************)
EXTENDS Naturals, Sequences

CONSTANTS
  Node,       \* miner indexes
  Hash,       \* block identities
  MaxHeight   \* last height decided in a model

VARIABLES
  decided,    \* the decided blocks, height k at index k
  chain       \* chain[i]: blocks miner i has imported, height k at index k

vars == <<decided, chain>>

TypeOK ==
  /\ decided \in Seq(Hash)
  /\ chain \in [Node -> Seq(Hash)]

Init ==
  /\ decided = <<>>
  /\ chain = [i \in Node |-> <<>>]

\* Some miner seals the block of the next undecided height.
Decide(b) ==
  /\ Len(decided) < MaxHeight
  /\ decided' = Append(decided, b)
  /\ UNCHANGED chain

\* Miner i imports the next decided block.
Learn(i) ==
  /\ Len(chain[i]) < Len(decided)
  /\ chain' = [chain EXCEPT ![i] = Append(@, decided[Len(chain[i]) + 1])]
  /\ UNCHANGED decided

Next ==
  \/ \E b \in Hash : Decide(b)
  \/ \E i \in Node : Learn(i)

Spec == Init /\ [][Next]_vars

\* Every chain is a prefix of the decided sequence.
ChainsArePrefixes ==
  \A i \in Node : SubSeq(decided, 1, Len(chain[i])) = chain[i]
=============================================================================
