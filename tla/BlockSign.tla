------------------------------ MODULE BlockSign ------------------------------
(***************************************************************************)
(* The certificate check of a PBFT block (src/libpbftseal/PBFT.cpp):     *)
(* checkBlockSign, the sign checker the block chain calls on every block   *)
(* it imports with the sign list of its seal, its own or a peer's.  The    *)
(* list checked is any list of entries.  A signature is the pair of its    *)
(* signer and the hash it signs: dev::verify(pub, sig, h) holds exactly    *)
(* when sig was made with pub's key over h.  The inputs are drawn from     *)
(* bounded sets in Init and do not change.                                 *)
(***************************************************************************)
EXTENDS Naturals, Sequences, SequencesExt, FiniteSets

CONSTANTS
  N,            \* the number of miners; their indexes are 0 .. N-1
  Hash,         \* block hashes (model values)
  BlockHash,    \* the hash of the block being checked
  MaxSignList   \* longest sign list a peer's block is checked with

ASSUME N \in Nat \ {0} /\ BlockHash \in Hash /\ MaxSignList \in Nat

VARIABLES
  nodeList,  \* the header's nodeList
  signList   \* a sign list received with a block: <<idx, signature>> pairs

vars == <<nodeList, signList>>

Miner == 0 .. (N - 1)

\* A signature by miner `by` over hash `of`.
Sig == [by : Miner, of : Hash]

\* A sign list entry; its index may be out of the roster's range.
Entry == [idx : 0 .. N, sig : Sig]

\* getMinerList: the public key of miner idx at position idx.
MinerList == [i \in Miner |-> i]

\* dev::verify with the public key pub.
Verify(pub, sig, h) == sig.by = pub /\ sig.of = h

\* The loop of checkBlockSign: every entry's index is in range and its
\* signature verifies against that miner's key; the first bad one fails.
RECURSIVE SignsValid(_, _, _)
SignsValid(list, ml, h) ==
  \/ list = <<>>
  \/ /\ Head(list).idx \in DOMAIN ml
     /\ Verify(ml[Head(list).idx], Head(list).sig, h)
     /\ SignsValid(Tail(list), ml, h)

\* checkBlockSign: the header's node list is the roster, the list has at
\* least N - (N-1)/3 entries, and every entry verifies.
CheckBlockSign(h, nl, list) ==
  /\ nl = MinerList
  /\ Len(list) >= N - (N - 1) \div 3
  /\ SignsValid(list, MinerList, h)

Init ==
  /\ nodeList \in {MinerList, [i \in 0 .. (N - 2) |-> i]}
  /\ signList \in BoundedSeq(Entry, MaxSignList)

Next == UNCHANGED vars

Spec == Init /\ [][Next]_vars

(***************************************************************************)
(* Properties.                                                             *)
(***************************************************************************)
\* The reference: a certificate for h is valid signatures over h from at
\* least a quorum of distinct miners.
Certified(h, list) ==
  LET good == {e \in ToSet(list) : e.idx \in Miner /\ Verify(e.idx, e.sig, h)}
  IN Cardinality({e.idx : e \in good}) >= N - (N - 1) \div 3

\* A block checkBlockSign accepts carries a quorum of distinct miners'
\* signatures, so no fewer than a quorum of miners can make a block that
\* every peer imports.
AcceptedIsCertified ==
  CheckBlockSign(BlockHash, nodeList, signList) => Certified(BlockHash, signList)
=============================================================================
