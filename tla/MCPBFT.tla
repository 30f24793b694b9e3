------------------------------- MODULE MCPBFT -------------------------------
(* Model-checking instances of PBFT.                                        *)
EXTENDS PBFT

CONSTANTS b1, b2, genesis, none, NodeCount

MCNode == 0 .. (NodeCount - 1)
MCBlocks == {b1, b2}

\* Consecutive leaders seal different bodies, so a proposal of a later view
\* conflicts with one of the view before.
MCClientBlocks == [i \in MCNode |-> IF i % 2 = 0 THEN {b1} ELSE {b2}]

\* Every client may seal either body: after a restart a leader may seal a
\* block other than the one it sealed before.
MCAnyBlocks == [i \in MCNode |-> MCBlocks]
=============================================================================
