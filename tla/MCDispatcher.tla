----------------------------- MODULE MCDispatcher -----------------------------
(***************************************************************************)
(* A node with two transactions, three blocks from another node, and a     *)
(* client that writes to all and votes in one message.                     *)
(***************************************************************************)
EXTENDS Dispatcher, TLC

CONSTANTS t1, t2, peer, text

PeerBlock(i, id, prev, txs) == [by |-> peer, nr |-> i, id |-> id, prev |-> prev, txs |-> txs]

\* Two blocks of a chain, and one that competes with the second (Miner!IsFork).
ThreeBlocks == {PeerBlock(1, 1, Genesis, {}), PeerBlock(2, 2, <<peer, 1>>, {t1}),
                PeerBlock(3, 1, <<peer, 1>>, {t2})}
TextAndVote == [r \in Requests |-> <<"rumorer", "vote">>]
=============================================================================
