----------------------------- MODULE MCIndexer -----------------------------
(***************************************************************************)
(* One stream of one second, with a fee on it. Two logs travel             *)
(* together when they are of one transaction (SameTx: a stream with one    *)
(* transaction in a block) or of one block (SameBlock).                    *)
(***************************************************************************)
EXTENDS Indexer

CONSTANTS p, t1

MCAddr == {p}
MCTreasuries == {t1}
MCSteps == {1}
SameTx(l, m) == l.tx = m.tx
SameBlock(l, m) == l.block = m.block
=============================================================================
