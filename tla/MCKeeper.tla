------------------------------ MODULE MCKeeper ------------------------------
(***************************************************************************)
(* One session, two subscribers or one with two tabs, two requests at      *)
(* once and the sweep.                                                     *)
(***************************************************************************)
EXTENDS Keeper, TLC

CONSTANTS w1, w2

MCRows == {1, 2}
MCWallets == {w1, w2}
MCOffers == {<<w1, 1>>, <<w1, 2>>, <<w2, 1>>}
=============================================================================
