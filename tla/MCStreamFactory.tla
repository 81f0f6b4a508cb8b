--------------------------- MODULE MCStreamFactory ---------------------------
(***************************************************************************)
(* A pot of three seconds and some dust, a rate at which the fee rounds,   *)
(* a keeper the owner can replace, a fee choice over the ceiling.          *)
(***************************************************************************)
EXTENDS StreamFactory

CONSTANTS merchant, subscriber, k1, t1

MCAddr == {merchant, subscriber, k1}
MCTreasuries == {t1}
MCAmounts == {5, 15, 30}
MCDeadlines == {4}
MCSteps == {1, 2}
MCFeeChoices == {0, 1000, 2000}
=============================================================================
