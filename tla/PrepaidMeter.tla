---------------------------- MODULE PrepaidMeter ----------------------------
(***************************************************************************)
(* What a stream promises its two parties, with no mention of how: a pot   *)
(* of prepaid money, a switch, and a count of the seconds the switch was   *)
(* on. Money leaves the pot only to the earning side, and never more than  *)
(* Rate per second run, until the account is closed; closing returns       *)
(* everything else, and nothing moves afterwards. StreamFactory implements *)
(* it (AccrualStream.sol, contracts/README.md, FR-CON-072).                *)
(***************************************************************************)
EXTENDS Integers

CONSTANTS
  Rate,       (* Price of one second of running.                           *)
  Ceiling     (* The most that may ever be put in the pot.                 *)

VARIABLES
  on,         (* Whether the meter is running.                             *)
  ran,        (* Seconds it has run.                                       *)
  put,        (* Everything ever put in the pot.                           *)
  held,       (* What the pot holds.                                       *)
  earned,     (* What left it to the earning side.                         *)
  returned,   (* What left it to the paying side.                          *)
  closed      (* Whether the account is closed.                            *)

meterVars == <<on, ran, put, held, earned, returned, closed>>

MeterInit ==
  /\ on = FALSE /\ closed = FALSE
  /\ ran = 0 /\ put = 0 /\ held = 0 /\ earned = 0 /\ returned = 0

(* Time passes: only a running meter counts it.                            *)
Run ==
  /\ on /\ ran' > ran
  /\ UNCHANGED <<on, put, held, earned, returned, closed>>

(* The switch moves, and no money with it.                                 *)
Switch ==
  /\ ~closed /\ on' = ~on
  /\ UNCHANGED <<ran, put, held, earned, returned, closed>>

(* Money comes in; the same step may switch the meter on.                  *)
Put ==
  /\ ~closed
  /\ put' > put /\ put' <= Ceiling
  /\ held' = held + (put' - put)
  /\ on' \in {on, TRUE}
  /\ UNCHANGED <<ran, earned, returned, closed>>

(* Money is earned: no more than the seconds run are worth.                *)
Earn ==
  /\ ~closed
  /\ earned' > earned /\ earned' <= Rate * ran
  /\ held' = held - (earned' - earned)
  /\ UNCHANGED <<on, ran, put, returned, closed>>

(* The account closes: the last earnings leave, the rest goes back.        *)
Close ==
  /\ ~closed /\ closed' = TRUE /\ on' = FALSE
  /\ earned' >= earned /\ earned' <= Rate * ran
  /\ held' = 0
  /\ returned' = returned + held - (earned' - earned)
  /\ returned' >= returned
  /\ UNCHANGED <<ran, put>>

MeterNext == Run \/ Switch \/ Put \/ Earn \/ Close

MeterSpec == MeterInit /\ [][MeterNext]_meterVars
=============================================================================
