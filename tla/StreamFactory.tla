---------------------------- MODULE StreamFactory ----------------------------
(***************************************************************************)
(* StreamFactory (contracts/src/StreamFactory.sol) around one clone: the   *)
(* owner's knobs and the three ways a stream comes to exist. Streams share *)
(* no storage, so one clone stands for each of them, with the parties, the *)
(* rate and the ceiling it was created for.                                *)
(***************************************************************************)
EXTENDS AccrualStream

CONSTANTS
  FeeChoices,   (* Rates the owner may set, in basis points.               *)
  Treasuries    (* Addresses the owner may set as treasury.                *)

ASSUME FactoryAssumption == FeeChoices \subseteq Nat

VARIABLES platformFeeBps, platformTreasury   (* feeBps and treasury.       *)

knobs == <<keeper, platformFeeBps, platformTreasury>>

vars == <<now, keeper, terms, lifecycle, deposited, settled, relayNonce,
          merchantStarted, escrow, payouts, observed, platformFeeBps, platformTreasury>>

MAX_FEE_BPS == 1000

Init ==
  /\ now = 1
  /\ keeper \in Addr
  /\ platformFeeBps = 200 /\ platformTreasury \in Treasuries
  /\ feeBps = 0 /\ treasury = platformTreasury
  /\ status = "None"
  /\ startedAt = 0 /\ segmentStart = 0 /\ closedActiveSeconds = 0 /\ pausedAt = 0
  /\ deposited = 0 /\ settledSeconds = 0 /\ settledAmount = 0 /\ settledFee = 0
  /\ relayNonce = 0 /\ merchantStarted = FALSE
  /\ escrow = 0 /\ toMerchant = 0 /\ toTreasury = 0 /\ toSubscriber = 0
  /\ ran = 0 /\ slept = 0

SetKeeper(who) ==
  /\ keeper' = who
  /\ UNCHANGED <<now, terms, lifecycle, deposited, settled, relayNonce, merchantStarted,
                 escrow, payouts, observed, platformFeeBps, platformTreasury>>

(* Wrong: no ceiling on the fee.                                           *)
SetAnyFee(bps, to) ==
  /\ platformFeeBps' = bps /\ platformTreasury' = to
  /\ UNCHANGED <<now, keeper, terms, lifecycle, deposited, settled, relayNonce,
                 merchantStarted, escrow, payouts, observed>>

SetFee(bps, to) ==
  /\ bps <= MAX_FEE_BPS
  /\ platformFeeBps' = bps /\ platformTreasury' = to
  /\ UNCHANGED <<now, keeper, terms, lifecycle, deposited, settled, relayNonce,
                 merchantStarted, escrow, payouts, observed>>

(* A fresh clone snapshots the fee and the treasury.                       *)
NewClone ==
  /\ status = "None"
  /\ feeBps' = platformFeeBps /\ treasury' = platformTreasury

Create ==
  /\ NewClone
  /\ status' = "Created"
  /\ UNCHANGED <<now, startedAt, segmentStart, closedActiveSeconds, pausedAt, deposited,
                 settled, relayNonce, merchantStarted, escrow, payouts, observed, knobs>>

(* permit, create, transferFrom of the whole ceiling, fundAndStart.        *)
CreateWithPermit ==
  /\ NewClone
  /\ MaxEscrow >= Rate
  /\ deposited' = MaxEscrow /\ escrow' = escrow + MaxEscrow
  /\ status' = "Active"
  /\ startedAt' = now /\ segmentStart' = now
  /\ UNCHANGED <<now, closedActiveSeconds, pausedAt, settled, relayNonce, merchantStarted,
                 payouts, observed, knobs>>

(* The same with fund: the escrow is held and no second accrues.           *)
CreateWithPermitNoStart ==
  /\ NewClone
  /\ deposited' = MaxEscrow /\ escrow' = escrow + MaxEscrow
  /\ status' = "Created"
  /\ merchantStarted' = TRUE
  /\ UNCHANGED <<now, startedAt, segmentStart, closedActiveSeconds, pausedAt, settled,
                 relayNonce, payouts, observed, knobs>>

(* settleBatch goes on past a stream whose settle reverts.                 *)
SettleBatch ==
  IF Live THEN Settle /\ UNCHANGED knobs ELSE UNCHANGED vars

Next ==
  \/ \E who \in Addr : SetKeeper(who)
  \/ \E bps \in FeeChoices, to \in Treasuries : SetFee(bps, to)
  \/ Create \/ CreateWithPermit \/ CreateWithPermitNoStart
  \/ SettleBatch
  \/ StreamCall /\ UNCHANGED <<platformFeeBps, platformTreasury>>
  \/ \E d \in Steps : Tick(d) /\ UNCHANGED <<platformFeeBps, platformTreasury>>

Spec == Init /\ [][Next]_vars

(* The worker's keeper settles without being asked (api/src/worker/keeper  *)
(* in a loop), so settleBatch is fair. No party ever has to act.           *)
FairSpec == Spec /\ WF_vars(SettleBatch)

-----------------------------------------------------------------------------
(* Properties.                                                             *)

(* Every variable keeps its type: statuses, natural amounts and instants.  *)
(* Amounts never go negative, so no subtraction of the contract reverts.   *)
TypeOK ==
  /\ now \in Nat /\ keeper \in Addr
  /\ platformFeeBps \in 0 .. MAX_FEE_BPS /\ platformTreasury \in Treasuries
  /\ feeBps \in 0 .. MAX_FEE_BPS /\ treasury \in Treasuries
  /\ status \in {"None", "Created", "Active", "Paused", "Canceled"}
  /\ startedAt \in Nat /\ segmentStart \in Nat /\ closedActiveSeconds \in Nat
  /\ pausedAt \in Nat /\ deposited \in Nat
  /\ settledSeconds \in Nat /\ settledAmount \in Nat /\ settledFee \in Nat
  /\ relayNonce \in Nat /\ merchantStarted \in BOOLEAN
  /\ escrow \in Nat /\ toMerchant \in Nat /\ toTreasury \in Nat /\ toSubscriber \in Nat
  /\ ran \in Nat /\ slept \in Nat

(* The money laws of FR-CON-072: every token ever deposited is in the      *)
(* escrow, with the merchant, with the treasury or back with the           *)
(* subscriber; the stream holds exactly what is not settled until it ends, *)
(* and nothing after.                                                      *)
Solvent ==
  /\ deposited = escrow + toMerchant + toTreasury + toSubscriber
  /\ escrow = IF status = "Canceled" THEN 0 ELSE deposited - settledAmount
  /\ toTreasury = settledFee /\ toMerchant = settledAmount - settledFee
  /\ status # "Canceled" => toSubscriber = 0
  /\ deposited <= MaxEscrow

(* Only real running time is billed (BR-CON-001..003): whatever the order  *)
(* of settles, pauses, top-ups and late observers, accrued seconds are the *)
(* seconds the stream truly ran, capped by the pot, and the end settles    *)
(* all of them and not one more.                                           *)
OnlyTimeRunIsBilled ==
  /\ settledAmount = settledSeconds * Rate
  /\ settledSeconds <= AtMost(ran, maxSeconds)
  /\ Live => accruedSeconds = AtMost(ran, maxSeconds)
  /\ status = "Canceled" => settledSeconds = AtMost(ran, maxSeconds)

(* The fee is never more than the snapshotted share of what is settled,    *)
(* however the settlement is cut into chunks and whatever the owner does   *)
(* to the platform's knobs meanwhile (FR-CON-006, FR-CON-030).             *)
FeeWithinShare == settledFee * 10000 <= settledAmount * feeBps

(* The end is exact. StreamCanceled reports the seconds that were paid     *)
(* for; a started stream reports secondsElapsed = maxSeconds if and only   *)
(* if it ran its pot dry (what the platform tells a cap end by); and a     *)
(* stream that did is back-dated to the second the pot ran out, pauses     *)
(* excluded, however late it was observed (FR-CON-041).                    *)
EndIsExact ==
  status = "Canceled" =>
    /\ closedActiveSeconds = settledSeconds
    /\ pausedAt <= now
    /\ startedAt # 0 =>
         /\ closedActiveSeconds = maxSeconds <=> ran >= maxSeconds
         /\ ran >= maxSeconds => pausedAt = startedAt + maxSeconds + slept

(* The clone keeps the promise of the abstract prepaid meter, step by      *)
(* step: earned money never exceeds the seconds run, nothing goes back     *)
(* before the end and nothing moves after it.                              *)
Meter == INSTANCE PrepaidMeter WITH
  Ceiling <- MaxEscrow, on <- (status = "Active"), put <- deposited, held <- escrow,
  earned <- toMerchant + toTreasury, returned <- toSubscriber,
  closed <- (status = "Canceled")

MeterSpec == Meter!MeterSpec

(* A full pot that ran dry is always closed out, with no party acting: the *)
(* keeper's settle ends the stream and frees the dust (FR-CON-041).        *)
CapAlwaysEnds ==
  (status = "Active" /\ Exhausted /\ deposited = MaxEscrow) ~> (status = "Canceled")

(* A stream whose pot ran dry stops accruing for good: "When activeSeconds *)
(* >= maxSeconds(), accrual is frozen at maxSeconds()" (FR-CON-040) and a  *)
(* late settle "settles the same amount as one at the exhaustion second"   *)
(* (FR-CON-041). deposit is open to an exhausted stream nobody observed.   *)
AccrualFrozenAtCap ==
  [][status = "Active" /\ Exhausted => accruedSeconds' = accruedSeconds]_vars
=============================================================================
