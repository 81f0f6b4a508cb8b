---------------------------- MODULE AccrualStream ----------------------------
(***************************************************************************)
(* One AccrualStream clone (contracts/src/AccrualStream.sol): its storage, *)
(* the tokens it holds and has paid, and one action per external function. *)
(* A call that reverts changes nothing, so every require is a guard.       *)
(*                                                                         *)
(* ran and slept observe the real time a stream spent running and paused;  *)
(* no action of the contract reads them.                                   *)
(***************************************************************************)
EXTENDS Integers

CONSTANTS
  Rate,        (* ratePerSecond of the stream.                             *)
  MaxEscrow,   (* The escrow ceiling fixed at create.                      *)
  Merchant,    (* The parties; they may be one address.                    *)
  Subscriber,
  Addr,        (* Every address that sends a transaction.                  *)
  Amounts,     (* Amounts a deposit may carry.                             *)
  Deadlines,   (* Deadlines a signed cancel may carry.                     *)
  Steps,       (* Seconds between two blocks.                              *)
  MaxTime      (* Bound on the clock.                                      *)

ASSUME StreamAssumption ==
  /\ Rate \in Nat \ {0} /\ MaxEscrow \in Nat \ {0} /\ MaxTime \in Nat
  /\ Merchant \in Addr /\ Subscriber \in Addr
  /\ Amounts \subseteq Nat /\ Deadlines \subseteq Nat
  /\ Steps \subseteq Nat \ {0}

VARIABLES
  now,                  (* block.timestamp.                                *)
  keeper,               (* factory.keeper(), read at each call.            *)
  feeBps, treasury,     (* The terms snapshotted at create.                *)
  status, startedAt, segmentStart, closedActiveSeconds, pausedAt,
  deposited, settledSeconds, settledAmount, settledFee,
  relayNonce, merchantStarted,
  escrow,               (* token.balanceOf(this).                          *)
  toMerchant, toTreasury, toSubscriber,   (* Transfers made by the stream. *)
  ran, slept

terms     == <<feeBps, treasury>>
lifecycle == <<status, startedAt, segmentStart, closedActiveSeconds, pausedAt>>
settled   == <<settledSeconds, settledAmount, settledFee>>
payouts   == <<toMerchant, toTreasury, toSubscriber>>
observed  == <<ran, slept>>

-----------------------------------------------------------------------------
(* The views.                                                              *)

maxSeconds == deposited \div Rate

refundable == deposited - settledAmount

AtMost(n, cap) == IF n > cap THEN cap ELSE n

accruedSeconds ==
  AtMost(closedActiveSeconds + (IF status = "Active" THEN now - segmentStart ELSE 0),
         maxSeconds)

exhaustedAt ==
  IF startedAt = 0 THEN 0
  ELSE IF maxSeconds <= closedActiveSeconds
       THEN IF pausedAt # 0 THEN pausedAt ELSE segmentStart
       ELSE segmentStart + (maxSeconds - closedActiveSeconds)

Exhausted == closedActiveSeconds + (now - segmentStart) >= maxSeconds

-----------------------------------------------------------------------------
(* The modifiers. Live is a deployed clone that has not ended.             *)

Live == status \in {"Created", "Active", "Paused"}

PartyOrKeeper(who) == who \in {Subscriber, Merchant, keeper}

RefusesSubscriber(who) == merchantStarted /\ who = Subscriber /\ who # Merchant

RefusesPauser(who) == who = Subscriber /\ who # Merchant

-----------------------------------------------------------------------------
(* Paying secs seconds and returning refund: the token reverts a transfer  *)
(* the balance does not cover. The fee rounds down.                        *)

FeeOnRoundedUp(amount) == (amount * feeBps + 9999) \div 10000

FeeOn(amount) == (amount * feeBps) \div 10000

(* Wrong: the fee is taken on top of the merchant's full amount.           *)
PayFeeOnTop(secs, refund) ==
  LET amount == secs * Rate
      fee    == FeeOn(amount)
  IN  /\ escrow >= amount + refund
      /\ settledSeconds' = settledSeconds + secs
      /\ settledAmount' = settledAmount + amount
      /\ settledFee' = settledFee + fee
      /\ toMerchant' = toMerchant + amount
      /\ toTreasury' = toTreasury + fee
      /\ toSubscriber' = toSubscriber + refund
      /\ escrow' = escrow - (amount + refund)

Pay(secs, refund) ==
  LET amount == secs * Rate
      fee    == FeeOn(amount)
  IN  /\ escrow >= amount + refund
      /\ settledSeconds' = settledSeconds + secs
      /\ settledAmount' = settledAmount + amount
      /\ settledFee' = settledFee + fee
      /\ toMerchant' = toMerchant + (amount - fee)
      /\ toTreasury' = toTreasury + fee
      /\ toSubscriber' = toSubscriber + refund
      /\ escrow' = escrow - (amount + refund)

(* The stream ends at `at` with `active` closed seconds: the unsettled     *)
(* ones are paid and the whole rest of the deposit goes back.              *)
End(at, active) ==
  LET secs == AtMost(active, maxSeconds) - settledSeconds
  IN  /\ status' = "Canceled"
      /\ pausedAt' = at
      /\ closedActiveSeconds' = active
      /\ Pay(secs, refundable - secs * Rate)
      /\ UNCHANGED <<startedAt, segmentStart, deposited, merchantStarted>>

(* Wrong: the end is dated when it is observed.                            *)
EndAtObservation == End(now, maxSeconds)

EndAtCap == End(exhaustedAt, maxSeconds)

(* What cancel and cancelFor share.                                        *)
DoCancel ==
  \/ /\ status = "Active" /\ Exhausted
     /\ EndAtCap
  \/ /\ status = "Active" /\ ~Exhausted
     /\ End(now, closedActiveSeconds + (now - segmentStart))
  \/ /\ status \in {"Created", "Paused"}
     /\ End(now, closedActiveSeconds)

-----------------------------------------------------------------------------
(* The external functions. who is msg.sender.                              *)

(* Wrong: notCanceled dropped.                                             *)
DepositAfterEnd(amount) ==
  /\ status # "None" /\ amount > 0
  /\ deposited + amount <= MaxEscrow
  /\ deposited' = deposited + amount
  /\ escrow' = escrow + amount
  /\ UNCHANGED <<now, keeper, terms, lifecycle, settled, relayNonce,
                 merchantStarted, payouts, observed>>

Deposit(amount) ==
  /\ Live /\ amount > 0
  /\ deposited + amount <= MaxEscrow
  /\ deposited' = deposited + amount
  /\ escrow' = escrow + amount
  /\ UNCHANGED <<now, keeper, terms, lifecycle, settled, relayNonce,
                 merchantStarted, payouts, observed>>

Start(who) ==
  /\ PartyOrKeeper(who)
  /\ status = "Created" /\ deposited >= Rate
  /\ status' = "Active"
  /\ startedAt' = now /\ segmentStart' = now
  /\ UNCHANGED <<now, keeper, terms, closedActiveSeconds, pausedAt, deposited, settled,
                 relayNonce, merchantStarted, escrow, payouts, observed>>

Pause(who) ==
  /\ PartyOrKeeper(who) /\ ~RefusesPauser(who)
  /\ status = "Active"
  /\ \/ /\ Exhausted
        /\ EndAtCap
     \/ /\ ~Exhausted
        /\ closedActiveSeconds' = closedActiveSeconds + (now - segmentStart)
        /\ pausedAt' = now
        /\ status' = "Paused"
        /\ UNCHANGED <<startedAt, segmentStart, deposited, settled, merchantStarted,
                       escrow, payouts>>
  /\ UNCHANGED <<now, keeper, terms, relayNonce, observed>>

(* Wrong: the new segment starts where the last one ended.                  *)
ResumeOldSegment(who) ==
  /\ PartyOrKeeper(who) /\ ~RefusesPauser(who)
  /\ status = "Paused" /\ maxSeconds > closedActiveSeconds
  /\ status' = "Active"
  /\ segmentStart' = pausedAt
  /\ pausedAt' = 0
  /\ UNCHANGED <<now, keeper, terms, startedAt, closedActiveSeconds, deposited, settled,
                 relayNonce, merchantStarted, escrow, payouts, observed>>

Resume(who) ==
  /\ PartyOrKeeper(who) /\ ~RefusesPauser(who)
  /\ status = "Paused" /\ maxSeconds > closedActiveSeconds
  /\ status' = "Active"
  /\ segmentStart' = now
  /\ pausedAt' = 0
  /\ UNCHANGED <<now, keeper, terms, startedAt, closedActiveSeconds, deposited, settled,
                 relayNonce, merchantStarted, escrow, payouts, observed>>

Cancel(who) ==
  /\ PartyOrKeeper(who) /\ Live /\ ~RefusesSubscriber(who)
  /\ DoCancel
  /\ UNCHANGED <<now, keeper, terms, relayNonce, observed>>

(* A relayer submits a cancel that signer signed for the current nonce.    *)
CancelFor(signer, deadline) ==
  /\ Live /\ now <= deadline
  /\ signer \in {Subscriber, Merchant} /\ ~RefusesSubscriber(signer)
  /\ relayNonce' = relayNonce + 1
  /\ DoCancel
  /\ UNCHANGED <<now, keeper, terms, observed>>

(* Wrong: settle pays at the cap but never ends the stream.                *)
SettleWithoutEnd ==
  /\ Live
  /\ Pay(accruedSeconds - settledSeconds, 0)
  /\ UNCHANGED <<now, keeper, terms, lifecycle, deposited, merchantStarted, relayNonce,
                 observed>>

Settle ==
  /\ Live
  /\ \/ /\ status = "Active" /\ Exhausted
        /\ EndAtCap
     \/ /\ ~(status = "Active" /\ Exhausted)
        /\ Pay(accruedSeconds - settledSeconds, 0)
        /\ UNCHANGED <<lifecycle, deposited, merchantStarted>>
  /\ UNCHANGED <<now, keeper, terms, relayNonce, observed>>

(* A block d seconds later.                                                *)
Tick(d) ==
  /\ now + d <= MaxTime
  /\ now' = now + d
  /\ ran' = IF status = "Active" THEN ran + d ELSE ran
  /\ slept' = IF status = "Paused" THEN slept + d ELSE slept
  /\ UNCHANGED <<keeper, terms, lifecycle, deposited, settled, relayNonce,
                 merchantStarted, escrow, payouts>>

StreamCall ==
  \/ \E a \in Amounts : Deposit(a)
  \/ \E who \in Addr : Start(who) \/ Pause(who) \/ Resume(who) \/ Cancel(who)
  \/ \E who \in Addr, d \in Deadlines : CancelFor(who, d)
  \/ Settle
=============================================================================
