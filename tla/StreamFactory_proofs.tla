------------------------ MODULE StreamFactory_proofs ------------------------
(***************************************************************************)
(* Proofs about the contracts, for every rate, ceiling, party, fee choice, *)
(* deposit size, block interval and time bound.                            *)
(***************************************************************************)
EXTENDS StreamFactory, Arithmetic

(* What ties the contract's segments to real time, which none of the       *)
(* properties says: an open segment continues the seconds already run, and *)
(* no live stream has closed a pot's worth of seconds.                     *)
ClockInv ==
  /\ now >= 1
  /\ status \in {"None", "Created"} =>
       startedAt = 0 /\ closedActiveSeconds = 0 /\ pausedAt = 0 /\ ran = 0 /\ slept = 0
  /\ status = "Active" =>
       /\ startedAt >= 1 /\ segmentStart <= now /\ pausedAt = 0
       /\ ran = closedActiveSeconds + (now - segmentStart)
       /\ segmentStart = startedAt + closedActiveSeconds + slept
       /\ closedActiveSeconds < maxSeconds
  /\ status = "Paused" =>
       /\ startedAt >= 1 /\ pausedAt <= now
       /\ ran = closedActiveSeconds
       /\ now = startedAt + ran + slept
       /\ closedActiveSeconds < maxSeconds
  /\ status = "None" => deposited = 0

(* The inductive invariant.                                                *)
IInv ==
  TypeOK /\ ClockInv /\ Solvent /\ OnlyTimeRunIsBilled /\ FeeWithinShare /\ EndIsExact

-----------------------------------------------------------------------------

(* The fee on an amount is a natural number, at most the amount, and at    *)
(* most its share.                                                         *)
LEMMA FeeBounds ==
  ASSUME NEW amount \in Nat, feeBps \in 0 .. MAX_FEE_BPS
  PROVE  /\ FeeOn(amount) \in Nat
         /\ FeeOn(amount) <= amount
         /\ FeeOn(amount) * 10000 <= amount * feeBps
  <1> DEFINE share == amount * feeBps
  <1>1. feeBps \in Nat /\ feeBps <= 1000
    BY DEF MAX_FEE_BPS
  <1>2. share \in Nat /\ share <= amount * 1000
    BY <1>1
  <1> HIDE DEF share
  <1>3. /\ share \div 10000 \in Nat
        /\ (share \div 10000) * 10000 <= share
    BY <1>2
  <1>4. share \div 10000 <= amount
    BY <1>2, <1>3
  <1>5. QED
    BY <1>3, <1>4 DEF FeeOn, share

(* maxSeconds is a natural number of seconds the deposit covers.           *)
LEMMA MaxSecondsBounds ==
  ASSUME TypeOK
  PROVE  maxSeconds \in Nat /\ maxSeconds * Rate <= deposited
  BY StreamAssumption, DivMul DEF TypeOK, maxSeconds

(* Pay keeps the books: the ledger stays rate times seconds, the fee stays *)
(* within its share, and what leaves the escrow is what arrives.           *)
LEMMA PayKeepsBooks ==
  ASSUME TypeOK, Solvent, settledAmount = settledSeconds * Rate, FeeWithinShare,
         NEW secs \in Nat, NEW refund \in Nat, Pay(secs, refund), UNCHANGED <<feeBps, deposited>>
  PROVE  /\ settledSeconds' = settledSeconds + secs
         /\ settledAmount' = settledSeconds' * Rate
         /\ settledSeconds' \in Nat /\ settledAmount' \in Nat /\ settledFee' \in Nat
         /\ toMerchant' \in Nat /\ toTreasury' \in Nat
         /\ toSubscriber' = toSubscriber + refund
         /\ escrow' \in Nat
         /\ escrow' = escrow - (secs * Rate + refund)
         /\ settledAmount' = settledAmount + secs * Rate
         /\ deposited = escrow' + toMerchant' + toTreasury' + toSubscriber'
         /\ toTreasury' = settledFee' /\ toMerchant' = settledAmount' - settledFee'
         /\ FeeWithinShare'
  <1> DEFINE amount == secs * Rate
             fee == FeeOn(amount)
  <1>1. amount \in Nat /\ Rate \in Nat
    BY StreamAssumption
  <1>2. fee \in Nat /\ fee <= amount /\ fee * 10000 <= amount * feeBps
    BY <1>1, FeeBounds DEF TypeOK
  <1>3. /\ escrow >= amount + refund
        /\ settledSeconds' = settledSeconds + secs
        /\ settledAmount' = settledAmount + amount
        /\ settledFee' = settledFee + fee
        /\ toMerchant' = toMerchant + (amount - fee)
        /\ toTreasury' = toTreasury + fee
        /\ toSubscriber' = toSubscriber + refund
        /\ escrow' = escrow - (amount + refund)
    BY DEF Pay
  <1>4. settledAmount' = settledSeconds' * Rate
    BY <1>1, <1>3, StreamAssumption DEF TypeOK
  <1> HIDE DEF fee
  <1>5. FeeWithinShare'
    <2> DEFINE due == amount * feeBps
               settledDue == settledAmount * feeBps
    <2>1. feeBps \in Nat /\ settledAmount \in Nat /\ settledFee \in Nat
      BY DEF TypeOK
    <2>2. due \in Nat /\ settledDue \in Nat
      BY <1>1, <2>1
    <2>3. (settledAmount + amount) * feeBps = settledDue + due
      BY <1>1, <2>1
    <2>4. settledFee * 10000 <= settledDue
      BY DEF FeeWithinShare
    <2>5. fee * 10000 <= due
      BY <1>2
    <2> HIDE DEF due, settledDue, amount
    <2>6. (settledFee + fee) * 10000 <= settledDue + due
      BY <2>1, <2>2, <2>4, <2>5, <1>2
    <2>7. QED
      BY <2>3, <2>6, <1>3 DEF FeeWithinShare
  <1> HIDE DEF amount
  <1>6. QED
    BY <1>1, <1>2, <1>3, <1>4, <1>5 DEF TypeOK, Solvent, amount

-----------------------------------------------------------------------------
(* One lemma per kind of step.                                             *)

(* Ending a stream at an instant and a count that agree with the real time *)
(* it ran keeps the invariant: everything accrued is paid, the rest goes   *)
(* back and the escrow is empty.                                           *)
LEMMA EndKeepsIInv ==
  ASSUME IInv, Live, NEW at \in Nat, NEW active \in Nat,
         at <= now,
         active = AtMost(ran, maxSeconds),
         startedAt # 0 /\ ran >= maxSeconds => at = startedAt + maxSeconds + slept,
         End(at, active), relayNonce' \in Nat,
         UNCHANGED <<now, keeper, terms, observed, platformFeeBps, platformTreasury>>
  PROVE  IInv'
  <1> DEFINE secs == AtMost(active, maxSeconds) - settledSeconds
             refund == refundable - secs * Rate
  <1>1. maxSeconds \in Nat /\ maxSeconds * Rate <= deposited /\ Rate \in Nat
    BY MaxSecondsBounds, StreamAssumption DEF IInv
  <1>2. TypeOK /\ Solvent /\ FeeWithinShare /\ settledAmount = settledSeconds * Rate
    BY DEF IInv, OnlyTimeRunIsBilled
  <1>3. AtMost(active, maxSeconds) = active /\ active <= maxSeconds
    BY <1>1, <1>2 DEF AtMost, TypeOK
  <1>4. secs \in Nat /\ secs = active - settledSeconds
    BY <1>1, <1>2, <1>3 DEF IInv, OnlyTimeRunIsBilled, TypeOK
  <1>5. secs * Rate = active * Rate - settledAmount
    BY <1>1, <1>2, <1>4, MulSub DEF TypeOK
  <1>6. active * Rate \in Nat /\ active * Rate <= deposited
    BY <1>1, <1>2, <1>3, MulMono DEF TypeOK
  <1>7. refund \in Nat /\ refund = deposited - active * Rate
    BY <1>2, <1>5, <1>6 DEF refundable, TypeOK
  <1>8. Pay(secs, refund) /\ UNCHANGED <<feeBps, deposited>>
    BY DEF End, terms
  <1> HIDE DEF secs, refund
  <1>9. /\ settledSeconds' = settledSeconds + secs
        /\ settledAmount' = settledSeconds' * Rate
        /\ settledSeconds' \in Nat /\ settledAmount' \in Nat /\ settledFee' \in Nat
        /\ toMerchant' \in Nat /\ toTreasury' \in Nat
        /\ toSubscriber' = toSubscriber + refund
        /\ escrow' \in Nat
        /\ escrow' = escrow - (secs * Rate + refund)
        /\ settledAmount' = settledAmount + secs * Rate
        /\ deposited = escrow' + toMerchant' + toTreasury' + toSubscriber'
        /\ toTreasury' = settledFee' /\ toMerchant' = settledAmount' - settledFee'
        /\ FeeWithinShare'
    BY <1>2, <1>4, <1>7, <1>8, PayKeepsBooks
  <1>10. settledSeconds' = active
    BY <1>4, <1>9 DEF TypeOK, IInv
  <1>11. escrow' = 0
    <2>1. escrow = deposited - settledAmount
      BY <1>2 DEF Solvent, Live
    <2>2. secs * Rate \in Int /\ active * Rate \in Int
      BY <1>1, <1>4, <1>6
    <2>3. QED
      BY <2>1, <2>2, <1>2, <1>5, <1>7, <1>9 DEF TypeOK
  <1>12. /\ status' = "Canceled" /\ pausedAt' = at /\ closedActiveSeconds' = active
         /\ UNCHANGED <<startedAt, segmentStart, deposited, merchantStarted>>
    BY DEF End
  <1>13. maxSeconds' = maxSeconds
    BY <1>12 DEF maxSeconds
  <1>14. TypeOK'
    BY <1>2, <1>7, <1>9, <1>12 DEF TypeOK, terms, observed
  <1>15. ClockInv'
    BY <1>12 DEF IInv, ClockInv, observed
  <1>16. Solvent'
    BY <1>2, <1>9, <1>11, <1>12 DEF Solvent
  <1>17. OnlyTimeRunIsBilled'
    BY <1>9, <1>10, <1>12, <1>13, <1>1, <1>2 DEF OnlyTimeRunIsBilled, observed, Live, AtMost, TypeOK
  <1>18. EndIsExact'
    BY <1>10, <1>12, <1>13, <1>1, <1>2 DEF EndIsExact, observed, AtMost, TypeOK
  <1>19. QED
    BY <1>9, <1>14, <1>15, <1>16, <1>17, <1>18 DEF IInv

(* EndAtCap is such an end: the cap instant is startedAt plus the pot's    *)
(* seconds plus the time spent paused, and it has passed.                  *)
LEMMA EndAtCapKeepsIInv ==
  ASSUME IInv, status = "Active", Exhausted, EndAtCap, relayNonce' \in Nat,
         UNCHANGED <<now, keeper, terms, observed, platformFeeBps, platformTreasury>>
  PROVE  IInv'
  <1>1. maxSeconds \in Nat
    BY MaxSecondsBounds DEF IInv
  <1>2. ClockInv /\ TypeOK
    BY DEF IInv
  <1>3. exhaustedAt = segmentStart + (maxSeconds - closedActiveSeconds)
    BY <1>1, <1>2 DEF exhaustedAt, ClockInv, TypeOK
  <1>4. exhaustedAt = startedAt + maxSeconds + slept /\ exhaustedAt \in Nat
    BY <1>1, <1>2, <1>3 DEF ClockInv, TypeOK
  <1>5. ran >= maxSeconds /\ exhaustedAt <= now
    BY <1>1, <1>2, <1>3 DEF Exhausted, ClockInv, TypeOK
  <1>6. maxSeconds = AtMost(ran, maxSeconds)
    BY <1>1, <1>2, <1>5 DEF AtMost, TypeOK
  <1>7. End(exhaustedAt, maxSeconds)
    BY DEF EndAtCap
  <1> HIDE DEF exhaustedAt, maxSeconds
  <1>8. QED
    BY <1>1, <1>4, <1>5, <1>6, <1>7, EndKeepsIInv DEF Live

(* Cancel, however it is reached, ends a live stream at its last second.   *)
LEMMA DoCancelKeepsIInv ==
  ASSUME IInv, Live, DoCancel, relayNonce' \in Nat,
         UNCHANGED <<now, keeper, terms, observed, platformFeeBps, platformTreasury>>
  PROVE  IInv'
  <1>1. maxSeconds \in Nat /\ ClockInv /\ TypeOK
    BY MaxSecondsBounds DEF IInv
  <1>2. CASE status = "Active" /\ Exhausted /\ EndAtCap
    BY <1>2, EndAtCapKeepsIInv
  <1>3. CASE /\ status = "Active" /\ ~Exhausted
             /\ End(now, closedActiveSeconds + (now - segmentStart))
    <2> DEFINE active == closedActiveSeconds + (now - segmentStart)
    <2>1. active \in Nat /\ active = ran /\ ran < maxSeconds /\ now \in Nat
      BY <1>1, <1>3 DEF Exhausted, ClockInv, TypeOK
    <2>2. active = AtMost(ran, maxSeconds)
      BY <1>1, <2>1 DEF AtMost
    <2>3. End(now, active)
      BY <1>3
    <2>4. now <= now /\ ~(ran >= maxSeconds)
      BY <1>1, <2>1 DEF TypeOK
    <2> HIDE DEF active
    <2>5. QED
      BY <2>1, <2>2, <2>3, <2>4, EndKeepsIInv
  <1>4. CASE /\ status \in {"Created", "Paused"}
             /\ End(now, closedActiveSeconds)
    <2>1. closedActiveSeconds \in Nat /\ now \in Nat /\ now <= now
      BY <1>1 DEF TypeOK
    <2>2. closedActiveSeconds = AtMost(ran, maxSeconds)
      BY <1>1, <1>4 DEF AtMost, ClockInv, TypeOK
    <2>3. ~(startedAt # 0 /\ ran >= maxSeconds)
      BY <1>1, <1>4 DEF ClockInv, TypeOK
    <2>4. QED
      BY <1>4, <2>1, <2>2, <2>3, EndKeepsIInv
  <1>5. QED
    BY <1>2, <1>3, <1>4 DEF DoCancel

(* A step that moves neither money nor the segments, nor the clock.        *)
LEMMA IdleKeepsIInv ==
  ASSUME IInv,
         UNCHANGED <<now, terms, lifecycle, deposited, settled, relayNonce,
                     merchantStarted, escrow, payouts, observed>>,
         keeper' \in Addr, platformFeeBps' \in 0 .. MAX_FEE_BPS,
         platformTreasury' \in Treasuries
  PROVE  IInv'
  <1>1. TypeOK'
    BY DEF IInv, TypeOK, terms, lifecycle, settled, payouts, observed
  <1>2. ClockInv'
    BY DEF IInv, ClockInv, lifecycle, observed, maxSeconds
  <1>3. Solvent'
    BY DEF IInv, Solvent, lifecycle, settled, payouts
  <1>7. FeeWithinShare'
    <2>1. FeeWithinShare
      BY DEF IInv
    <2>2. feeBps' = feeBps /\ settledFee' = settledFee /\ settledAmount' = settledAmount
      BY DEF terms, settled
    <2>3. QED
      BY ONLY <2>1, <2>2 DEF FeeWithinShare
  <1>6. EndIsExact'
    BY DEF IInv, EndIsExact, lifecycle, settled, observed, maxSeconds
  <1>4. OnlyTimeRunIsBilled'
    BY DEF IInv, OnlyTimeRunIsBilled, lifecycle, settled, observed, maxSeconds, Live,
           accruedSeconds
  <1>5. QED
    BY <1>1, <1>2, <1>3, <1>4, <1>6, <1>7 DEF IInv

(* The three ways to create a stream.                                      *)
LEMMA CreationKeepsIInv ==
  ASSUME IInv, Create \/ CreateWithPermit \/ CreateWithPermitNoStart
  PROVE  IInv'
  <1> USE DEF terms, settled, payouts, observed, knobs
  <1>1. status = "None" /\ feeBps' = platformFeeBps /\ treasury' = platformTreasury
    BY DEF Create, CreateWithPermit, CreateWithPermitNoStart, NewClone
  <1>2. /\ startedAt = 0 /\ closedActiveSeconds = 0 /\ pausedAt = 0 /\ ran = 0
        /\ slept = 0 /\ deposited = 0 /\ now >= 1
    BY <1>1 DEF IInv, ClockInv
  <1>3. Rate \in Nat \ {0} /\ MaxEscrow \in Nat
    BY StreamAssumption
  <1>4. settledSeconds = 0
    <2>1. maxSeconds \in Nat
      BY MaxSecondsBounds DEF IInv
    <2>2. QED
      BY <1>2, <2>1 DEF IInv, OnlyTimeRunIsBilled, AtMost, TypeOK
  <1>5. settledAmount = 0
    BY <1>3, <1>4 DEF IInv, OnlyTimeRunIsBilled
  <1>6. escrow = 0 /\ toMerchant + toTreasury + toSubscriber = 0 /\ settledFee = 0
    BY <1>1, <1>2, <1>5 DEF IInv, Solvent, TypeOK
  <1>7. toMerchant = 0 /\ toTreasury = 0 /\ toSubscriber = 0
    BY <1>6 DEF IInv, TypeOK
  <1>8. platformFeeBps \in Nat
    BY DEF IInv, TypeOK
  <1>9. CASE Create
    <2>1. TypeOK'
      BY <1>1, <1>9 DEF Create, IInv, TypeOK
    <2>2. ClockInv'
      BY <1>2, <1>9 DEF Create, ClockInv
    <2>3. Solvent' /\ EndIsExact'
      BY <1>1, <1>2, <1>5, <1>6, <1>7, <1>9, <1>3 DEF Create, Solvent, EndIsExact, IInv, TypeOK
    <2>3a. FeeWithinShare'
      <3>1. settledFee' = 0 /\ settledAmount' = 0
        BY <1>5, <1>6, <1>9 DEF Create
      <3>2. QED
        BY <3>1, <1>1, <1>8 DEF FeeWithinShare
    <2>4. maxSeconds' = 0
      BY <1>2, <1>3, <1>9 DEF Create, maxSeconds
    <2>5. OnlyTimeRunIsBilled'
      BY <1>2, <1>3, <1>4, <1>5, <1>9, <2>4
      DEF Create, OnlyTimeRunIsBilled, accruedSeconds, Live, AtMost
    <2>6. QED
      BY <2>1, <2>2, <2>3, <2>3a, <2>5 DEF IInv
  <1>10. CASE CreateWithPermit
    <2>1. TypeOK'
      BY <1>1, <1>3, <1>10 DEF CreateWithPermit, IInv, TypeOK
    <2>2. maxSeconds' \in Nat /\ maxSeconds' >= 1
      BY <1>3, <1>10, DivMul, DivPositive DEF CreateWithPermit, maxSeconds
    <2>3. ClockInv'
      BY <1>2, <1>10, <2>1, <2>2 DEF CreateWithPermit, ClockInv, TypeOK
    <2>4. Solvent' /\ EndIsExact'
      BY <1>1, <1>2, <1>5, <1>6, <1>7, <1>10, <1>3 DEF CreateWithPermit, Solvent, EndIsExact, IInv, TypeOK
    <2>4a. FeeWithinShare'
      <3>1. settledFee' = 0 /\ settledAmount' = 0
        BY <1>5, <1>6, <1>10 DEF CreateWithPermit
      <3>2. QED
        BY <3>1, <1>1, <1>8 DEF FeeWithinShare
    <2>5. OnlyTimeRunIsBilled'
      BY <1>2, <1>3, <1>4, <1>5, <1>10, <2>1, <2>2
      DEF CreateWithPermit, OnlyTimeRunIsBilled, accruedSeconds, Live, AtMost, TypeOK
    <2>6. QED
      BY <2>1, <2>3, <2>4, <2>4a, <2>5 DEF IInv
  <1>11. CASE CreateWithPermitNoStart
    <2>1. TypeOK'
      BY <1>1, <1>3, <1>11 DEF CreateWithPermitNoStart, IInv, TypeOK
    <2>2. ClockInv'
      BY <1>2, <1>11 DEF CreateWithPermitNoStart, ClockInv
    <2>3. maxSeconds' \in Nat
      BY <1>3, <1>11, DivMul DEF CreateWithPermitNoStart, maxSeconds
    <2>4. Solvent' /\ EndIsExact'
      BY <1>1, <1>2, <1>5, <1>6, <1>7, <1>11, <1>3 DEF CreateWithPermitNoStart, Solvent, EndIsExact, IInv, TypeOK
    <2>4a. FeeWithinShare'
      <3>1. settledFee' = 0 /\ settledAmount' = 0
        BY <1>5, <1>6, <1>11 DEF CreateWithPermitNoStart
      <3>2. QED
        BY <3>1, <1>1, <1>8 DEF FeeWithinShare
    <2>5. OnlyTimeRunIsBilled'
      BY <1>2, <1>3, <1>4, <1>5, <1>11, <2>3
      DEF CreateWithPermitNoStart, OnlyTimeRunIsBilled, accruedSeconds, Live, AtMost
    <2>6. QED
      BY <2>1, <2>2, <2>4, <2>4a, <2>5 DEF IInv
  <1>12. QED
    BY <1>9, <1>10, <1>11

(* A top-up. It buys seconds, never fewer than before; what the stream has *)
(* run does not change, so what accrued moves only if the pot was dry.     *)
LEMMA DepositKeepsIInv ==
  ASSUME IInv, NEW amount \in Nat, Deposit(amount),
         UNCHANGED <<platformFeeBps, platformTreasury>>
  PROVE  IInv'
  <1> USE DEF terms, lifecycle, settled, payouts, observed
  <1>1. /\ Live /\ amount > 0 /\ deposited + amount <= MaxEscrow
        /\ deposited' = deposited + amount /\ escrow' = escrow + amount
        /\ UNCHANGED <<now, keeper, terms, lifecycle, settled, relayNonce,
                       merchantStarted, payouts, observed>>
    BY DEF Deposit
  <1>2. TypeOK /\ Rate \in Nat \ {0} /\ MaxEscrow \in Nat
    BY StreamAssumption DEF IInv
  <1>3. TypeOK'
    BY <1>1, <1>2 DEF TypeOK
  <1>4. maxSeconds \in Nat /\ maxSeconds' \in Nat /\ maxSeconds <= maxSeconds'
    <2>1. deposited \in Nat /\ deposited' \in Nat /\ deposited <= deposited'
      BY <1>1, <1>2 DEF TypeOK
    <2>2. QED
      BY <1>2, <2>1, DivMul, DivMono DEF maxSeconds
  <1>5. ClockInv'
    BY <1>1, <1>2, <1>4 DEF IInv, ClockInv, TypeOK, Live
  <1>6. Solvent' /\ EndIsExact'
    BY <1>1, <1>2 DEF IInv, Solvent, EndIsExact, TypeOK, Live
  <1>7. FeeWithinShare'
    <2>1. FeeWithinShare
      BY DEF IInv
    <2>2. feeBps' = feeBps /\ settledFee' = settledFee /\ settledAmount' = settledAmount
      BY <1>1
    <2>3. QED
      BY ONLY <2>1, <2>2 DEF FeeWithinShare
  <1>8. OnlyTimeRunIsBilled'
    <2>1. settledAmount' = settledSeconds' * Rate
      BY <1>1 DEF IInv, OnlyTimeRunIsBilled
    <2>2. settledSeconds' <= AtMost(ran, maxSeconds')
      BY <1>1, <1>2, <1>4 DEF IInv, OnlyTimeRunIsBilled, AtMost, TypeOK
    <2>3. status = "Active" => ran = closedActiveSeconds + (now - segmentStart)
      BY DEF IInv, ClockInv
    <2>4. status \in {"Created", "Paused"} => ran = closedActiveSeconds + 0
      BY <1>2 DEF IInv, ClockInv, TypeOK
    <2>5. accruedSeconds' = AtMost(ran, maxSeconds')
      BY <1>1, <2>3, <2>4 DEF accruedSeconds, Live
    <2> HIDE DEF maxSeconds
    <2>6. QED
      BY <1>1, <2>1, <2>2, <2>5 DEF OnlyTimeRunIsBilled, Live
  <1>9. QED
    BY <1>3, <1>5, <1>6, <1>7, <1>8 DEF IInv

(* A step that moves no money, and leaves the terms and the deposit alone. *)
LEMMA NoMoneyKeepsBooks ==
  ASSUME IInv, status # "Canceled", status' # "Canceled",
         UNCHANGED <<terms, deposited, settled, escrow, payouts>>
  PROVE  Solvent' /\ FeeWithinShare' /\ EndIsExact'
  <1>1. Solvent'
    BY DEF IInv, Solvent, settled, payouts
  <1>2. EndIsExact'
    BY DEF EndIsExact
  <1>3. FeeWithinShare'
    <2>1. FeeWithinShare
      BY DEF IInv
    <2>2. feeBps' = feeBps /\ settledFee' = settledFee /\ settledAmount' = settledAmount
      BY DEF terms, settled
    <2>3. QED
      BY ONLY <2>1, <2>2 DEF FeeWithinShare
  <1>4. QED
    BY <1>1, <1>2, <1>3

(* Starting: the deposit buys at least one second, so the new segment is   *)
(* below the cap.                                                          *)
LEMMA StartKeepsIInv ==
  ASSUME IInv, NEW who \in Addr, Start(who),
         UNCHANGED <<platformFeeBps, platformTreasury>>
  PROVE  IInv'
  <1> USE DEF terms, settled, payouts, observed
  <1>1. /\ status = "Created" /\ deposited >= Rate /\ status' = "Active"
        /\ startedAt' = now /\ segmentStart' = now
        /\ UNCHANGED <<now, keeper, terms, closedActiveSeconds, pausedAt, deposited, settled,
                       relayNonce, merchantStarted, escrow, payouts, observed>>
    BY DEF Start
  <1>2. TypeOK /\ ClockInv /\ Rate \in Nat \ {0}
    BY StreamAssumption DEF IInv
  <1>3. maxSeconds \in Nat /\ maxSeconds >= 1 /\ maxSeconds' = maxSeconds
    BY <1>1, <1>2, DivMul, DivPositive DEF maxSeconds, TypeOK
  <1>4. TypeOK'
    BY <1>1, <1>2 DEF TypeOK
  <1>5. ClockInv'
    BY <1>1, <1>2, <1>3 DEF ClockInv, TypeOK
  <1>6. Solvent' /\ FeeWithinShare' /\ EndIsExact'
    BY <1>1, NoMoneyKeepsBooks
  <1>7. OnlyTimeRunIsBilled'
    BY <1>1, <1>2, <1>3 DEF IInv, OnlyTimeRunIsBilled, ClockInv, TypeOK, accruedSeconds, Live
  <1>8. QED
    BY <1>4, <1>5, <1>6, <1>7 DEF IInv

(* Pausing: a dry pot ends the stream; otherwise the segment closes with   *)
(* exactly the seconds run.                                                *)
LEMMA PauseKeepsIInv ==
  ASSUME IInv, NEW who \in Addr, Pause(who),
         UNCHANGED <<platformFeeBps, platformTreasury>>
  PROVE  IInv'
  <1>1. TypeOK /\ ClockInv /\ maxSeconds \in Nat /\ status = "Active"
    BY MaxSecondsBounds DEF IInv, Pause
  <1>2. CASE Exhausted /\ EndAtCap
    <2>1. relayNonce' \in Nat
      BY <1>1 DEF Pause, TypeOK
    <2>2. QED
      BY <1>1, <1>2, <2>1, EndAtCapKeepsIInv DEF Pause
  <1>3. CASE ~(Exhausted /\ EndAtCap)
    <2>1. /\ ~Exhausted
          /\ closedActiveSeconds' = closedActiveSeconds + (now - segmentStart)
          /\ pausedAt' = now /\ status' = "Paused"
          /\ UNCHANGED <<startedAt, segmentStart, deposited, settled, merchantStarted,
                         escrow, payouts>>
          /\ UNCHANGED <<now, keeper, terms, relayNonce, observed>>
      BY <1>3 DEF Pause
    <2>2. closedActiveSeconds' = ran /\ ran < maxSeconds /\ maxSeconds' = maxSeconds
      BY <1>1, <2>1 DEF ClockInv, Exhausted, TypeOK, maxSeconds
    <2> USE DEF terms, settled, payouts, observed
    <2>3. TypeOK'
      BY <1>1, <2>1, <2>2 DEF TypeOK
    <2>4. ClockInv'
      BY <1>1, <2>1, <2>2 DEF ClockInv, TypeOK
    <2>5. Solvent' /\ FeeWithinShare' /\ EndIsExact'
      BY <1>1, <2>1, NoMoneyKeepsBooks
    <2>6. OnlyTimeRunIsBilled'
      BY <1>1, <2>1, <2>2
      DEF IInv, OnlyTimeRunIsBilled, TypeOK, accruedSeconds, Live, AtMost
    <2>7. QED
      BY <2>3, <2>4, <2>5, <2>6 DEF IInv
  <1>4. QED
    BY <1>2, <1>3

(* Resuming: the new segment starts now, with what ran before it closed.   *)
LEMMA ResumeKeepsIInv ==
  ASSUME IInv, NEW who \in Addr, Resume(who),
         UNCHANGED <<platformFeeBps, platformTreasury>>
  PROVE  IInv'
  <1> USE DEF terms, settled, payouts, observed
  <1>1. /\ status = "Paused" /\ maxSeconds > closedActiveSeconds
        /\ status' = "Active" /\ segmentStart' = now /\ pausedAt' = 0
        /\ UNCHANGED <<now, keeper, terms, startedAt, closedActiveSeconds, deposited, settled,
                       relayNonce, merchantStarted, escrow, payouts, observed>>
    BY DEF Resume
  <1>2. TypeOK /\ ClockInv /\ maxSeconds \in Nat /\ maxSeconds' = maxSeconds
    BY <1>1, MaxSecondsBounds DEF IInv, maxSeconds
  <1>3. TypeOK'
    BY <1>1, <1>2 DEF TypeOK
  <1>4. ClockInv'
    BY <1>1, <1>2 DEF ClockInv, TypeOK
  <1>5. Solvent' /\ FeeWithinShare' /\ EndIsExact'
    BY <1>1, NoMoneyKeepsBooks
  <1>6. OnlyTimeRunIsBilled'
    BY <1>1, <1>2
    DEF IInv, OnlyTimeRunIsBilled, ClockInv, TypeOK, accruedSeconds, Live, AtMost
  <1>7. QED
    BY <1>3, <1>4, <1>5, <1>6 DEF IInv

(* Settling: everything accrued and not yet paid is paid; a dry pot ends   *)
(* the stream.                                                             *)
LEMMA SettleKeepsIInv ==
  ASSUME IInv, Settle, UNCHANGED <<platformFeeBps, platformTreasury>>
  PROVE  IInv'
  <1>1. TypeOK /\ ClockInv /\ maxSeconds \in Nat /\ Live
    BY MaxSecondsBounds DEF IInv, Settle
  <1>2. CASE status = "Active" /\ Exhausted
    <2>1. EndAtCap /\ relayNonce' \in Nat
          /\ UNCHANGED <<now, keeper, terms, observed>>
      BY <1>1, <1>2 DEF Settle, TypeOK
    <2>2. QED
      BY <1>2, <2>1, EndAtCapKeepsIInv
  <1>3. CASE ~(status = "Active" /\ Exhausted)
    <2> DEFINE secs == accruedSeconds - settledSeconds
    <2>1. /\ Pay(secs, 0)
          /\ UNCHANGED <<lifecycle, deposited, merchantStarted>>
          /\ UNCHANGED <<now, keeper, terms, relayNonce, observed>>
      BY <1>3 DEF Settle
    <2>2. accruedSeconds = AtMost(ran, maxSeconds) /\ AtMost(ran, maxSeconds) \in Nat
      BY <1>1 DEF IInv, OnlyTimeRunIsBilled, AtMost, TypeOK
    <2>3. secs \in Nat
      BY <1>1, <2>2 DEF IInv, OnlyTimeRunIsBilled, TypeOK
    <2>4. settledSeconds + secs = AtMost(ran, maxSeconds)
      BY <1>1, <2>2 DEF TypeOK
    <2>5. Solvent /\ settledAmount = settledSeconds * Rate /\ FeeWithinShare
      BY DEF IInv, OnlyTimeRunIsBilled
    <2>6. UNCHANGED <<feeBps, deposited>> /\ 0 \in Nat
      BY <2>1 DEF terms
    <2> HIDE DEF secs
    <2>7. /\ settledSeconds' = settledSeconds + secs
          /\ settledAmount' = settledSeconds' * Rate
          /\ settledSeconds' \in Nat /\ settledAmount' \in Nat /\ settledFee' \in Nat
          /\ toMerchant' \in Nat /\ toTreasury' \in Nat
          /\ toSubscriber' = toSubscriber + 0
          /\ escrow' \in Nat
          /\ escrow' = escrow - (secs * Rate + 0)
          /\ settledAmount' = settledAmount + secs * Rate
          /\ deposited = escrow' + toMerchant' + toTreasury' + toSubscriber'
          /\ toTreasury' = settledFee' /\ toMerchant' = settledAmount' - settledFee'
          /\ FeeWithinShare'
      BY <1>1, <2>1, <2>3, <2>5, <2>6, PayKeepsBooks
    <2>8. settledSeconds' = AtMost(ran, maxSeconds)
      BY <2>4, <2>7
    <2>9. maxSeconds' = maxSeconds /\ accruedSeconds' = accruedSeconds
      BY <2>1 DEF maxSeconds, accruedSeconds, lifecycle
    <2> USE DEF lifecycle, terms, observed
    <2>10. TypeOK'
      BY <1>1, <2>1, <2>7 DEF TypeOK
    <2>11. ClockInv'
      BY <1>1, <2>1, <2>9 DEF ClockInv
    <2>12. Solvent'
      <3>1. status # "Canceled"
        BY <1>1 DEF Live
      <3>2. secs * Rate \in Int
        BY <2>3, StreamAssumption
      <3>3. escrow = deposited - settledAmount /\ toSubscriber = 0
        BY <2>5, <3>1 DEF Solvent
      <3>4. escrow' = deposited - settledAmount'
        BY <1>1, <2>7, <3>2, <3>3 DEF TypeOK
      <3>5. QED
        BY <1>1, <2>1, <2>5, <2>7, <3>1, <3>3, <3>4 DEF Solvent
    <2>13. OnlyTimeRunIsBilled'
      BY <1>1, <2>1, <2>2, <2>7, <2>8, <2>9 DEF OnlyTimeRunIsBilled, Live
    <2>14. EndIsExact'
      BY <1>1, <2>1 DEF EndIsExact, Live
    <2>15. QED
      BY <2>7, <2>10, <2>11, <2>12, <2>13, <2>14 DEF IInv
  <1>4. QED
    BY <1>2, <1>3

(* A block later: a running stream ran that long, a paused one slept it.   *)
LEMMA TickKeepsIInv ==
  ASSUME IInv, NEW d \in Steps, Tick(d), UNCHANGED <<platformFeeBps, platformTreasury>>
  PROVE  IInv'
  <1> USE DEF terms, lifecycle, settled, payouts
  <1>1. /\ now' = now + d
        /\ ran' = IF status = "Active" THEN ran + d ELSE ran
        /\ slept' = IF status = "Paused" THEN slept + d ELSE slept
        /\ UNCHANGED <<keeper, terms, lifecycle, deposited, settled, relayNonce,
                       merchantStarted, escrow, payouts>>
    BY DEF Tick
  <1>2. TypeOK /\ ClockInv /\ maxSeconds \in Nat /\ maxSeconds' = maxSeconds /\ d \in Nat
    BY <1>1, MaxSecondsBounds, StreamAssumption DEF IInv, maxSeconds
  <1> HIDE DEF maxSeconds
  <1>3. TypeOK'
    BY <1>1, <1>2 DEF TypeOK
  <1>4. ClockInv'
    BY <1>1, <1>2 DEF ClockInv, TypeOK
  <1>5. Solvent'
    BY <1>1 DEF IInv, Solvent
  <1>6. FeeWithinShare'
    <2>1. FeeWithinShare
      BY DEF IInv
    <2>2. feeBps' = feeBps /\ settledFee' = settledFee /\ settledAmount' = settledAmount
      BY <1>1
    <2>3. QED
      BY ONLY <2>1, <2>2 DEF FeeWithinShare
  <1>7. EndIsExact'
    BY <1>1, <1>2 DEF IInv, EndIsExact, TypeOK
  <1>8. OnlyTimeRunIsBilled'
    <2>1. settledAmount' = settledSeconds' * Rate
      BY <1>1 DEF IInv, OnlyTimeRunIsBilled
    <2>2. settledSeconds' <= AtMost(ran', maxSeconds')
      BY <1>1, <1>2 DEF IInv, OnlyTimeRunIsBilled, AtMost, TypeOK
    <2>3. ASSUME Live'
          PROVE  accruedSeconds' = AtMost(ran', maxSeconds')
      BY <1>1, <1>2, <2>3 DEF accruedSeconds, Live, ClockInv, TypeOK
    <2>4. ASSUME status' = "Canceled"
          PROVE  settledSeconds' = AtMost(ran', maxSeconds')
      BY <1>1, <1>2, <2>4 DEF IInv, OnlyTimeRunIsBilled
    <2>5. QED
      BY <2>1, <2>2, <2>3, <2>4 DEF OnlyTimeRunIsBilled
  <1>9. QED
    BY <1>3, <1>4, <1>5, <1>6, <1>7, <1>8 DEF IInv

-----------------------------------------------------------------------------
(* The inductive invariant.                                                *)

LEMMA InitIInv == Init => IInv
  <1> SUFFICES ASSUME Init PROVE IInv
    OBVIOUS
  <1>1. Rate \in Nat \ {0} /\ MaxEscrow \in Nat
    BY StreamAssumption
  <1>2. TypeOK
    <2>1. 1 \in Nat /\ 0 \in Nat /\ 200 \in 0 .. 1000 /\ 0 \in 0 .. 1000
      OBVIOUS
    <2>2. QED
      BY <2>1 DEF Init, TypeOK, MAX_FEE_BPS
  <1>3. maxSeconds = 0
    BY <1>1 DEF Init, maxSeconds
  <1>4. ClockInv /\ Solvent /\ FeeWithinShare /\ EndIsExact
    BY <1>1 DEF Init, ClockInv, Solvent, FeeWithinShare, EndIsExact
  <1>5. OnlyTimeRunIsBilled
    BY <1>1, <1>3 DEF Init, OnlyTimeRunIsBilled, AtMost, Live
  <1>6. QED
    BY <1>2, <1>4, <1>5 DEF IInv

(* Every step keeps it: one case per operation.                            *)
LEMMA NextIInv == IInv /\ [Next]_vars => IInv'
  <1> SUFFICES ASSUME IInv, [Next]_vars PROVE IInv'
    OBVIOUS
  <1>1. TypeOK
    BY DEF IInv
  <1>2. ASSUME NEW who \in Addr, SetKeeper(who)
        PROVE  IInv'
    BY <1>1, <1>2, IdleKeepsIInv DEF SetKeeper, TypeOK
  <1>3. ASSUME NEW bps \in FeeChoices, NEW to \in Treasuries, SetFee(bps, to)
        PROVE  IInv'
    <2>1. bps \in 0 .. MAX_FEE_BPS
      BY <1>3, FactoryAssumption DEF SetFee, MAX_FEE_BPS
    <2>2. QED
      BY <1>1, <1>3, <2>1, IdleKeepsIInv DEF SetFee, TypeOK
  <1>4. CASE Create \/ CreateWithPermit \/ CreateWithPermitNoStart
    BY <1>4, CreationKeepsIInv
  <1>5. CASE SettleBatch
    <2>1. CASE Settle /\ UNCHANGED knobs
      BY <2>1, SettleKeepsIInv DEF knobs
    <2>2. CASE UNCHANGED vars
      BY <1>1, <2>2, IdleKeepsIInv DEF vars, TypeOK
    <2>3. QED
      BY <1>5, <2>1, <2>2 DEF SettleBatch
  <1>6. CASE StreamCall /\ UNCHANGED <<platformFeeBps, platformTreasury>>
    <2>1. ASSUME NEW a \in Amounts, Deposit(a)
          PROVE  IInv'
      BY <1>6, <2>1, StreamAssumption, DepositKeepsIInv
    <2>2. ASSUME NEW who \in Addr, Start(who)
          PROVE  IInv'
      BY <1>6, <2>2, StartKeepsIInv
    <2>3. ASSUME NEW who \in Addr, Pause(who)
          PROVE  IInv'
      BY <1>6, <2>3, PauseKeepsIInv
    <2>4. ASSUME NEW who \in Addr, Resume(who)
          PROVE  IInv'
      BY <1>6, <2>4, ResumeKeepsIInv
    <2>5. ASSUME NEW who \in Addr, Cancel(who)
          PROVE  IInv'
      <3>1. /\ Live /\ DoCancel
            /\ UNCHANGED <<now, keeper, terms, relayNonce, observed>>
        BY <2>5 DEF Cancel
      <3>2. relayNonce' \in Nat
        BY <1>1, <3>1 DEF TypeOK
      <3>3. QED
        BY <1>6, <3>1, <3>2, DoCancelKeepsIInv
    <2>6. ASSUME NEW who \in Addr, NEW d \in Deadlines, CancelFor(who, d)
          PROVE  IInv'
      <3>1. /\ Live /\ DoCancel /\ relayNonce' = relayNonce + 1
            /\ UNCHANGED <<now, keeper, terms, observed>>
        BY <2>6 DEF CancelFor
      <3>2. relayNonce' \in Nat
        BY <1>1, <3>1 DEF TypeOK
      <3>3. QED
        BY <1>6, <3>1, <3>2, DoCancelKeepsIInv
    <2>7. CASE Settle
      BY <1>6, <2>7, SettleKeepsIInv
    <2>8. QED
      BY <1>6, <2>1, <2>2, <2>3, <2>4, <2>5, <2>6, <2>7 DEF StreamCall
  <1>7. ASSUME NEW d \in Steps, Tick(d), UNCHANGED <<platformFeeBps, platformTreasury>>
        PROVE  IInv'
    BY <1>7, TickKeepsIInv
  <1>8. CASE UNCHANGED vars
    BY <1>1, <1>8, IdleKeepsIInv DEF vars, TypeOK
  <1>9. QED
    BY <1>2, <1>3, <1>4, <1>5, <1>6, <1>7, <1>8 DEF Next

(* The invariant holds in every state the contracts can reach.             *)
THEOREM Invariance == Spec => []IInv
  <1>1. Init => IInv
    BY InitIInv
  <1>2. IInv /\ [Next]_vars => IInv'
    BY NextIInv
  <1>3. QED
    BY <1>1, <1>2, PTL DEF Spec

(* Amounts, instants and statuses keep their types: no amount is ever      *)
(* negative, so no checked subtraction of the contract reverts.            *)
THEOREM TypeCorrect == Spec => []TypeOK
  <1>1. IInv => TypeOK
    BY DEF IInv
  <1>2. QED
    BY <1>1, Invariance, PTL

(* No token is created, lost or stranded: what came in is held, paid or    *)
(* returned, and a canceled stream holds nothing.                          *)
THEOREM Solvency == Spec => []Solvent
  <1>1. IInv => Solvent
    BY DEF IInv
  <1>2. QED
    BY <1>1, Invariance, PTL

(* A subscriber pays for the seconds the stream ran within its pot, all of *)
(* them once it has ended, and for no other second.                        *)
THEOREM TimeBilled == Spec => []OnlyTimeRunIsBilled
  <1>1. IInv => OnlyTimeRunIsBilled
    BY DEF IInv
  <1>2. QED
    BY <1>1, Invariance, PTL

(* Rounding each chunk's fee down never lets the total pass the share.     *)
THEOREM FeeShare == Spec => []FeeWithinShare
  <1>1. IInv => FeeWithinShare
    BY DEF IInv
  <1>2. QED
    BY <1>1, Invariance, PTL

(* A cap end is recognisable and dated to the second the pot ran out.      *)
THEOREM ExactEnd == Spec => []EndIsExact
  <1>1. IInv => EndIsExact
    BY DEF IInv
  <1>2. QED
    BY <1>1, Invariance, PTL

-----------------------------------------------------------------------------
(* The clone implements the abstract meter. Between two states of the      *)
(* invariant, what a step does to the meter follows from what it does to   *)
(* the status, the deposit, the running time and the settled seconds.      *)

(* A live stream's books in the meter's words.                             *)
Books ==
  status # "Canceled" =>
    /\ toMerchant + toTreasury = settledAmount
    /\ settledAmount = settledSeconds * Rate
    /\ escrow = deposited - settledAmount
    /\ toSubscriber = 0
    /\ settledSeconds \in Nat /\ settledSeconds <= ran

LEMMA BooksHold == IInv => Books
  <1> SUFFICES ASSUME IInv PROVE Books
    OBVIOUS
  <1>1. maxSeconds \in Nat
    BY MaxSecondsBounds DEF IInv
  <1>2. QED
    BY <1>1 DEF Books, IInv, TypeOK, Solvent, OnlyTimeRunIsBilled, AtMost

(* What was earned is worth at most the seconds run.                       *)
Earned ==
  /\ toMerchant + toTreasury = settledAmount
  /\ settledAmount <= Rate * ran

LEMMA EarnedHolds == IInv => Earned
  <1> SUFFICES ASSUME IInv PROVE Earned
    OBVIOUS
  <1>1. maxSeconds \in Nat /\ Rate \in Nat
    BY MaxSecondsBounds, StreamAssumption DEF IInv
  <1>2. settledSeconds \in Nat /\ ran \in Nat /\ settledSeconds <= ran
    BY <1>1 DEF IInv, TypeOK, OnlyTimeRunIsBilled, AtMost
  <1>3. settledSeconds * Rate <= ran * Rate
    BY <1>1, <1>2, MulMono
  <1>4. settledAmount <= Rate * ran
    BY <1>1, <1>2, <1>3 DEF IInv, OnlyTimeRunIsBilled
  <1>5. toMerchant + toTreasury = settledAmount
    BY DEF IInv, Solvent, TypeOK
  <1>6. QED
    BY <1>4, <1>5 DEF Earned

(* A live step that only settles is Earn, or nothing when no second is due.*)
LEMMA SettlingRefines ==
  ASSUME IInv, IInv', status # "Canceled",
         settledSeconds <= settledSeconds',
         UNCHANGED <<status, deposited, ran>>
  PROVE  [Meter!MeterNext]_Meter!meterVars
  <1>1. /\ toMerchant + toTreasury = settledAmount
        /\ settledAmount = settledSeconds * Rate
        /\ escrow = deposited - settledAmount
        /\ toSubscriber = 0
        /\ settledSeconds \in Nat
    BY BooksHold DEF Books
  <1>2. /\ toMerchant' + toTreasury' = settledAmount'
        /\ settledAmount' = settledSeconds' * Rate
        /\ escrow' = deposited' - settledAmount'
        /\ toSubscriber' = 0
        /\ settledSeconds' \in Nat
    <2>1. Books'
      BY BooksHold, PTL
    <2>2. QED
      BY <2>1 DEF Books
  <1>3. settledAmount' <= Rate * ran'
    <2>1. Earned'
      BY EarnedHolds, PTL
    <2>2. QED
      BY <2>1 DEF Earned
  <1>4. settledAmount \in Nat /\ settledAmount' \in Nat /\ deposited \in Nat
    BY DEF IInv, TypeOK
  <1>5. CASE settledSeconds' = settledSeconds
    BY <1>1, <1>2, <1>5 DEF Meter!meterVars
  <1>6. CASE settledSeconds' # settledSeconds
    <2>1. settledAmount' > settledAmount
      <3>1. settledSeconds + 1 <= settledSeconds'
        BY <1>1, <1>2, <1>6
      <3>2. PICK n \in Nat : settledSeconds' = n
        BY <1>2
      <3>3. settledSeconds + 1 \in Nat /\ Rate \in Nat \ {0}
        BY <1>1, StreamAssumption
      <3>4. (settledSeconds + 1) * Rate <= n * Rate
        BY <3>1, <3>2, <3>3, MulMono
      <3>5. (settledSeconds + 1) * Rate = settledAmount + Rate
        BY <1>1, <3>3
      <3>6. settledAmount' = n * Rate
        BY <1>2, <3>2
      <3>7. QED
        BY <1>4, <3>3, <3>4, <3>5, <3>6
    <2>2. Meter!Earn
      BY <1>1, <1>2, <1>3, <1>4, <2>1 DEF Meter!Earn
    <2>3. QED
      BY <2>2 DEF Meter!MeterNext
  <1>7. QED
    BY <1>5, <1>6

(* A step that ends the stream is Close.                                   *)
LEMMA EndingRefines ==
  ASSUME IInv, IInv', status # "Canceled", status' = "Canceled",
         UNCHANGED <<deposited, ran>>
  PROVE  [Meter!MeterNext]_Meter!meterVars
  <1>1. /\ toMerchant + toTreasury = settledAmount
        /\ settledAmount = settledSeconds * Rate
        /\ escrow = deposited - settledAmount
        /\ toSubscriber = 0
        /\ settledSeconds \in Nat
    BY BooksHold DEF Books
  <1>2. toMerchant' + toTreasury' = settledAmount' /\ settledAmount' <= Rate * ran'
    <2>1. Earned'
      BY EarnedHolds, PTL
    <2>2. QED
      BY <2>1 DEF Earned
  <1>3. settledSeconds <= settledSeconds' /\ settledAmount' = settledSeconds' * Rate
    <2>1. maxSeconds' = maxSeconds
      BY DEF maxSeconds
    <2>2. QED
      BY <2>1 DEF IInv, OnlyTimeRunIsBilled
  <1>4. settledAmount <= settledAmount'
    <2>1. PICK n \in Nat : settledSeconds' = n
      BY DEF IInv, TypeOK
    <2>2. settledSeconds * Rate <= n * Rate
      BY <1>1, <1>3, <2>1, MulMono, StreamAssumption
    <2>3. settledAmount' = n * Rate
      BY <1>3, <2>1
    <2>4. QED
      BY <1>1, <2>2, <2>3
  <1>5. escrow' = 0 /\ deposited' = escrow' + toMerchant' + toTreasury' + toSubscriber'
    BY DEF IInv, Solvent
  <1>6. /\ settledAmount \in Nat /\ settledAmount' \in Nat /\ deposited \in Nat
        /\ toMerchant' \in Nat /\ toTreasury' \in Nat /\ toSubscriber' \in Nat
    BY DEF IInv, TypeOK
  <1>7. toSubscriber' = deposited - settledAmount'
    <2>1. PICK m \in Nat, t \in Nat, r \in Nat, e \in Nat :
            m = toMerchant' /\ t = toTreasury' /\ r = toSubscriber' /\ e = settledAmount'
      BY <1>6
    <2>2. deposited = 0 + m + t + r /\ m + t = e
      BY <1>2, <1>5, <2>1
    <2>3. r = deposited - e
      BY <2>2
    <2>4. QED
      BY <2>1, <2>3
  <1>8. Meter!Close
    <2>1. escrow + settledAmount = deposited
      BY <1>1, <1>6
    <2>2. toSubscriber' = toSubscriber + escrow - (settledAmount' - settledAmount)
      BY <1>1, <1>6, <1>7, <2>1
    <2>3. /\ toMerchant' + toTreasury' >= toMerchant + toTreasury
          /\ toMerchant' + toTreasury' <= Rate * ran
      BY <1>1, <1>2, <1>4
    <2>4. toSubscriber' =
            toSubscriber + escrow - ((toMerchant' + toTreasury') - (toMerchant + toTreasury))
      BY <1>1, <1>2, <2>2
    <2>5. toSubscriber' >= toSubscriber
      BY <1>1, <1>6
    <2>6. (status' = "Canceled") = TRUE /\ (status' = "Active") = FALSE
      OBVIOUS
    <2>7. QED
      BY <1>5, <2>3, <2>4, <2>5, <2>6 DEF Meter!Close
  <1>9. QED
    BY <1>8 DEF Meter!MeterNext

(* A step after which neither money, time nor the switch has moved.        *)
LEMMA IdleRefines ==
  ASSUME UNCHANGED <<deposited, escrow, payouts, ran>>,
         (status' = "Active") <=> (status = "Active"),
         (status' = "Canceled") <=> (status = "Canceled")
  PROVE  [Meter!MeterNext]_Meter!meterVars
  BY DEF Meter!meterVars, payouts

(* A step that moves the switch and nothing else.                          *)
LEMMA SwitchRefines ==
  ASSUME status # "Canceled", status' # "Canceled",
         (status' = "Active") <=> (status # "Active"),
         UNCHANGED <<deposited, escrow, payouts, ran>>
  PROVE  [Meter!MeterNext]_Meter!meterVars
  <1>1. Meter!Switch
    BY DEF Meter!Switch, payouts
  <1>2. QED
    BY <1>1 DEF Meter!MeterNext

(* A step that brings money in, and may start the stream.                  *)
LEMMA PutRefines ==
  ASSUME status # "Canceled", status' # "Canceled",
         status = "Active" => status' = "Active",
         IInv', IInv, deposited' > deposited,
         escrow' = escrow + (deposited' - deposited),
         UNCHANGED <<payouts, ran>>
  PROVE  [Meter!MeterNext]_Meter!meterVars
  <1>1. deposited' <= MaxEscrow
    BY DEF IInv, Solvent
  <1>2. (status' = "Active") \in {status = "Active", TRUE}
    OBVIOUS
  <1>3. Meter!Put
    BY <1>1, <1>2 DEF Meter!Put, payouts
  <1>4. QED
    BY <1>3 DEF Meter!MeterNext

(* Settle is Close on a dry running pot and Earn (or nothing) otherwise.   *)
LEMMA SettleRefines ==
  ASSUME IInv, IInv', Settle
  PROVE  [Meter!MeterNext]_Meter!meterVars
  <1>1. Live /\ status # "Canceled" /\ ran' = ran
    BY DEF Settle, Live, observed
  <1>2. CASE status = "Active" /\ Exhausted
    <2>1. status' = "Canceled" /\ deposited' = deposited
      BY <1>2 DEF Settle, EndAtCap, End
    <2>2. QED
      BY <1>1, <2>1, EndingRefines
  <1>3. CASE ~(status = "Active" /\ Exhausted)
    <2>1. /\ status' = status /\ deposited' = deposited
          /\ settledSeconds' = settledSeconds + (accruedSeconds - settledSeconds)
      BY <1>3 DEF Settle, Pay, lifecycle
    <2>2. /\ settledSeconds \in Nat /\ settledSeconds <= AtMost(ran, maxSeconds)
          /\ accruedSeconds = AtMost(ran, maxSeconds) /\ AtMost(ran, maxSeconds) \in Nat
      BY <1>1, MaxSecondsBounds DEF IInv, TypeOK, OnlyTimeRunIsBilled, AtMost
    <2>3. settledSeconds <= settledSeconds'
      BY <2>1, <2>2
    <2>4. QED
      BY <1>1, <2>1, <2>3, SettlingRefines
  <1>4. QED
    BY <1>2, <1>3

LEMMA NextRefines ==
  ASSUME IInv, IInv', [Next]_vars
  PROVE  [Meter!MeterNext]_Meter!meterVars
  <1> USE DEF observed
  <1>1. TypeOK /\ Rate \in Nat \ {0} /\ MaxEscrow \in Nat \ {0}
    BY StreamAssumption DEF IInv
  <1>2. ASSUME NEW who \in Addr, SetKeeper(who)
        PROVE  [Meter!MeterNext]_Meter!meterVars
    BY <1>2, IdleRefines DEF SetKeeper, lifecycle
  <1>3. ASSUME NEW bps \in FeeChoices, NEW to \in Treasuries, SetFee(bps, to)
        PROVE  [Meter!MeterNext]_Meter!meterVars
    BY <1>3, IdleRefines DEF SetFee, lifecycle
  <1>4. CASE Create
    BY <1>4, IdleRefines DEF Create, NewClone
  <1>5. CASE CreateWithPermit \/ CreateWithPermitNoStart
    <2>1. status = "None" /\ deposited = 0
      BY <1>5 DEF CreateWithPermit, CreateWithPermitNoStart, NewClone, IInv, ClockInv
    <2>2. /\ deposited' = MaxEscrow /\ escrow' = escrow + MaxEscrow
          /\ status' \in {"Active", "Created"}
          /\ UNCHANGED <<payouts, ran>>
      BY <1>5 DEF CreateWithPermit, CreateWithPermitNoStart
    <2>3. deposited' > deposited /\ escrow' = escrow + (deposited' - deposited)
      BY <1>1, <2>1, <2>2
    <2>4. QED
      BY <2>1, <2>2, <2>3, PutRefines
  <1>6. CASE SettleBatch
    <2>1. CASE Settle
      BY <2>1, SettleRefines
    <2>2. CASE UNCHANGED vars
      BY <2>2, IdleRefines DEF vars, lifecycle
    <2>3. QED
      BY <1>6, <2>1, <2>2 DEF SettleBatch
  <1>7. CASE StreamCall
    <2>1. ASSUME NEW a \in Amounts, Deposit(a)
          PROVE  [Meter!MeterNext]_Meter!meterVars
      <3>1. /\ Live /\ a > 0 /\ deposited' = deposited + a /\ escrow' = escrow + a
            /\ UNCHANGED <<status, payouts, ran>>
        BY <2>1 DEF Deposit, lifecycle
      <3>2. deposited \in Nat /\ a \in Nat
        BY <1>1, StreamAssumption DEF TypeOK
      <3>3. deposited' > deposited /\ escrow' = escrow + (deposited' - deposited)
        BY <3>1, <3>2
      <3>4. QED
        BY <3>1, <3>3, PutRefines DEF Live
    <2>2. ASSUME NEW who \in Addr, Start(who)
          PROVE  [Meter!MeterNext]_Meter!meterVars
      BY <2>2, SwitchRefines DEF Start
    <2>3. ASSUME NEW who \in Addr, Pause(who)
          PROVE  [Meter!MeterNext]_Meter!meterVars
      <3>1. CASE EndAtCap
        BY <2>3, <3>1, EndingRefines DEF Pause, EndAtCap, End
      <3>2. CASE ~EndAtCap
        BY <2>3, <3>2, SwitchRefines DEF Pause
      <3>3. QED
        BY <3>1, <3>2
    <2>4. ASSUME NEW who \in Addr, Resume(who)
          PROVE  [Meter!MeterNext]_Meter!meterVars
      BY <2>4, SwitchRefines DEF Resume
    <2>5. ASSUME Live, DoCancel, UNCHANGED ran
          PROVE  [Meter!MeterNext]_Meter!meterVars
      <3>1. status' = "Canceled" /\ deposited' = deposited
        BY <2>5 DEF DoCancel, EndAtCap, End
      <3>2. QED
        BY <2>5, <3>1, EndingRefines DEF Live
    <2>6. CASE Settle
      BY <2>6, SettleRefines
    <2>7. QED
      BY <1>7, <2>1, <2>2, <2>3, <2>4, <2>5, <2>6 DEF StreamCall, Cancel, CancelFor
  <1>8. ASSUME NEW d \in Steps, Tick(d)
        PROVE  [Meter!MeterNext]_Meter!meterVars
    <2>1. /\ ran' = IF status = "Active" THEN ran + d ELSE ran
          /\ UNCHANGED <<status, deposited, escrow, payouts>>
      BY <1>8 DEF Tick, lifecycle
    <2>2. CASE status = "Active"
      <3>1. ran' > ran
        BY <1>1, <2>1, <2>2, StreamAssumption DEF TypeOK
      <3>2. Meter!Run
        BY <2>1, <2>2, <3>1 DEF Meter!Run, payouts
      <3>3. QED
        BY <3>2 DEF Meter!MeterNext
    <2>3. CASE status # "Active"
      BY <2>1, <2>3, IdleRefines
    <2>4. QED
      BY <2>2, <2>3
  <1>9. CASE UNCHANGED vars
    BY <1>9, IdleRefines DEF vars, lifecycle
  <1>10. QED
    BY <1>2, <1>3, <1>4, <1>5, <1>6, <1>7, <1>8, <1>9 DEF Next

(* The contracts implement the prepaid meter: whatever the parties, the    *)
(* keeper, the owner and the clock do, money moves only as it allows.      *)
THEOREM Refinement == Spec => MeterSpec
  <1>1. Init => Meter!MeterInit
    BY DEF Init, Meter!MeterInit
  <1>2. IInv /\ IInv' /\ [Next]_vars => [Meter!MeterNext]_Meter!meterVars
    BY NextRefines
  <1>3. QED
    BY <1>1, <1>2, Invariance, PTL DEF Spec, MeterSpec, Meter!MeterSpec
=============================================================================
