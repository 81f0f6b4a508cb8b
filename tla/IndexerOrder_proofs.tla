-------------------------- MODULE IndexerOrder_proofs --------------------------
(***************************************************************************)
(* Proofs about the row whatever the order of the logs: what a late log    *)
(* can do to it and what it cannot. Nothing is assumed of the batches of   *)
(* the indexer or of when reconcile runs; for every rate, cap, number of   *)
(* logs, tries and failures.                                               *)
(***************************************************************************)
EXTENDS Indexer_proofs

-----------------------------------------------------------------------------
(* The invariant.                                                          *)

IsTurn(n) == n \in 1 .. Len(logs) /\ logs[n].event \in Turns

(* What a turn says of the stream while it is the newest one.              *)
Tells(l) ==
  /\ l.event \in {"StreamStarted", "StreamResumed"} => status = "Active"
  /\ l.event = "StreamPaused" => status = "Paused" /\ l.at = pausedAt
  /\ l.event = "StreamCanceled" => status = "Canceled"

(* A start is the first turn, an end the last log; logs carry the start    *)
(* and the deposit; the newest turn tells the state of the stream.         *)
LogOrder ==
  /\ \A i, j \in 1 .. Len(logs) :
       /\ logs[i].event = "StreamStarted" /\ logs[j].event \in Turns => i <= j
       /\ logs[i].event = "StreamCanceled" => j <= i
  /\ \A i \in 1 .. Len(logs) :
       /\ logs[i].event = "StreamStarted" => logs[i].at = startedAt
       /\ logs[i].event = "Deposited" => logs[i].total = deposited
       /\ logs[i].event = "StreamPaused" => logs[i].at # 0
  /\ startedAt # 0 => \E i \in 1 .. Len(logs) : logs[i].event = "StreamStarted"
  /\ status # "None" => \E i \in 1 .. Len(logs) : logs[i].event = "Deposited"
  /\ \/ status \in {"None", "Created"} /\ \A n : ~IsTurn(n)
     \/ \E n : IsTurn(n) /\ Tells(logs[n]) /\ \A m : IsTurn(m) => m <= n

(* Of the logs s, the pause at p is the one that the resume at i ended.    *)
Ended(s, p, i) ==
  /\ p \in 1 .. i - 1 /\ s[p].event = "StreamPaused" /\ s[p].at <= s[i].at
  /\ \A q \in p + 1 .. i - 1 : s[q].event # "StreamPaused"

PauseAt(s, l) == s[Max({m \in DOMAIN s : m < l.n /\ s[m].event = "StreamPaused"})].at

(* What each log adds to the seconds the stream slept in pauses now over.  *)
Naps(s) ==
  [i \in 1 .. Len(s) |->
     IF s[i].event = "StreamResumed" THEN s[i].at - PauseAt(s, s[i]) ELSE 0]

SleptBefore == slept - (IF status = "Paused" THEN now - pausedAt ELSE 0)

NapInv ==
  /\ \A i \in 1 .. Len(logs) : logs[i].event = "StreamResumed" => \E p : Ended(logs, p, i)
  /\ ~misread /\ status # "Canceled" =>
       Pending(Len(logs), Naps(logs), stored, SleptBefore - row.pausedSeconds)

(* What the turn applied last says of the row.                             *)
RowTells(l) ==
  /\ l.event \in {"StreamStarted", "StreamResumed"} => row.status = "active"
  /\ l.event = "StreamPaused" => row.status = "paused" /\ row.pausedAt = l.at
  /\ l.event = "StreamResumed" => row.pausedAt = 0
  /\ l.event = "StreamCanceled" => row.status = "canceled"

(* What the row takes from logs that come once, from the settlements and   *)
(* from the turn applied last.                                             *)
RowInv ==
  /\ row.startedAt = IF Heard("StreamStarted") THEN startedAt ELSE 0
  /\ row.fundedWei = IF Heard("Deposited") THEN deposited ELSE 0
  /\ row.status = "canceled" => Heard("StreamCanceled")
  /\ Heard("StreamCanceled") \/
       (row.settledSeconds = invoiced.seconds /\ row.settledWei = invoiced.amount)
  /\ Heard("StreamPaused") \/ row.pausedAt = 0
  /\ \/ latest = 0 /\ row.status = "incomplete" /\ \A n \in stored : ~IsTurn(n)
     \/ IsTurn(latest) /\ latest \in stored /\ RowTells(logs[latest])

OrderInv == PipelineInv /\ HistoryInv /\ LogOrder /\ NapInv /\ RowInv

-----------------------------------------------------------------------------
(* How a step of the stream turns it.                                      *)

GoesOn ==
  /\ status' = status \/ (status = "None" /\ status' = "Created")
  /\ UNCHANGED <<startedAt, pausedAt>> /\ now' \in Nat
  /\ slept' = slept + (IF status = "Paused" THEN now' - now ELSE 0)

Starts ==
  /\ status \in {"None", "Created"} /\ status' = "Active"
  /\ startedAt = 0 /\ startedAt' = now /\ now # 0
  /\ UNCHANGED <<pausedAt, slept, now>>

Halts ==
  /\ status = "Active" /\ status' = "Paused"
  /\ pausedAt' = now /\ now # 0 /\ UNCHANGED <<startedAt, slept, now>>

GoesOnAgain ==
  /\ status = "Paused" /\ status' = "Active"
  /\ pausedAt' = 0 /\ UNCHANGED <<startedAt, slept, now>>

Ends ==
  /\ Live /\ status' = "Canceled" /\ UNCHANGED startedAt

LEMMA EndEnds ==
  ASSUME NEW at, NEW active, Live, End(at, active)
  PROVE  Ends
  BY DEF End, Ends

LEMMA CancelEnds ==
  ASSUME Live, DoCancel
  PROVE  Ends
  BY EndEnds DEF DoCancel, EndAtCap

LEMMA StepTurns ==
  ASSUME IInv, ChainStep
  PROVE  GoesOn \/ Starts \/ Halts \/ GoesOnAgain \/ Ends
  <1>1. /\ now \in Nat /\ slept \in Nat /\ now # 0
        /\ status \in {"None", "Created"} => startedAt = 0
    BY DEF IInv, TypeOK, ClockInv
  <1>2. CASE CreateWithPermit
    BY <1>1, <1>2 DEF CreateWithPermit, NewClone, Starts, observed
  <1>3. CASE CreateWithPermitNoStart
    BY <1>1, <1>3 DEF CreateWithPermitNoStart, NewClone, GoesOn, observed
  <1>4. CASE \E a \in Amounts : Deposit(a)
    BY <1>1, <1>4 DEF Deposit, Live, GoesOn, observed, lifecycle
  <1>5. CASE \E who \in Addr : Start(who)
    BY <1>1, <1>5 DEF Start, Starts, observed
  <1>6. CASE \E who \in Addr : Pause(who)
    <2>1. PICK who \in Addr : Pause(who)
      BY <1>6
    <2>2. CASE Exhausted
      BY <2>1, <2>2, EndEnds DEF Pause, EndAtCap, Live
    <2>3. CASE ~Exhausted
      BY <1>1, <2>1, <2>3 DEF Pause, Halts, observed
    <2>4. QED
      BY <2>2, <2>3
  <1>7. CASE \E who \in Addr : Resume(who)
    BY <1>7 DEF Resume, GoesOnAgain, observed
  <1>8. CASE \E who \in Addr : Cancel(who)
    BY <1>8, CancelEnds DEF Cancel
  <1>9. CASE \E who \in Addr, d \in Deadlines : CancelFor(who, d)
    BY <1>9, CancelEnds DEF CancelFor
  <1>10. CASE Settle
    <2>1. CASE status = "Active" /\ Exhausted
      BY <1>10, <2>1, EndEnds DEF Settle, EndAtCap
    <2>2. CASE ~(status = "Active" /\ Exhausted)
      BY <1>1, <1>10, <2>2 DEF Settle, GoesOn, lifecycle, observed, Live
    <2>3. QED
      BY <2>1, <2>2
  <1>11. CASE \E d \in Steps : Tick(d)
    <2>1. PICK d \in Steps : Tick(d)
      BY <1>11
    <2>2. d \in Nat
      BY StreamAssumption
    <2>3. QED
      BY <1>1, <2>1, <2>2 DEF Tick, GoesOn, lifecycle
  <1>12. QED
    BY <1>2, <1>3, <1>4, <1>5, <1>6, <1>7, <1>8, <1>9, <1>10, <1>11 DEF ChainStep, StreamCall

(* What the logs of a step tell of it, and which of its turns they tell.   *)
LEMMA NewTurns ==
  ASSUME logs \in Seq(LogRecords), \A i \in 1 .. Len(logs) : logs[i].n = i,
         TypeOK, TypeOK', MoneyGrows, logs' = logs \o Numbered(Emitted)
  PROVE  /\ \A i \in Fresh(logs, logs') :
              /\ logs'[i] \in LogRecords /\ logs'[i].tx = Len(logs) + 1
              /\ logs'[i].event = "StreamCreated" => status = "None"
              /\ logs'[i].event = "Deposited" =>
                   deposited' > deposited /\ logs'[i].total = deposited'
              /\ logs'[i].event = "StreamStarted" =>
                   startedAt' # startedAt /\ logs'[i].at = startedAt'
              /\ logs'[i].event = "StreamPaused" =>
                   status = "Active" /\ status' = "Paused" /\ logs'[i].at = now
              /\ logs'[i].event = "StreamResumed" =>
                   status = "Paused" /\ status' = "Active" /\ logs'[i].at = now
              /\ logs'[i].event = "Settled" => settledSeconds' > settledSeconds
              /\ logs'[i].event = "StreamCanceled" =>
                   status # "Canceled" /\ status' = "Canceled"
         /\ startedAt' # startedAt =>
              \E i \in Fresh(logs, logs') : logs'[i].event = "StreamStarted"
         /\ status = "Active" /\ status' = "Paused" =>
              \E i \in Fresh(logs, logs') : logs'[i].event = "StreamPaused"
         /\ status = "Paused" /\ status' = "Active" =>
              \E i \in Fresh(logs, logs') : logs'[i].event = "StreamResumed"
         /\ \A i, j \in Fresh(logs, logs') : logs'[i].event = "StreamCanceled" => j <= i
  <1>1. /\ Ranked(Emitted, 8)
        /\ \A x : Has(Emitted, x) <=>
              \/ status = "None" /\ status' # "None" /\ x = Log("StreamCreated")
              \/ deposited' > deposited /\ x = DepositedLog
              \/ startedAt' # startedAt /\ x = Stamped("StreamStarted", startedAt')
              \/ status = "Active" /\ status' = "Paused" /\ x = Stamped("StreamPaused", now)
              \/ status = "Paused" /\ status' = "Active" /\ x = Stamped("StreamResumed", now)
              \/ settledSeconds' > settledSeconds /\ x = SettledLog
              \/ status # "Canceled" /\ status' = "Canceled" /\ x = CanceledLog
    BY EmittedLogs
  <1>2. /\ logs' \in Seq(LogRecords) /\ Len(logs) <= Len(logs')
        /\ \A i, j \in Fresh(logs, logs') : logs'[i].event = "StreamCanceled" => j <= i
        /\ \A i \in Fresh(logs, logs') :
              \E l \in LogRecords : Has(Emitted, l) /\ logs'[i] = [l EXCEPT !.n = i]
        /\ \A l : Has(Emitted, l) =>
              \E i \in Fresh(logs, logs') : l \in LogRecords /\ logs'[i] = [l EXCEPT !.n = i]
    BY <1>1, LogsAppended
  <1>3. Fresh(logs, logs') \subseteq Nat
    BY <1>2, LenProperties DEF Fresh
  <1>4. ASSUME NEW l \in LogRecords, NEW i \in Nat
        PROVE  /\ [l EXCEPT !.n = i] \in LogRecords
               /\ [l EXCEPT !.n = i].event = l.event /\ [l EXCEPT !.n = i].tx = l.tx
               /\ [l EXCEPT !.n = i].at = l.at /\ [l EXCEPT !.n = i].total = l.total
    BY DEF LogRecords
  <1>5. /\ Log("StreamCreated").event = "StreamCreated"
        /\ Log("StreamCreated").tx = Len(logs) + 1
    BY DEF Log
  <1>6. \A event, at : /\ Stamped(event, at).event = event /\ Stamped(event, at).at = at
                       /\ Stamped(event, at).tx = Len(logs) + 1
    BY DEF Log, Stamped
  <1>7. /\ DepositedLog.event = "Deposited" /\ DepositedLog.total = deposited'
        /\ DepositedLog.tx = Len(logs) + 1
    BY DEF Log, DepositedLog
  <1>8. SettledLog.event = "Settled" /\ SettledLog.tx = Len(logs) + 1
    BY DEF Log, SettledLog
  <1>9. CanceledLog.event = "StreamCanceled" /\ CanceledLog.tx = Len(logs) + 1
    BY DEF Log, CanceledLog
  <1>10. ASSUME NEW i \in Fresh(logs, logs')
         PROVE  /\ logs'[i] \in LogRecords /\ logs'[i].tx = Len(logs) + 1
                /\ logs'[i].event = "StreamCreated" => status = "None"
                /\ logs'[i].event = "Deposited" =>
                     deposited' > deposited /\ logs'[i].total = deposited'
                /\ logs'[i].event = "StreamStarted" =>
                     startedAt' # startedAt /\ logs'[i].at = startedAt'
                /\ logs'[i].event = "StreamPaused" =>
                     status = "Active" /\ status' = "Paused" /\ logs'[i].at = now
                /\ logs'[i].event = "StreamResumed" =>
                     status = "Paused" /\ status' = "Active" /\ logs'[i].at = now
                /\ logs'[i].event = "Settled" => settledSeconds' > settledSeconds
                /\ logs'[i].event = "StreamCanceled" =>
                     status # "Canceled" /\ status' = "Canceled"
    <2>1. PICK l \in LogRecords : Has(Emitted, l) /\ logs'[i] = [l EXCEPT !.n = i]
      BY <1>2
    <2>2. /\ logs'[i] \in LogRecords /\ logs'[i].event = l.event /\ logs'[i].tx = l.tx
          /\ logs'[i].at = l.at /\ logs'[i].total = l.total
      BY <1>3, <1>4, <2>1
    <2>3. \/ status = "None" /\ status' # "None" /\ l = Log("StreamCreated")
          \/ deposited' > deposited /\ l = DepositedLog
          \/ startedAt' # startedAt /\ l = Stamped("StreamStarted", startedAt')
          \/ status = "Active" /\ status' = "Paused" /\ l = Stamped("StreamPaused", now)
          \/ status = "Paused" /\ status' = "Active" /\ l = Stamped("StreamResumed", now)
          \/ settledSeconds' > settledSeconds /\ l = SettledLog
          \/ status # "Canceled" /\ status' = "Canceled" /\ l = CanceledLog
      BY <1>1, <2>1
    <2>4. CASE status = "None" /\ l = Log("StreamCreated")
      BY <2>2, <2>4, <1>5
    <2>5. CASE deposited' > deposited /\ l = DepositedLog
      BY <2>2, <2>5, <1>7
    <2>6. CASE settledSeconds' > settledSeconds /\ l = SettledLog
      BY <2>2, <2>6, <1>8
    <2>7. CASE status # "Canceled" /\ status' = "Canceled" /\ l = CanceledLog
      BY <2>2, <2>7, <1>9
    <2>8. CASE startedAt' # startedAt /\ l = Stamped("StreamStarted", startedAt')
      <3>1. l.event = "StreamStarted" /\ l.at = startedAt' /\ l.tx = Len(logs) + 1
        BY <2>8, <1>6
      <3>2. QED
        BY <2>2, <2>8, <3>1
    <2>9. CASE status = "Active" /\ status' = "Paused" /\ l = Stamped("StreamPaused", now)
      <3>1. l.event = "StreamPaused" /\ l.at = now /\ l.tx = Len(logs) + 1
        BY <2>9, <1>6
      <3>2. QED
        BY <2>2, <2>9, <3>1
    <2>10. CASE status = "Paused" /\ status' = "Active" /\ l = Stamped("StreamResumed", now)
      <3>1. l.event = "StreamResumed" /\ l.at = now /\ l.tx = Len(logs) + 1
        BY <2>10, <1>6
      <3>2. QED
        BY <2>2, <2>10, <3>1
    <2>11. QED
      BY <2>3, <2>4, <2>5, <2>6, <2>7, <2>8, <2>9, <2>10
  <1>11. ASSUME NEW l, Has(Emitted, l)
         PROVE  \E i \in Fresh(logs, logs') : logs'[i].event = l.event
    <2>1. PICK i \in Fresh(logs, logs') : l \in LogRecords /\ logs'[i] = [l EXCEPT !.n = i]
      BY <1>2, <1>11
    <2>2. i \in Nat
      BY <1>3
    <2>3. [l EXCEPT !.n = i].event = l.event
      BY <2>1, <2>2, <1>4
    <2>4. QED
      BY <2>1, <2>3
  <1>12. startedAt' # startedAt =>
           \E i \in Fresh(logs, logs') : logs'[i].event = "StreamStarted"
    <2>1. startedAt' # startedAt => Has(Emitted, Stamped("StreamStarted", startedAt'))
      BY <1>1
    <2>2. startedAt' # startedAt =>
            \E i \in Fresh(logs, logs') :
              logs'[i].event = Stamped("StreamStarted", startedAt').event
      BY <2>1, <1>11
    <2>3. Stamped("StreamStarted", startedAt').event = "StreamStarted"
      BY <1>6
    <2>4. QED
      BY <2>2, <2>3
  <1>13. status = "Active" /\ status' = "Paused" =>
           \E i \in Fresh(logs, logs') : logs'[i].event = "StreamPaused"
    <2>1. status = "Active" /\ status' = "Paused" => Has(Emitted, Stamped("StreamPaused", now))
      BY <1>1
    <2>2. Stamped("StreamPaused", now).event = "StreamPaused"
      BY <1>6
    <2>3. QED
      BY <2>1, <2>2, <1>11
  <1>14. status = "Paused" /\ status' = "Active" =>
           \E i \in Fresh(logs, logs') : logs'[i].event = "StreamResumed"
    <2>1. status = "Paused" /\ status' = "Active" => Has(Emitted, Stamped("StreamResumed", now))
      BY <1>1
    <2>2. Stamped("StreamResumed", now).event = "StreamResumed"
      BY <1>6
    <2>3. QED
      BY <2>1, <2>2, <1>11
  <1>15. QED
    BY <1>2, <1>10, <1>12, <1>13, <1>14

LEMMA FreshLogs ==
  ASSUME PipelineInv, ChainStep, Emit
  PROVE  /\ Grown /\ (GoesOn \/ Starts \/ Halts \/ GoesOnAgain \/ Ends)
         /\ \A i \in Fresh(logs, logs') :
              /\ logs'[i] \in LogRecords /\ logs'[i].tx = Len(logs) + 1
              /\ status # "Canceled"
              /\ logs'[i].event \in {"StreamCreated", "Deposited"} => status = "None"
              /\ logs'[i].event = "Deposited" => logs'[i].total = deposited'
              /\ logs'[i].event = "StreamStarted" => Starts /\ logs'[i].at = now
              /\ logs'[i].event = "StreamPaused" => Halts /\ logs'[i].at = now
              /\ logs'[i].event = "StreamResumed" => GoesOnAgain /\ logs'[i].at = now
              /\ logs'[i].event = "StreamCanceled" => Ends
         /\ Starts => \E i \in Fresh(logs, logs') : logs'[i].event = "StreamStarted"
         /\ Halts => \E i \in Fresh(logs, logs') : logs'[i].event = "StreamPaused"
         /\ GoesOnAgain => \E i \in Fresh(logs, logs') : logs'[i].event = "StreamResumed"
         /\ Ends => \E i \in Fresh(logs, logs') : logs'[i].event = "StreamCanceled"
         /\ status = "None" /\ status' # "None" =>
              \E i \in Fresh(logs, logs') : logs'[i].event = "Deposited"
         /\ \A i, j \in Fresh(logs, logs') : logs'[i].event = "StreamCanceled" => j <= i
  <1>1. /\ IInv /\ IInv' /\ PotFull' /\ Moves /\ MoneyGrows /\ TypeOK /\ TypeOK' /\ Grown
    BY ChainStepMoves, EmitKeepsLogInv DEF PipelineInv, LogInv, IInv
  <1>2. /\ logs \in Seq(LogRecords) /\ \A i \in 1 .. Len(logs) : logs[i].n = i
        /\ logs' = logs \o Numbered(Emitted)
    BY DEF PipelineInv, LogInv, Emit
  <1>3. GoesOn \/ Starts \/ Halts \/ GoesOnAgain \/ Ends
    BY <1>1, StepTurns
  <1>4. /\ \A i \in Fresh(logs, logs') :
              /\ logs'[i] \in LogRecords /\ logs'[i].tx = Len(logs) + 1
              /\ logs'[i].event = "StreamCreated" => status = "None"
              /\ logs'[i].event = "Deposited" =>
                   deposited' > deposited /\ logs'[i].total = deposited'
              /\ logs'[i].event = "StreamStarted" =>
                   startedAt' # startedAt /\ logs'[i].at = startedAt'
              /\ logs'[i].event = "StreamPaused" =>
                   status = "Active" /\ status' = "Paused" /\ logs'[i].at = now
              /\ logs'[i].event = "StreamResumed" =>
                   status = "Paused" /\ status' = "Active" /\ logs'[i].at = now
              /\ logs'[i].event = "Settled" => settledSeconds' > settledSeconds
              /\ logs'[i].event = "StreamCanceled" =>
                   status # "Canceled" /\ status' = "Canceled"
        /\ startedAt' # startedAt =>
              \E i \in Fresh(logs, logs') : logs'[i].event = "StreamStarted"
        /\ status = "Active" /\ status' = "Paused" =>
              \E i \in Fresh(logs, logs') : logs'[i].event = "StreamPaused"
        /\ status = "Paused" /\ status' = "Active" =>
              \E i \in Fresh(logs, logs') : logs'[i].event = "StreamResumed"
        /\ \A i, j \in Fresh(logs, logs') : logs'[i].event = "StreamCanceled" => j <= i
    BY <1>1, <1>2, NewTurns
  <1>5. /\ deposited' > deposited =>
             \E i \in Fresh(logs, logs') : logs'[i].event = "Deposited"
        /\ status # "Canceled" /\ status' = "Canceled" =>
             \E i \in Fresh(logs, logs') : logs'[i].event = "StreamCanceled"
    BY <1>1, <1>2, NewLogs
  <1>6. deposited \in Nat /\ deposited' \in Nat /\ settledSeconds \in Nat /\ startedAt' \in Nat
    BY <1>1 DEF TypeOK
  <1>7. startedAt' # startedAt => Starts
    BY <1>3 DEF GoesOn, Starts, Halts, GoesOnAgain, Ends
  <1>8. /\ status = "Active" /\ status' = "Paused" => Halts
        /\ status = "Paused" /\ status' = "Active" => GoesOnAgain
        /\ status # "Canceled" /\ status' = "Canceled" => Ends
    BY <1>3 DEF GoesOn, Starts, Halts, GoesOnAgain, Ends
  <1>9. Starts => startedAt' = now /\ startedAt' # startedAt
    BY DEF Starts
  <1>10. status = "None" /\ status' # "None" => deposited' > deposited
    <2>1. status = "None" => deposited = 0
      BY <1>1 DEF IInv, ClockInv
    <2>2. status' # "None" => deposited' = MaxEscrow
      BY <1>1 DEF PotFull
    <2>3. MaxEscrow \in Nat \ {0}
      BY StreamAssumption
    <2>4. QED
      BY <2>1, <2>2, <2>3
  <1>11. ASSUME NEW i \in Fresh(logs, logs')
         PROVE  /\ logs'[i] \in LogRecords /\ logs'[i].tx = Len(logs) + 1
                /\ logs'[i].event \in {"StreamCreated", "Deposited"} => status = "None"
                /\ logs'[i].event = "Deposited" => logs'[i].total = deposited'
                /\ logs'[i].event = "StreamStarted" => Starts /\ logs'[i].at = now
                /\ logs'[i].event = "StreamPaused" => Halts /\ logs'[i].at = now
                /\ logs'[i].event = "StreamResumed" => GoesOnAgain /\ logs'[i].at = now
                /\ logs'[i].event = "StreamCanceled" => Ends
    <2>1. deposited' > deposited => status = "None"
      BY <1>1, <1>6 DEF Moves
    <2>2. QED
      BY <2>1, <1>4, <1>7, <1>8, <1>9
  <1>12. ASSUME NEW i \in Fresh(logs, logs') PROVE status # "Canceled"
    <2>1. logs'[i].event \in Events
      BY <1>11 DEF LogRecords
    <2>2. settledSeconds' > settledSeconds => status # "Canceled"
      BY <1>1, <1>6 DEF Moves
    <2>3. QED
      BY <2>1, <2>2, <1>4, <1>11 DEF Events, Starts, Halts, GoesOnAgain
  <1>13. /\ Halts => status = "Active" /\ status' = "Paused"
         /\ GoesOnAgain => status = "Paused" /\ status' = "Active"
         /\ Ends => status # "Canceled" /\ status' = "Canceled"
    BY DEF Halts, GoesOnAgain, Ends, Live
  <1> HIDE DEF Starts, Halts, GoesOnAgain, Ends, GoesOn
  <1>14. QED
    BY <1>1, <1>3, <1>4, <1>5, <1>9, <1>10, <1>11, <1>12, <1>13

-----------------------------------------------------------------------------
(* The steps of the stream.                                                *)

(* What FreshLogs says, by name, with what the old logs keep.              *)
Tellings ==
  /\ GoesOn \/ Starts \/ Halts \/ GoesOnAgain \/ Ends
  /\ Len(logs) \in Nat /\ Len(logs') \in Nat /\ Len(logs) <= Len(logs')
  /\ \A i \in 1 .. Len(logs) : i \in 1 .. Len(logs') /\ logs'[i] = logs[i]
  /\ \A i \in 1 .. Len(logs') : i \in 1 .. Len(logs) \/ i \in Fresh(logs, logs')
  /\ \A i \in Fresh(logs, logs') : i \in 1 .. Len(logs') /\ i > Len(logs)
  /\ \A i, j \in Fresh(logs, logs') : logs'[i].event = logs'[j].event => i = j
  /\ \A i, j \in Fresh(logs, logs') : logs'[i].event = "StreamCanceled" => j <= i
  /\ \A i \in Fresh(logs, logs') :
       /\ status # "Canceled" /\ logs'[i].event \in Events
       /\ logs'[i].event = "Deposited" => status = "None" /\ logs'[i].total = deposited'
       /\ logs'[i].event = "StreamStarted" => Starts /\ logs'[i].at = now
       /\ logs'[i].event = "StreamPaused" => Halts /\ logs'[i].at = now
       /\ logs'[i].event = "StreamResumed" => GoesOnAgain /\ logs'[i].at = now
       /\ logs'[i].event = "StreamCanceled" => Ends
  /\ Starts => \E i \in Fresh(logs, logs') : logs'[i].event = "StreamStarted"
  /\ Halts => \E i \in Fresh(logs, logs') : logs'[i].event = "StreamPaused"
  /\ GoesOnAgain => \E i \in Fresh(logs, logs') : logs'[i].event = "StreamResumed"
  /\ Ends => \E i \in Fresh(logs, logs') : logs'[i].event = "StreamCanceled"
  /\ status = "None" /\ status' # "None" =>
       \E i \in Fresh(logs, logs') : logs'[i].event = "Deposited"

LEMMA StepTells ==
  ASSUME PipelineInv, ChainStep, Emit
  PROVE  Tellings /\ Grown
  <1>1. /\ Grown /\ logs \in Seq(LogRecords)
    BY FreshLogs DEF PipelineInv, LogInv
  <1>2. /\ Len(logs) \in Nat /\ Len(logs') \in Nat /\ Len(logs) <= Len(logs')
        /\ \A i \in 1 .. Len(logs) : i \in 1 .. Len(logs') /\ logs'[i] = logs[i]
        /\ \A i, j \in Fresh(logs, logs') : logs'[i].event = logs'[j].event => i = j
    BY <1>1, LenProperties DEF Grown
  <1>3. /\ \A i \in 1 .. Len(logs') : i \in 1 .. Len(logs) \/ i \in Fresh(logs, logs')
        /\ \A i \in Fresh(logs, logs') : i \in 1 .. Len(logs') /\ i > Len(logs)
    BY <1>2 DEF Fresh
  <1>4. \A l \in LogRecords : l.event \in Events
    BY DEF LogRecords
  <1> HIDE DEF Starts, Halts, GoesOnAgain, Ends, GoesOn, Grown, Fresh
  <1>5. QED
    BY <1>1, <1>2, <1>3, <1>4, FreshLogs DEF Tellings

(* Of the new logs one at most turns the stream.                           *)
LEMMA OneTurn ==
  ASSUME Tellings, NEW i \in Fresh(logs, logs'), NEW j \in Fresh(logs, logs'),
         logs'[i].event \in Turns, logs'[j].event \in Turns
  PROVE  i = j
  <1>1. logs'[i].event = logs'[j].event
    BY DEF Tellings, Turns, Starts, Halts, GoesOnAgain, Ends, Live
  <1>2. QED
    BY <1>1 DEF Tellings

LEMMA EmitKeepsLogOrder ==
  ASSUME PipelineInv, LogOrder, ChainStep, Emit
  PROVE  LogOrder'
  <1>1. LogInv /\ Moves /\ IInv
    BY ChainStepMoves DEF PipelineInv, LogInv
  <1>2. Tellings
    BY StepTells
  <1>3. ASSUME NEW i \in 1 .. Len(logs'), NEW j \in 1 .. Len(logs')
        PROVE  /\ logs'[i].event = "StreamStarted" /\ logs'[j].event \in Turns => i <= j
               /\ logs'[i].event = "StreamCanceled" => j <= i
    <2>1. CASE i \in 1 .. Len(logs) /\ j \in 1 .. Len(logs)
      BY <1>2, <2>1 DEF LogOrder, Tellings
    <2>2. CASE i \in 1 .. Len(logs) /\ j \in Fresh(logs, logs')
      <3>1. i <= j /\ logs'[i] = logs[i] /\ status # "Canceled"
        BY <1>2, <2>2 DEF Tellings
      <3>2. logs[i].event # "StreamCanceled"
        BY <1>1, <2>2, <3>1 DEF LogInv
      <3>3. QED
        BY <3>1, <3>2
    <2>3. CASE i \in Fresh(logs, logs') /\ j \in 1 .. Len(logs)
      <3>1. j <= i /\ logs'[j] = logs[j]
        BY <1>2, <2>3 DEF Tellings
      <3>2. ASSUME logs'[i].event = "StreamStarted", logs'[j].event \in Turns PROVE FALSE
        <4>1. Starts
          BY <1>2, <2>3, <3>2 DEF Tellings
        <4>2. IsTurn(j)
          BY <2>3, <3>1, <3>2 DEF IsTurn
        <4>3. PICK n : IsTurn(n) /\ Tells(logs[n])
          BY <4>2 DEF LogOrder
        <4>4. QED
          BY <4>1, <4>3 DEF IsTurn, Tells, Turns, Starts
      <3>3. QED
        BY <3>1, <3>2
    <2>4. CASE i \in Fresh(logs, logs') /\ j \in Fresh(logs, logs')
      <3>1. logs'[i].event = "StreamStarted" /\ logs'[j].event \in Turns => i = j
        BY <1>2, <2>4, OneTurn DEF Turns
      <3>2. QED
        BY <1>2, <2>4, <3>1 DEF Tellings
    <2>5. QED
      BY <1>2, <2>1, <2>2, <2>3, <2>4 DEF Tellings
  <1>4. ASSUME NEW i \in 1 .. Len(logs')
        PROVE  /\ logs'[i].event = "StreamStarted" => logs'[i].at = startedAt'
               /\ logs'[i].event = "Deposited" => logs'[i].total = deposited'
               /\ logs'[i].event = "StreamPaused" => logs'[i].at # 0
    <2>1. CASE i \in 1 .. Len(logs)
      <3>1. logs'[i] = logs[i] /\ status # "None"
        BY <2>1, <1>1, <1>2 DEF LogInv, Tellings
      <3>2. logs[i].event = "StreamStarted" => startedAt' = startedAt
        BY <2>1, <1>1 DEF LogInv, Moves
      <3>3. deposited' = deposited
        BY <3>1, <1>1 DEF Moves
      <3>4. QED
        BY <2>1, <3>1, <3>2, <3>3 DEF LogOrder
    <2>2. CASE i \in Fresh(logs, logs')
      BY <2>2, <1>2 DEF Tellings, Starts, Halts
    <2>3. QED
      BY <2>1, <2>2, <1>2 DEF Tellings
  <1>5. startedAt' # 0 => \E i \in 1 .. Len(logs') : logs'[i].event = "StreamStarted"
    <2>1. CASE startedAt' = startedAt /\ startedAt' # 0
      BY <2>1, <1>2 DEF LogOrder, Tellings
    <2>2. CASE startedAt' # startedAt
      <3>1. Starts
        BY <2>2, <1>2 DEF Tellings, GoesOn, Halts, GoesOnAgain, Ends
      <3>2. QED
        BY <3>1, <1>2 DEF Tellings
    <2>3. QED
      BY <2>1, <2>2
  <1>6. status' # "None" => \E i \in 1 .. Len(logs') : logs'[i].event = "Deposited"
    <2>1. CASE status # "None"
      BY <2>1, <1>2 DEF LogOrder, Tellings
    <2>2. CASE status = "None"
      BY <2>2, <1>2 DEF Tellings
    <2>3. QED
      BY <2>1, <2>2
  <1>7. \/ status' \in {"None", "Created"} /\ \A n : ~IsTurn(n)'
        \/ \E n : IsTurn(n)' /\ Tells(logs[n])' /\ \A m : IsTurn(m)' => m <= n
    <2>1. CASE GoesOn
      <3>1. \A i \in Fresh(logs, logs') : logs'[i].event \notin Turns
        BY <1>2, <2>1 DEF Tellings, Turns, GoesOn, Starts, Halts, GoesOnAgain, Ends, Live
      <3>2. \A n : IsTurn(n)' <=> IsTurn(n)
        BY <1>2, <3>1 DEF Tellings, IsTurn
      <3>3. ASSUME NEW n, IsTurn(n), Tells(logs[n]) PROVE Tells(logs[n])'
        <4>1. logs'[n] = logs[n]
          BY <1>2, <3>3 DEF IsTurn, Tellings
        <4>2. QED
          BY <2>1, <3>3, <4>1 DEF Tells, GoesOn
      <3>4. status \in {"None", "Created"} => status' \in {"None", "Created"}
        BY <2>1 DEF GoesOn
      <3>5. QED
        BY <3>2, <3>3, <3>4 DEF LogOrder
    <2>2. CASE ~GoesOn
      <3>1. PICK n \in Fresh(logs, logs') :
              \/ Starts /\ logs'[n].event = "StreamStarted"
              \/ Halts /\ logs'[n].event = "StreamPaused" /\ logs'[n].at = now
              \/ GoesOnAgain /\ logs'[n].event = "StreamResumed"
              \/ Ends /\ logs'[n].event = "StreamCanceled"
        BY <1>2, <2>2 DEF Tellings
      <3>2. IsTurn(n)' /\ logs'[n].event \in Turns
        BY <1>2, <3>1 DEF Tellings, IsTurn, Turns
      <3>3. Tells(logs[n])'
        BY <3>1 DEF Tells, Starts, Halts, GoesOnAgain, Ends
      <3>4. ASSUME NEW m, IsTurn(m)' PROVE m <= n
        <4>1. m \in 1 .. Len(logs') /\ logs'[m].event \in Turns
          BY <3>4 DEF IsTurn
        <4>2. CASE m \in 1 .. Len(logs)
          BY <1>2, <4>2 DEF Tellings
        <4>3. CASE m \in Fresh(logs, logs')
          <5>1. m = n
            BY <1>2, <3>2, <4>1, <4>3, OneTurn
          <5>2. n \in 1 .. Len(logs')
            BY <1>2 DEF Tellings
          <5>3. QED
            BY <5>1, <5>2
        <4>4. QED
          BY <1>2, <4>1, <4>2, <4>3 DEF Tellings
      <3>5. QED
        BY <3>2, <3>3, <3>4
    <2>3. QED
      BY <2>1, <2>2
  <1>8. QED
    BY <1>3, <1>4, <1>5, <1>6, <1>7 DEF LogOrder

LEMMA EmitKeepsRow ==
  ASSUME PipelineInv, HistoryInv, RowInv, ChainStep, Emit
  PROVE  RowInv'
  <1>1. LogInv /\ Moves /\ DeliveryInv /\ Tellings
    BY ChainStepMoves, StepTells DEF PipelineInv, LogInv
  <1>2. UNCHANGED <<row, stored, invoiced, latest>>
    BY DEF Emit, db, history
  <1>3. \A i \in stored : i \in 1 .. Len(logs) /\ logs'[i] = logs[i] /\ i \in 1 .. Len(logs')
    BY <1>1 DEF Tellings, DeliveryInv
  <1>4. \A event : Heard(event)' <=> \E i \in stored : logs[i].event = event
    BY <1>2, <1>3 DEF Heard
  <1>5. Heard("StreamStarted") => startedAt' = startedAt
    BY <1>1, <1>3 DEF Heard, LogInv, Moves
  <1>6. Heard("Deposited") => deposited' = deposited
    BY <1>1, <1>3 DEF Heard, LogInv, Moves
  <1>7. \A n \in stored : IsTurn(n)' <=> IsTurn(n)
    BY <1>3 DEF IsTurn
  <1>8. ASSUME latest \in stored, RowTells(logs[latest]) PROVE RowTells(logs[latest])'
    <2>1. logs'[latest] = logs[latest]
      BY <1>3, <1>8
    <2>2. QED
      BY <1>2, <1>8, <2>1 DEF RowTells
  <1>9. QED
    BY <1>2, <1>4, <1>5, <1>6, <1>7, <1>8 DEF RowInv, Heard

(* The pause a resume ended is the last one before it.                     *)
LEMMA NapsType ==
  ASSUME NEW s \in Seq(LogRecords), \A i \in 1 .. Len(s) : s[i].n = i,
         \A i \in 1 .. Len(s) : s[i].event = "StreamResumed" => \E p : Ended(s, p, i)
  PROVE  /\ Naps(s) \in [1 .. Len(s) -> Nat]
         /\ \A i \in 1 .. Len(s) : s[i].event # "StreamResumed" => Naps(s)[i] = 0
         /\ \A i \in 1 .. Len(s) : \A p : s[i].event = "StreamResumed" /\ Ended(s, p, i) =>
              Naps(s)[i] = s[i].at - s[p].at
  <1>1. Len(s) \in Nat /\ DOMAIN s = 1 .. Len(s) /\ \A i \in 1 .. Len(s) : s[i].at \in Nat
    <2>1. \A i \in 1 .. Len(s) : s[i] \in LogRecords
      BY ElementOfSeq
    <2>2. QED
      BY <2>1, LenProperties DEF LogRecords
  <1>2. ASSUME NEW i \in 1 .. Len(s), NEW p, Ended(s, p, i)
        PROVE  PauseAt(s, s[i]) = s[p].at
    <2> DEFINE S == {m \in DOMAIN s : m < s[i].n /\ s[m].event = "StreamPaused"}
    <2>1. S = {m \in 1 .. Len(s) : m < i /\ s[m].event = "StreamPaused"}
      BY <1>1
    <2>2. p \in S /\ S \in SUBSET (0 .. Len(s))
      BY <1>1, <1>2, <2>1 DEF Ended
    <2>3. Max(S) \in S /\ Max(S) >= p
      BY <1>1, <2>2, GreatestOf
    <2> DEFINE k == Max(S)
    <2>4. k \in 1 .. Len(s) /\ k < i /\ s[k].event = "StreamPaused" /\ k >= p
      BY <2>1, <2>3
    <2> HIDE DEF k
    <2>4a. k = p
      BY <1>1, <1>2, <2>4 DEF Ended
    <2>5. QED
      BY <2>4a DEF PauseAt, k
  <1>3. \A i \in 1 .. Len(s) : \A p : s[i].event = "StreamResumed" /\ Ended(s, p, i) =>
          Naps(s)[i] = s[i].at - s[p].at
    BY <1>2 DEF Naps
  <1>4. \A i \in 1 .. Len(s) : s[i].event # "StreamResumed" => Naps(s)[i] = 0
    BY DEF Naps
  <1>5. ASSUME NEW i \in 1 .. Len(s) PROVE Naps(s)[i] \in Nat
    <2>1. CASE s[i].event = "StreamResumed"
      <3>1. PICK p : Ended(s, p, i)
        BY <2>1
      <3>2. p \in 1 .. Len(s) /\ s[p].at <= s[i].at
        BY <1>1, <3>1 DEF Ended
      <3>3. QED
        BY <1>1, <1>3, <2>1, <3>1, <3>2
    <2>2. QED
      BY <1>4, <2>1
  <1>6. Naps(s) = [i \in 1 .. Len(s) |-> Naps(s)[i]]
    BY DEF Naps
  <1>7. QED
    BY <1>3, <1>4, <1>5, <1>6

(* What the new logs add is what the stream slept in the pause just over.  *)
LEMMA EmitKeepsNaps ==
  ASSUME PipelineInv, HistoryInv, LogOrder, NapInv, ChainStep, Emit
  PROVE  NapInv'
  <1>1. LogInv /\ LogInv' /\ DeliveryInv /\ Tellings /\ IInv
    BY EmitKeepsLogInv, StepTells DEF PipelineInv
  <1>2. UNCHANGED <<row, stored, misread>> /\ stored \subseteq 1 .. Len(logs)
    BY <1>1 DEF Emit, db, history, DeliveryInv
  <1>3. /\ now \in Nat /\ now' \in Nat /\ slept \in Nat /\ pausedAt \in Nat
        /\ row.pausedSeconds \in Nat /\ (status = "Paused" => pausedAt <= now)
    BY <1>1, ChainStepMoves DEF IInv, TypeOK, ClockInv, PipelineInv, DbTypeOK, RowRecords, LogInv
  <1>4. \A i \in 1 .. Len(logs) : \A p : Ended(logs, p, i) <=> Ended(logs', p, i)
    <2>1. ASSUME NEW i \in 1 .. Len(logs), NEW p
          PROVE  Ended(logs, p, i) <=> Ended(logs', p, i)
      <3>1. /\ p \in 1 .. i - 1 => p \in 1 .. Len(logs)
            /\ p \in 1 .. i - 1 => \A q \in p + 1 .. i - 1 : q \in 1 .. Len(logs)
        BY <1>1 DEF Tellings
      <3>2. \A q \in 1 .. Len(logs) : logs'[q] = logs[q]
        BY <1>1 DEF Tellings
      <3>3. QED
        BY <3>1, <3>2 DEF Ended
    <2>2. QED
      BY <2>1
  (* The new resume ended the pause the stream was in.                     *)
  <1>5. ASSUME NEW i \in Fresh(logs, logs'), logs'[i].event = "StreamResumed"
        PROVE  /\ GoesOnAgain /\ logs'[i].at = now
               /\ \E p : Ended(logs', p, i) /\ logs'[p].at = pausedAt
    <2>1. GoesOnAgain /\ logs'[i].at = now /\ status = "Paused"
      BY <1>1, <1>5 DEF Tellings, GoesOnAgain
    <2>2. PICK n : IsTurn(n) /\ Tells(logs[n]) /\ \A m : IsTurn(m) => m <= n
      BY <2>1 DEF LogOrder
    <2>3. n \in 1 .. Len(logs) /\ logs[n].event = "StreamPaused" /\ logs[n].at = pausedAt
      BY <2>1, <2>2 DEF IsTurn, Tells, Turns
    <2>4. n \in 1 .. i - 1 /\ logs'[n] = logs[n]
      BY <1>1, <2>3 DEF Tellings
    <2>5. ASSUME NEW q \in n + 1 .. i - 1, logs'[q].event = "StreamPaused" PROVE FALSE
      <3>1. q \in 1 .. Len(logs')
        BY <1>1, <2>3 DEF Tellings
      <3>2. CASE q \in 1 .. Len(logs)
        <4>1. IsTurn(q)
          BY <1>1, <2>5, <3>2 DEF IsTurn, Turns, Tellings
        <4>2. QED
          BY <2>2, <2>3, <4>1
      <3>3. CASE q \in Fresh(logs, logs')
        <4>1. Halts
          BY <1>1, <2>5, <3>3 DEF Tellings
        <4>2. QED
          BY <2>1, <4>1 DEF Halts
      <3>4. QED
        BY <1>1, <3>1, <3>2, <3>3 DEF Tellings
    <2>6. Ended(logs', n, i)
      BY <1>3, <2>1, <2>3, <2>4, <2>5 DEF Ended
    <2>7. QED
      BY <2>1, <2>3, <2>4, <2>6
  <1>6. \A i \in 1 .. Len(logs') : logs'[i].event = "StreamResumed" => \E p : Ended(logs', p, i)
    <2>1. ASSUME NEW i \in 1 .. Len(logs'), logs'[i].event = "StreamResumed"
          PROVE  \E p : Ended(logs', p, i)
      <3>1. CASE i \in 1 .. Len(logs)
        <4>1. logs[i].event = "StreamResumed"
          BY <1>1, <2>1, <3>1 DEF Tellings
        <4>2. QED
          BY <1>4, <3>1, <4>1 DEF NapInv
      <3>2. CASE i \in Fresh(logs, logs')
        BY <1>5, <2>1, <3>2
      <3>3. QED
        BY <1>1, <2>1, <3>1, <3>2 DEF Tellings
    <2>2. QED
      BY <2>1
  <1>7. ASSUME ~misread', status' # "Canceled"
        PROVE  Pending(Len(logs'), Naps(logs'), stored', SleptBefore' - row'.pausedSeconds)
    <2>1. status # "Canceled" /\ ~Ends /\ ~misread
      BY <1>1, <1>2, <1>7, ChainStepMoves DEF PipelineInv, LogInv, Moves, Ends
    <2>2. Pending(Len(logs), Naps(logs), stored, SleptBefore - row.pausedSeconds)
      BY <2>1 DEF NapInv
    <2>3. /\ Naps(logs) \in [1 .. Len(logs) -> Nat]
          /\ \A i \in 1 .. Len(logs) : logs[i].event # "StreamResumed" => Naps(logs)[i] = 0
          /\ \A i \in 1 .. Len(logs) : \A p : logs[i].event = "StreamResumed" /\ Ended(logs, p, i) =>
               Naps(logs)[i] = logs[i].at - logs[p].at
      BY <1>1, NapsType DEF LogInv, NapInv
    <2>4. /\ Naps(logs') \in [1 .. Len(logs') -> Nat]
          /\ \A i \in 1 .. Len(logs') : logs'[i].event # "StreamResumed" => Naps(logs')[i] = 0
          /\ \A i \in 1 .. Len(logs') : \A p :
               logs'[i].event = "StreamResumed" /\ Ended(logs', p, i) =>
                 Naps(logs')[i] = logs'[i].at - logs'[p].at
      BY <1>1, <1>6, NapsType DEF LogInv
    <2>5. ASSUME NEW i \in 1 .. Len(logs) PROVE Naps(logs')[i] = Naps(logs)[i]
      <3>1. i \in 1 .. Len(logs') /\ logs'[i] = logs[i]
        BY <1>1 DEF Tellings
      <3>2. CASE logs[i].event = "StreamResumed"
        <4>1. PICK p : Ended(logs, p, i)
          BY <3>2 DEF NapInv
        <4>2. Ended(logs', p, i) /\ p \in 1 .. Len(logs)
          BY <1>1, <1>4, <4>1 DEF Ended, Tellings
        <4>3. logs'[p] = logs[p]
          BY <1>1, <4>2 DEF Tellings
        <4>4. QED
          BY <2>3, <2>4, <3>1, <3>2, <4>1, <4>2, <4>3
      <3>3. QED
        BY <2>3, <2>4, <3>1, <3>2
    <2>6. Fresh(logs, logs') = Len(logs) + 1 .. Len(logs') /\ row' = row /\ stored' = stored
      BY <1>2 DEF Fresh
    <2>7. SleptBefore \in Int
      BY <1>3 DEF SleptBefore
    <2>8. CASE GoesOnAgain
      <3>1. PICK t \in Fresh(logs, logs') : logs'[t].event = "StreamResumed"
        BY <1>1, <2>8 DEF Tellings
      <3>2. PICK p : Ended(logs', p, t) /\ logs'[p].at = pausedAt /\ logs'[t].at = now
        BY <1>5, <3>1
      <3>3. t \in Len(logs) + 1 .. Len(logs') /\ t \in 1 .. Len(logs')
        BY <1>1, <2>6 DEF Tellings
      <3>4. Naps(logs')[t] = now - pausedAt /\ now - pausedAt \in Nat
        BY <1>3, <2>4, <2>8, <3>1, <3>2, <3>3 DEF GoesOnAgain
      <3>5. \A i \in Len(logs) + 1 .. Len(logs') : i # t => Naps(logs')[i] = 0
        <4>1. ASSUME NEW i \in Len(logs) + 1 .. Len(logs'), i # t PROVE Naps(logs')[i] = 0
          <5>1. i \in Fresh(logs, logs') /\ i \in 1 .. Len(logs')
            BY <1>1, <2>6 DEF Tellings
          <5>2. logs'[i].event # "StreamResumed"
            BY <1>1, <3>1, <4>1, <5>1 DEF Tellings
          <5>3. QED
            BY <2>4, <5>1, <5>2
        <4>2. QED
          BY <4>1
      <3> DEFINE x == SleptBefore - row.pausedSeconds
                 v == now - pausedAt
      <3>6. x + v = SleptBefore' - row'.pausedSeconds
        <4>1. SleptBefore = slept - (now - pausedAt) /\ SleptBefore' = slept - 0
          BY <2>8 DEF SleptBefore, GoesOnAgain
        <4>2. QED
          BY <1>3, <2>6, <4>1
      <3>7. Pending(Len(logs), Naps(logs), stored, x) /\ v \in Nat /\ Naps(logs')[t] = v
        BY <2>2, <3>4
      <3>8. t \in Len(logs) + 1 .. Len(logs') + 1 /\ ~(t > Len(logs'))
        BY <1>1, <3>3 DEF Tellings
      <3>9. Len(logs) \in Nat /\ Len(logs') \in Nat /\ Len(logs) <= Len(logs')
        BY <1>1 DEF Tellings
      <3> HIDE DEF x, v
      <3>10. Pending(Len(logs'), Naps(logs'), stored, x + v)
        BY <1>2, <2>4, <2>5, <3>5, <3>7, <3>8, <3>9, PendingGrows
      <3>11. QED
        BY <2>6, <3>6, <3>10
    <2>9. CASE ~GoesOnAgain
      <3>1. \A i \in Len(logs) + 1 .. Len(logs') : Naps(logs')[i] = 0
        <4>1. ASSUME NEW i \in Len(logs) + 1 .. Len(logs') PROVE Naps(logs')[i] = 0
          <5>1. i \in Fresh(logs, logs') /\ i \in 1 .. Len(logs')
            BY <1>1, <2>6 DEF Tellings
          <5>2. logs'[i].event # "StreamResumed"
            BY <1>5, <2>9, <5>1
          <5>3. QED
            BY <2>4, <5>1, <5>2
        <4>2. QED
          BY <4>1
      <3>2. SleptBefore' = SleptBefore
        <4>1. CASE GoesOn
          <5>1. /\ status' = "Paused" <=> status = "Paused"
                /\ slept' = slept + (IF status = "Paused" THEN now' - now ELSE 0)
                /\ pausedAt' = pausedAt
            BY <4>1 DEF GoesOn
          <5>2. CASE status = "Paused"
            <6>1. /\ SleptBefore = slept - (now - pausedAt)
                  /\ SleptBefore' = slept' - (now' - pausedAt')
                  /\ slept' = slept + (now' - now) /\ pausedAt' = pausedAt
              BY <5>1, <5>2 DEF SleptBefore
            <6>2. PICK a \in Nat, b \in Nat, c \in Nat, d \in Nat :
                    a = slept /\ b = now /\ c = now' /\ d = pausedAt
              BY <1>3
            <6>3. a - (b - d) = (a + (c - b)) - (c - d)
              OBVIOUS
            <6>4. QED
              BY <6>1, <6>2, <6>3
          <5>3. CASE status # "Paused"
            <6>1. status' # "Paused" /\ slept' = slept + 0
              BY <4>1, <5>3 DEF GoesOn
            <6>2. SleptBefore = slept - 0
              BY <5>3 DEF SleptBefore
            <6>3. SleptBefore' = slept' - 0
              BY <6>1 DEF SleptBefore
            <6>4. QED
              BY <1>3, <6>1, <6>2, <6>3
          <5>4. QED
            BY <5>2, <5>3
        <4>2. CASE Starts
          BY <1>3, <4>2 DEF SleptBefore, Starts
        <4>3. CASE Halts
          BY <1>3, <4>3 DEF SleptBefore, Halts
        <4>4. QED
          BY <1>1, <2>1, <2>9, <4>1, <4>2, <4>3 DEF Tellings
      <3> DEFINE x == SleptBefore - row.pausedSeconds
                 t == Len(logs') + 1
      <3>3. Pending(Len(logs), Naps(logs), stored, x) /\ x + 0 = x
        BY <1>3, <2>2, <2>7
      <3>4. Len(logs) \in Nat /\ Len(logs') \in Nat /\ Len(logs) <= Len(logs')
        BY <1>1 DEF Tellings
      <3>5. t \in Len(logs) + 1 .. Len(logs') + 1 /\ ~(t <= Len(logs'))
        BY <3>4
      <3>6. x = SleptBefore' - row'.pausedSeconds
        BY <2>6, <3>2
      <3> HIDE DEF x, t
      <3>7. Pending(Len(logs'), Naps(logs'), stored, x + 0)
        BY <1>2, <2>4, <2>5, <3>1, <3>3, <3>4, <3>5, PendingGrows
      <3>8. QED
        BY <2>6, <3>3, <3>6, <3>7
    <2>10. QED
      BY <2>8, <2>9
  <1>8. QED
    BY <1>6, <1>7 DEF NapInv

LEMMA EmitKeepsOrder ==
  ASSUME OrderInv, ChainStep, Emit
  PROVE  OrderInv'
  <1>1. HistoryInv'
    BY DEF OrderInv, HistoryInv, Emit, db, history
  <1>2. QED
    BY <1>1, EmitKeepsInv, EmitKeepsLogOrder, EmitKeepsRow, EmitKeepsNaps DEF OrderInv

-----------------------------------------------------------------------------
(* A log that reaches its subscription.                                    *)

LEMMA LogOrderStays ==
  ASSUME LogOrder, UNCHANGED <<chain, logs>>
  PROVE  LogOrder'
  <1>1. UNCHANGED <<status, startedAt, pausedAt, deposited, logs>>
    BY DEF chain, vars, lifecycle, settled
  <1>2. (\A n : IsTurn(n)' <=> IsTurn(n)) /\ (\A n : Tells(logs[n])' <=> Tells(logs[n]))
    BY <1>1 DEF IsTurn, Tells
  <1>3. QED
    BY <1>1, <1>2 DEF LogOrder

(* What one log does to the row, field by field.                           *)
LEMMA RowChanges ==
  ASSUME NEW r \in RowRecords, NEW l \in LogRecords, NEW seen \in Nat
  PROVE  LET t == RowAfter(r, l, seen)
         IN  /\ t.status = CASE l.event \in {"StreamStarted", "StreamResumed"} -> "active"
                             [] l.event = "StreamPaused" -> "paused"
                             [] l.event = "StreamCanceled" -> "canceled"
                             [] OTHER -> r.status
             /\ t.startedAt = IF l.event = "StreamStarted" THEN l.at ELSE r.startedAt
             /\ t.fundedWei = IF l.event = "Deposited" THEN l.total ELSE r.fundedWei
             /\ t.pausedAt = CASE l.event = "StreamPaused" -> l.at
                               [] l.event \in {"StreamResumed", "StreamCanceled"} -> 0
                               [] OTHER -> r.pausedAt
             /\ l.event # "StreamResumed" => t.pausedSeconds = r.pausedSeconds
             /\ l.event = "StreamResumed" =>
                  t.pausedSeconds =
                    r.pausedSeconds + (IF seen # 0 /\ l.at > seen THEN l.at - seen ELSE 0)
             /\ l.event \notin {"Settled", "StreamCanceled"} =>
                  t.settledSeconds = r.settledSeconds /\ t.settledWei = r.settledWei
             /\ l.event = "Settled" /\ r.status # "canceled" =>
                  /\ t.settledSeconds = r.settledSeconds + l.seconds
                  /\ t.settledWei = r.settledWei + l.amount
  <1>1. l.event \in Events
    BY DEF LogRecords
  <1>2. CASE l.event = "StreamCreated"
    BY <1>2 DEF RowAfter, Created, RowRecords
  <1>3. CASE l.event = "Deposited"
    BY <1>3 DEF RowAfter, Funded, RowRecords
  <1>4. CASE l.event = "StreamStarted"
    BY <1>4 DEF RowAfter, Started, RowRecords
  <1>5. CASE l.event = "StreamPaused"
    BY <1>5 DEF RowAfter, Paused, RowRecords
  <1>6. CASE l.event = "StreamResumed"
    BY <1>6 DEF RowAfter, Resumed, RowRecords
  <1>7. CASE l.event = "Settled"
    BY <1>7 DEF RowAfter, Settled, RowRecords
  <1>8. CASE l.event = "StreamCanceled"
    BY <1>8 DEF RowAfter, Canceled, RowRecords
  <1>9. QED
    BY <1>1, <1>2, <1>3, <1>4, <1>5, <1>6, <1>7, <1>8 DEF Events

LEMMA AppliesKeepsRow ==
  ASSUME PipelineInv, LogOrder, RowInv, NEW n \in 1 .. Len(logs), n \notin stored,
         NEW seen \in Nat, Applies(logs[n], seen), Observe(logs[n], seen), UNCHANGED <<chain, logs>>
  PROVE  RowInv'
  <1> DEFINE l == logs[n]
             t == RowAfter(row, l, seen)
  <1>1. l \in LogRecords /\ l.n = n /\ row \in RowRecords /\ l.event \in Events
    <2>1. logs[n] \in LogRecords /\ logs[n].n = n
      BY ElementOfSeq DEF PipelineInv, LogInv
    <2>2. QED
      BY <2>1 DEF PipelineInv, DbTypeOK, LogRecords
  <1>2. /\ stored' = stored \cup {n} /\ row' = t /\ invoiced' = InvoicedAfter(invoiced, l)
        /\ latest' = IF l.event \in Turns THEN n ELSE latest
    BY <1>1 DEF Applies, Observe
  <1>3. UNCHANGED <<startedAt, deposited, logs>> /\ \A m : IsTurn(m)' <=> IsTurn(m)
    BY DEF chain, vars, lifecycle, IsTurn
  <1>4. /\ l.event = "StreamStarted" => l.at = startedAt
        /\ l.event = "Deposited" => l.total = deposited
    BY DEF LogOrder
  <1>5. \A event : Heard(event)' <=> Heard(event) \/ l.event = event
    BY <1>2 DEF Heard
  <1>6. /\ t.status = CASE l.event \in {"StreamStarted", "StreamResumed"} -> "active"
                        [] l.event = "StreamPaused" -> "paused"
                        [] l.event = "StreamCanceled" -> "canceled"
                        [] OTHER -> row.status
        /\ t.startedAt = IF l.event = "StreamStarted" THEN l.at ELSE row.startedAt
        /\ t.fundedWei = IF l.event = "Deposited" THEN l.total ELSE row.fundedWei
        /\ t.pausedAt = CASE l.event = "StreamPaused" -> l.at
                          [] l.event \in {"StreamResumed", "StreamCanceled"} -> 0
                          [] OTHER -> row.pausedAt
        /\ l.event \notin {"Settled", "StreamCanceled"} =>
             t.settledSeconds = row.settledSeconds /\ t.settledWei = row.settledWei
        /\ l.event = "Settled" /\ row.status # "canceled" =>
             /\ t.settledSeconds = row.settledSeconds + l.seconds
             /\ t.settledWei = row.settledWei + l.amount
    BY <1>1, RowChanges
  <1>7. /\ l.event = "Settled" =>
             /\ invoiced'.seconds = invoiced.seconds + l.seconds
             /\ invoiced'.amount = invoiced.amount + l.amount
        /\ l.event # "Settled" => invoiced' = invoiced
    BY <1>2 DEF InvoicedAfter
  <1>8. IsTurn(n) <=> l.event \in Turns
    BY DEF IsTurn
  <1> HIDE DEF l, t
  <1>9. row'.startedAt = IF Heard("StreamStarted")' THEN startedAt' ELSE 0
    BY <1>2, <1>3, <1>4, <1>5, <1>6 DEF RowInv
  <1>10. row'.fundedWei = IF Heard("Deposited")' THEN deposited' ELSE 0
    BY <1>2, <1>3, <1>4, <1>5, <1>6 DEF RowInv
  <1>11. row'.status = "canceled" => Heard("StreamCanceled")'
    BY <1>2, <1>5, <1>6 DEF RowInv
  <1>12. Heard("StreamCanceled")' \/
           (row'.settledSeconds = invoiced'.seconds /\ row'.settledWei = invoiced'.amount)
    BY <1>2, <1>5, <1>6, <1>7 DEF RowInv
  <1>13. Heard("StreamPaused")' \/ row'.pausedAt = 0
    BY <1>2, <1>5, <1>6 DEF RowInv
  <1>14. \/ latest' = 0 /\ row'.status = "incomplete" /\ \A m \in stored' : ~IsTurn(m)'
         \/ IsTurn(latest)' /\ latest' \in stored' /\ RowTells(logs[latest])'
    <2>1. CASE l.event \in Turns
      <3>1. latest' = n /\ logs'[latest'] = l
        BY <1>2, <1>3, <2>1 DEF l
      <3>2. RowTells(logs[latest])'
        BY <1>2, <1>6, <3>1 DEF RowTells, Turns
      <3>3. IsTurn(latest)'
        BY <1>3, <1>8, <2>1, <3>1 DEF IsTurn
      <3>4. QED
        BY <1>2, <3>1, <3>2, <3>3
    <2>2. CASE l.event \notin Turns
      <3>1. latest' = latest /\ row'.status = row.status /\ row'.pausedAt = row.pausedAt
        BY <1>1, <1>2, <1>6, <2>2 DEF Turns, Events
      <3>2. RowTells(logs[latest]) => RowTells(logs[latest])'
        BY <1>3, <3>1 DEF RowTells
      <3>3. IsTurn(latest) => IsTurn(latest)'
        BY <1>3, <3>1 DEF IsTurn
      <3>4. QED
        BY <1>2, <1>3, <1>8, <2>2, <3>1, <3>2, <3>3 DEF RowInv
    <2>3. QED
      BY <2>1, <2>2
  <1>15. QED
    BY <1>9, <1>10, <1>11, <1>12, <1>13, <1>14 DEF RowInv

LEMMA AppliesKeepsNaps ==
  ASSUME PipelineInv, HistoryInv, LogOrder, NapInv, NEW n \in 1 .. Len(logs), n \notin stored,
         NEW seen \in Nat, Applies(logs[n], seen), Observe(logs[n], seen), UNCHANGED <<chain, logs>>
  PROVE  NapInv'
  <1> DEFINE l == logs[n]
  <1>1. /\ l \in LogRecords /\ l.n = n /\ row \in RowRecords /\ LogInv /\ logs \in Seq(LogRecords)
        /\ l.at \in Nat /\ \A i \in 1 .. Len(logs) : logs[i].at \in Nat
    <2>1. \A i \in 1 .. Len(logs) : logs[i] \in LogRecords /\ logs[i].n = i
      BY ElementOfSeq DEF PipelineInv, LogInv
    <2>2. QED
      BY <2>1 DEF PipelineInv, DbTypeOK, LogRecords, LogInv
  <1>2. stored' = stored \cup {n} /\ row' = RowAfter(row, l, seen) /\ logs' = logs
    BY <1>1 DEF Applies
  <1>3. UNCHANGED <<status, SleptBefore>>
    BY DEF chain, vars, lifecycle, observed, SleptBefore
  <1>4. /\ Naps(logs) \in [1 .. Len(logs) -> Nat] /\ Len(logs) \in Nat
        /\ l.event # "StreamResumed" => Naps(logs)[n] = 0
        /\ \A p : l.event = "StreamResumed" /\ Ended(logs, p, n) =>
             Naps(logs)[n] = l.at - logs[p].at
    BY <1>1, NapsType, LenProperties DEF LogInv, NapInv
  <1>5. ASSUME ~misread', status' # "Canceled"
        PROVE  Pending(Len(logs), Naps(logs), stored', SleptBefore' - row'.pausedSeconds)
    <2>1. ~misread /\ (l.event = "StreamResumed" => seen = PauseOf(l))
      BY <1>5 DEF Observe
    <2>2. Pending(Len(logs), Naps(logs), stored, SleptBefore - row.pausedSeconds)
      BY <1>3, <1>5, <2>1 DEF NapInv
    <2>3. Pending(Len(logs), Naps(logs), stored', (SleptBefore - row.pausedSeconds) - Naps(logs)[n])
      BY <1>2, <1>4, <2>2, PendingApplied
    <2>4. row'.pausedSeconds = row.pausedSeconds + Naps(logs)[n]
      <3>1. CASE l.event = "StreamResumed"
        <4>1. PICK p : Ended(logs, p, n)
          BY <3>1 DEF NapInv
        <4>2. p \in 1 .. Len(logs) /\ logs[p].at # 0 /\ logs[p].at <= l.at /\ logs[p].at \in Nat
          BY <1>1, <1>4, <4>1 DEF Ended, LogOrder
        <4>3. Naps(logs)[n] = l.at - logs[p].at
          BY <1>4, <3>1, <4>1
        <4>4. Naps(logs)[n] = l.at - seen
          BY <2>1, <3>1 DEF Naps, PauseOf, PauseAt
        <4>5. seen = logs[p].at
          BY <1>1, <4>2, <4>3, <4>4
        <4>6. row'.pausedSeconds =
                row.pausedSeconds + (IF seen # 0 /\ l.at > seen THEN l.at - seen ELSE 0)
          BY <1>1, <1>2, <3>1, RowChanges
        <4>7. Naps(logs)[n] = IF seen # 0 /\ l.at > seen THEN l.at - seen ELSE 0
          BY <1>1, <4>2, <4>3, <4>5
        <4>8. QED
          BY <4>6, <4>7
      <3>2. CASE l.event # "StreamResumed"
        <4>1. row'.pausedSeconds = row.pausedSeconds
          BY <1>1, <1>2, <3>2, RowChanges
        <4>2. row.pausedSeconds \in Nat
          BY <1>1 DEF RowRecords
        <4>3. QED
          BY <1>4, <3>2, <4>1, <4>2
      <3>3. QED
        BY <3>1, <3>2
    <2>5. SleptBefore \in Int /\ row.pausedSeconds \in Nat /\ Naps(logs)[n] \in Nat
      <3>1. now \in Nat /\ slept \in Nat /\ pausedAt \in Nat
        BY DEF PipelineInv, IInv, TypeOK
      <3>2. QED
        BY <1>1, <1>4, <3>1 DEF SleptBefore, RowRecords
    <2>6. (SleptBefore - row.pausedSeconds) - Naps(logs)[n] = SleptBefore' - row'.pausedSeconds
      <3>1. PICK a \in Int, b \in Nat, c \in Nat :
              a = SleptBefore /\ b = row.pausedSeconds /\ c = Naps(logs)[n]
        BY <2>5
      <3>2. (a - b) - c = a - (b + c)
        OBVIOUS
      <3>3. QED
        BY <1>3, <2>4, <3>1, <3>2
    <2>7. QED
      BY <2>3, <2>6
  <1>6. QED
    BY <1>2, <1>5 DEF NapInv

(* A canceled row runs again only for a log of before the end.             *)
LEMMA AppliesRevives ==
  ASSUME PipelineInv, LogOrder, RowInv, NEW n \in 1 .. Len(logs), n \notin stored,
         NEW seen \in Nat, Applies(logs[n], seen), row.status = "canceled", row'.status # "canceled"
  PROVE  \E m \in stored' \ stored, end \in stored :
           logs[m].event \in Turns /\ m < end /\ logs[end].event = "StreamCanceled"
  <1>1. logs[n] \in LogRecords /\ logs[n].n = n /\ row \in RowRecords /\ Len(logs) \in Nat
    BY ElementOfSeq, LenProperties DEF PipelineInv, LogInv, DbTypeOK
  <1>2. n \in stored' \ stored
    BY <1>1 DEF Applies
  <1>3. logs[n].event \in Turns
    BY <1>1, RowChanges DEF Applies, Turns
  <1>4. PICK end \in stored : logs[end].event = "StreamCanceled"
    BY DEF RowInv, Heard
  <1>5. end \in 1 .. Len(logs) /\ n <= end /\ n # end
    BY <1>4 DEF PipelineInv, DeliveryInv, LogOrder
  <1>6. QED
    BY <1>2, <1>3, <1>4, <1>5

-----------------------------------------------------------------------------
(* The steps of the indexer, of ingest and of reconcile.                   *)

Overtaken ==
  row.status = "canceled" /\ row'.status # "canceled" =>
    \E n \in stored' \ stored, end \in stored :
      logs[n].event \in Turns /\ n < end /\ logs[end].event = "StreamCanceled"

LEMMA AppliesKeepsOrder ==
  ASSUME OrderInv, PipelineInv', HistoryInv', NEW n \in 1 .. Len(logs), n \notin stored,
         NEW seen \in Nat, Applies(logs[n], seen), Observe(logs[n], seen), UNCHANGED <<chain, logs>>
  PROVE  OrderInv' /\ Overtaken
  BY LogOrderStays, AppliesKeepsRow, AppliesKeepsNaps, AppliesRevives DEF OrderInv, Overtaken

LEMMA OthersKeepOrder ==
  ASSUME OrderInv, PipelineInv', UNCHANGED <<chain, logs, stored, invoiced, history>>,
         row' = row \/ \E tx \in Nat : row' = [row EXCEPT !.pendingTx = tx]
  PROVE  OrderInv' /\ Overtaken
  <1>1. /\ row' \in RowRecords /\ row \in RowRecords
        /\ row'.status = row.status /\ row'.pausedAt = row.pausedAt
        /\ row'.pausedSeconds = row.pausedSeconds /\ row'.startedAt = row.startedAt
        /\ row'.fundedWei = row.fundedWei /\ row'.settledSeconds = row.settledSeconds
        /\ row'.settledWei = row.settledWei
    <2>1. row \in RowRecords
      BY DEF OrderInv, PipelineInv, DbTypeOK
    <2>2. QED
      BY <2>1 DEF RowRecords
  <1>2. /\ UNCHANGED <<status, startedAt, deposited, pausedAt, slept, now, logs, stored, invoiced>>
        /\ UNCHANGED <<latest, misread>>
    BY DEF chain, vars, lifecycle, observed, history
  <1>3. LogOrder'
    BY LogOrderStays DEF OrderInv
  <1>4. RowInv'
    <2>1. \A event : Heard(event)' <=> Heard(event)
      BY <1>2 DEF Heard
    <2>2. (\A n : IsTurn(n)' <=> IsTurn(n)) /\ (RowTells(logs[latest])' <=> RowTells(logs[latest]))
      BY <1>1, <1>2 DEF IsTurn, RowTells
    <2>3. IsTurn(latest)' <=> IsTurn(latest)
      BY <1>2 DEF IsTurn
    <2>4. RowInv
      BY DEF OrderInv
    <2>5. QED
      BY <1>1, <1>2, <2>1, <2>2, <2>3, <2>4 DEF RowInv
  <1>5. NapInv'
    <2>1. SleptBefore' = SleptBefore
      BY <1>2 DEF SleptBefore
    <2>2. QED
      BY <1>1, <1>2, <2>1 DEF OrderInv, NapInv
  <1>6. HistoryInv'
    BY <1>2 DEF OrderInv, HistoryInv
  <1>7. QED
    BY <1>1, <1>3, <1>4, <1>5, <1>6 DEF OrderInv, Overtaken

LEMMA NextOrderInv ==
  ASSUME OrderInv, [PipelineNext]_allVars
  PROVE  OrderInv' /\ Overtaken
  <1>1. PipelineInv /\ PipelineInv' /\ HistoryInv'
    BY NextPipelineInv, HistoryKept DEF OrderInv
  <1>2. CASE StartSession \/ UseStream \/ PassTime
    <2>1. ChainStep /\ Emit
      BY <1>2 DEF StartSession, UseStream, PassTime, ChainStep
    <2>2. row' = row
      BY <2>1 DEF Emit, db
    <2>3. QED
      BY <2>1, <2>2, EmitKeepsOrder DEF Overtaken
  <1>3. CASE WritePendingTx
    <2>1. logs[1].tx \in Nat
      <3>1. logs \in Seq(LogRecords) /\ logs # << >>
        BY <1>1, <1>3 DEF PipelineInv, LogInv, WritePendingTx
      <3>2. 1 \in 1 .. Len(logs)
        BY <3>1, EmptySeq, LenProperties
      <3>3. logs[1] \in LogRecords
        BY <3>1, <3>2, ElementOfSeq
      <3>4. QED
        BY <3>3 DEF LogRecords
    <2>2. UNCHANGED <<chain, logs, stored, invoiced, history>> /\ row' = [row EXCEPT !.pendingTx = logs[1].tx]
      BY <1>3 DEF WritePendingTx, RecordPendingTx
    <2>3. QED
      BY <1>1, <2>1, <2>2, OthersKeepOrder
  <1>4. CASE TakeBatch
    BY <1>1, <1>4, OthersKeepOrder DEF TakeBatch, db
  <1>5. ASSUME NEW n \in open, LosePost(n) \/ RefusePost(n) \/ Post(n) \/ GiveUp(n)
        PROVE  OrderInv' /\ Overtaken
    <2>1. UNCHANGED <<chain, logs, row, stored, invoiced, history>>
      BY <1>5 DEF LosePost, RefusePost, Post, GiveUp, db
    <2>2. QED
      BY <1>1, <2>1, OthersKeepOrder
  <1>6. ASSUME NEW t \in writing, CommitPost(t)
        PROVE  OrderInv' /\ Overtaken
    <2>1. CASE t.found
      <3>1. /\ t.log.n \in 1 .. Len(logs) /\ t.log = logs[t.log.n] /\ t.log.n \notin stored
            /\ t.pausedAt \in Nat
        BY <1>1 DEF PipelineInv, DeliveryInv
      <3>2. /\ Applies(t.log, t.pausedAt) /\ Observe(t.log, t.pausedAt)
            /\ UNCHANGED <<chain, logs>>
        BY <1>6, <2>1 DEF CommitPost, Commit
      <3>3. QED
        BY <1>1, <3>1, <3>2, AppliesKeepsOrder
    <2>2. CASE ~t.found
      <3>1. UNCHANGED <<chain, logs, row, stored, invoiced, history>>
        BY <1>6, <2>2 DEF CommitPost, Commit, Ignores
      <3>2. QED
        BY <1>1, <3>1, OthersKeepOrder
    <2>3. QED
      BY <2>1, <2>2
  <1>7. ASSUME NEW t \in writing, AbortPost(t)
        PROVE  OrderInv' /\ Overtaken
    <2>1. UNCHANGED <<chain, logs, row, stored, invoiced, history>>
      BY <1>7 DEF AbortPost, Abort
    <2>2. QED
      BY <1>1, <2>1, OthersKeepOrder
  <1>8. CASE ReconcileLog
    <2> DEFINE n == Min(replay)
    <2>1. n \in 1 .. Len(logs) /\ logs[n].n = n
      <3>1. replay \in SUBSET Nat /\ replay # {} /\ replay \subseteq 1 .. Len(logs)
        BY <1>1, <1>8 DEF PipelineInv, DeliveryInv, ReconcileLog
      <3>2. n \in 1 .. Len(logs)
        BY <3>1, LeastOf
      <3>3. QED
        BY <1>1, <3>2 DEF PipelineInv, LogInv
    <2>2. /\ UNCHANGED <<chain, logs>>
          /\ \/ UNCHANGED <<db, history>>
             \/ /\ ~Known(logs[n]) /\ Applies(logs[n], row.pausedAt)
                /\ Observe(logs[n], row.pausedAt)
      BY <1>8 DEF ReconcileLog
    <2> HIDE DEF n
    <2>3. CASE UNCHANGED <<db, history>>
      <3>1. UNCHANGED <<chain, logs, row, stored, invoiced, history>>
        BY <2>2, <2>3 DEF db
      <3>2. QED
        BY <1>1, <3>1, OthersKeepOrder
    <2>4. CASE /\ ~Known(logs[n]) /\ Applies(logs[n], row.pausedAt)
               /\ Observe(logs[n], row.pausedAt)
      <3>1. n \notin stored /\ row.pausedAt \in Nat
        BY <1>1, <2>1, <2>4 DEF Known, PipelineInv, DbTypeOK, RowRecords
      <3>2. QED
        BY <1>1, <2>1, <2>2, <2>4, <3>1, AppliesKeepsOrder
    <2>5. QED
      BY <2>2, <2>3, <2>4
  <1>9. CASE StartReconcile \/ ReconcileFails
    <2>1. UNCHANGED <<chain, logs, row, stored, invoiced, history>>
      BY <1>9 DEF StartReconcile, ReconcileFails, db
    <2>2. QED
      BY <1>1, <2>1, OthersKeepOrder
  <1>10. CASE UNCHANGED allVars
    <2>1. UNCHANGED <<chain, logs, row, stored, invoiced, history>>
      BY <1>10 DEF allVars, db
    <2>2. QED
      BY <1>1, <2>1, OthersKeepOrder
  <1>11. QED
    BY <1>2, <1>3, <1>4, <1>5, <1>6, <1>7, <1>8, <1>9, <1>10 DEF PipelineNext

LEMMA InitOrderInv == PipelineInit => OrderInv
  <1> SUFFICES ASSUME PipelineInit PROVE OrderInv
    OBVIOUS
  <1>1. PipelineInv
    BY InitPipelineInv
  <1>2. /\ logs = << >> /\ Len(logs) = 0 /\ stored = {} /\ status = "None" /\ startedAt = 0
        /\ slept = 0 /\ latest = 0 /\ misread = FALSE
        /\ invoiced.seconds = 0 /\ invoiced.amount = 0
        /\ row.status = "incomplete" /\ row.startedAt = 0 /\ row.fundedWei = 0
        /\ row.settledSeconds = 0 /\ row.settledWei = 0
        /\ row.pausedAt = 0 /\ row.pausedSeconds = 0
    BY DEF PipelineInit, IngestInit, Init
  <1>3. LogOrder
    BY <1>2 DEF LogOrder, IsTurn
  <1>4. RowInv
    BY <1>2 DEF RowInv, Heard
  <1>5. NapInv
    <2>1. SleptBefore - row.pausedSeconds = 0
      BY <1>2 DEF SleptBefore
    <2>2. Pending(Len(logs), Naps(logs), stored, SleptBefore - row.pausedSeconds)
      BY <1>2, <2>1, PendingOfNone
    <2>3. QED
      BY <1>2, <2>2 DEF NapInv
  <1>6. QED
    BY <1>1, <1>2, <1>3, <1>4, <1>5 DEF OrderInv, HistoryInv

-----------------------------------------------------------------------------
(* It says what the properties say.                                        *)

LEMMA NewestIs ==
  ASSUME OrderInv
  PROVE  /\ NewestTurn = 0 => \A n : ~IsTurn(n)
         /\ NewestTurn # 0 => IsTurn(NewestTurn) /\ \A n : IsTurn(n) => n <= NewestTurn
  <1> DEFINE S == {0} \cup {n \in DOMAIN logs : logs[n].event \in Turns}
  <1>1. Len(logs) \in Nat /\ DOMAIN logs = 1 .. Len(logs)
    BY LenProperties DEF OrderInv, PipelineInv, LogInv
  <1>2. S \in SUBSET (0 .. Len(logs)) /\ 0 \in S
    BY <1>1
  <1>3. Max(S) \in S /\ \A y \in S : Max(S) >= y
    BY <1>1, <1>2, GreatestOf
  <1>4. \A n : IsTurn(n) <=> n \in S /\ n # 0
    BY <1>1 DEF IsTurn
  <1>5. \A n \in S : n \in Nat
    BY <1>1, <1>2
  <1>6. NewestTurn = Max(S)
    BY DEF NewestTurn
  <1> HIDE DEF S
  <1>7. QED
    BY <1>3, <1>4, <1>5, <1>6

LEMMA OrderGivesNewest ==
  ASSUME OrderInv, latest = NewestTurn
  PROVE  /\ row.status = StatusOnChain
         /\ row.status # "canceled" => row.pausedAt = pausedAt
  <1>1. PipelineInv /\ LogOrder /\ RowInv /\ LogInv /\ DeliveryInv
    BY DEF OrderInv, PipelineInv
  <1>2. /\ status \in {"None", "Created", "Active", "Paused", "Canceled"}
        /\ status \in {"None", "Created", "Active"} => pausedAt = 0
    BY <1>1 DEF PipelineInv, IInv, TypeOK, ClockInv
  <1>3. Len(logs) \in Nat
    BY <1>1, LenProperties DEF LogInv
  <1>4. CASE latest = 0
    <2>1. \A n : ~IsTurn(n)
      BY <1>4, NewestIs
    <2>2. status \in {"None", "Created"} /\ pausedAt = 0
      BY <1>1, <1>2, <2>1 DEF LogOrder
    <2>3. row.status = "incomplete"
      BY <1>1, <2>1 DEF RowInv
    <2>4. ~Heard("StreamPaused")
      BY <1>1, <2>1 DEF Heard, IsTurn, Turns, DeliveryInv
    <2>5. row.pausedAt = 0
      BY <1>1, <2>4 DEF RowInv
    <2>6. QED
      BY <2>2, <2>3, <2>5 DEF StatusOnChain
  <1>5. CASE latest # 0
    <2>1. IsTurn(latest) /\ \A n : IsTurn(n) => n <= latest
      BY <1>5, NewestIs
    <2>2. RowTells(logs[latest])
      BY <1>1, <1>5 DEF RowInv
    <2>3. Tells(logs[latest])
      <3>1. PICK n : IsTurn(n) /\ Tells(logs[n]) /\ \A m : IsTurn(m) => m <= n
        BY <1>1, <2>1 DEF LogOrder
      <3>2. n \in Nat /\ latest \in Nat /\ n <= latest /\ latest <= n
        BY <1>3, <2>1, <3>1 DEF IsTurn
      <3>3. n = latest
        BY <3>2
      <3>4. QED
        BY <3>1, <3>3
    <2>4. logs[latest].event \in Turns
      BY <2>1 DEF IsTurn
    <2>5. CASE logs[latest].event = "StreamStarted"
      <3>1. ~Heard("StreamPaused")
        <4>1. ASSUME NEW i \in stored, logs[i].event = "StreamPaused" PROVE FALSE
          <5>1. IsTurn(i) /\ i \in 1 .. Len(logs) /\ latest \in 1 .. Len(logs)
            BY <1>1, <2>1, <4>1 DEF IsTurn, Turns, DeliveryInv
          <5>2. i <= latest /\ latest <= i
            BY <1>1, <2>1, <2>5, <5>1 DEF LogOrder, IsTurn
          <5>3. i = latest
            BY <1>3, <5>1, <5>2
          <5>4. QED
            BY <2>5, <4>1, <5>3
        <4>2. QED
          BY <4>1 DEF Heard
      <3>2. row.pausedAt = 0 /\ row.status = "active" /\ status = "Active"
        BY <1>1, <2>2, <2>3, <2>5, <3>1 DEF RowInv, RowTells, Tells
      <3>3. QED
        BY <1>2, <3>2 DEF StatusOnChain
    <2>6. CASE logs[latest].event = "StreamPaused"
      BY <2>2, <2>3, <2>6 DEF RowTells, Tells, StatusOnChain
    <2>7. CASE logs[latest].event = "StreamResumed"
      BY <1>2, <2>2, <2>3, <2>7 DEF RowTells, Tells, StatusOnChain
    <2>8. CASE logs[latest].event = "StreamCanceled"
      BY <2>2, <2>3, <2>8 DEF RowTells, Tells, StatusOnChain
    <2>9. QED
      BY <2>4, <2>5, <2>6, <2>7, <2>8 DEF Turns
  <1>6. QED
    BY <1>4, <1>5

LEMMA OrderGivesMoney ==
  ASSUME OrderInv, latest = NewestTurn, Complete
  PROVE  RowHasMoney /\ status # "None"
  <1>1. PipelineInv /\ LogOrder /\ RowInv /\ LogInv
    BY DEF OrderInv, PipelineInv
  <1>2. stored = 1 .. Len(logs) /\ logs # << >> /\ logs \in Seq(LogRecords)
    BY <1>1, LenProperties DEF Complete, LogInv
  <1>3. status # "None"
    <2>1. Len(logs) # 0
      BY <1>2, EmptySeq
    <2>2. QED
      BY <1>1, <2>1 DEF LogInv
  <1>4. row.startedAt = startedAt
    BY <1>1, <1>2 DEF RowInv, LogOrder, Heard
  <1>5. row.fundedWei = deposited
    BY <1>1, <1>2, <1>3 DEF RowInv, LogOrder, Heard
  <1>6. invoiced.seconds = settledSeconds /\ invoiced.amount = settledAmount
    BY <1>1, InvGivesBooks DEF BooksMatchChain
  <1>7. row.settledSeconds = settledSeconds /\ row.settledWei = settledAmount
    <2>1. CASE row.status = "canceled"
      BY <1>1, <2>1 DEF PipelineInv, OutcomeInv
    <2>2. CASE row.status # "canceled"
      <3>1. status # "Canceled"
        BY <2>2, OrderGivesNewest DEF StatusOnChain
      <3>2. ~Heard("StreamCanceled")
        BY <1>1, <1>2, <3>1 DEF Heard, LogInv
      <3>3. QED
        BY <1>1, <1>6, <3>2 DEF RowInv
    <2>3. QED
      BY <2>1, <2>2
  <1>8. QED
    BY <1>3, <1>4, <1>5, <1>7 DEF RowHasMoney

LEMMA OrderGivesFollows == OrderInv => RowFollowsNewestTurn
  BY OrderGivesNewest, OrderGivesMoney DEF RowFollowsNewestTurn

LEMMA OrderGivesSeconds == OrderInv => SecondsUnlessMisread
  <1> SUFFICES ASSUME OrderInv, Complete, latest = NewestTurn, misread => status = "Canceled"
               PROVE  SecondsElapsed(now) =
                        (IF status = "Canceled" THEN settledSeconds ELSE accruedSeconds)
    BY DEF SecondsUnlessMisread
  <1>1. PipelineInv /\ LogInv /\ NapInv /\ HistoryInv
    BY DEF OrderInv, PipelineInv
  <1>2. /\ status # "None" /\ row.status = StatusOnChain
        /\ row.status # "canceled" => row.pausedAt = pausedAt
        /\ row.startedAt = startedAt /\ row.settledSeconds = settledSeconds
    BY OrderGivesNewest, OrderGivesMoney DEF RowHasMoney
  <1>3. /\ status \in {"Created", "Active", "Paused", "Canceled"}
        /\ now \in Nat /\ startedAt \in Nat /\ pausedAt \in Nat /\ segmentStart \in Nat
        /\ closedActiveSeconds \in Nat /\ ran \in Nat /\ slept \in Nat
    BY <1>1, <1>2 DEF PipelineInv, IInv, TypeOK
  <1>4. row.pausedSeconds \in Nat /\ row.pausedAt \in Nat /\ MaxDuration \in Nat \ {0}
    BY <1>1, IngestAssumption DEF PipelineInv, DbTypeOK, RowRecords
  <1>5. Live => accruedSeconds = AtMost(ran, MaxDuration)
    <2>1. maxSeconds = MaxDuration
      BY <1>1, <1>2, CapIsMaxDuration DEF PipelineInv, LogInv
    <2>2. QED
      BY <1>1, <2>1 DEF PipelineInv, IInv, OnlyTimeRunIsBilled
  <1>6. status # "Canceled" => SleptBefore - row.pausedSeconds = 0
    <2>1. ASSUME status # "Canceled" PROVE SleptBefore - row.pausedSeconds = 0
      <3>1. Pending(Len(logs), Naps(logs), stored, SleptBefore - row.pausedSeconds)
        BY <1>1, <2>1 DEF NapInv, HistoryInv
      <3>2. 1 .. Len(logs) \subseteq stored /\ Len(logs) \in Nat
        BY <1>1, LenProperties DEF Complete, LogInv
      <3>3. QED
        BY <3>1, <3>2, PendingAllDone
    <2>2. QED
      BY <2>1
  <1>7. CASE status = "Canceled"
    BY <1>2, <1>7 DEF SecondsElapsed, StatusOnChain
  <1>8. CASE status = "Created"
    <2>1. row.status = "incomplete" /\ startedAt = 0 /\ ran = 0
      BY <1>1, <1>2, <1>8 DEF StatusOnChain, PipelineInv, IInv, ClockInv
    <2>2. SecondsElapsed(now) = 0
      BY <1>2, <2>1 DEF SecondsElapsed
    <2>3. accruedSeconds = 0
      BY <1>4, <1>5, <1>8, <2>1 DEF Live, AtMost
    <2>4. QED
      BY <1>8, <2>2, <2>3
  <1>9. CASE status = "Active"
    <2>1. row.status = "active"
      BY <1>2, <1>9 DEF StatusOnChain
    <2>1a. slept = row.pausedSeconds
      BY <1>3, <1>4, <1>6, <1>9 DEF SleptBefore
    <2>2. startedAt # 0 /\ now - startedAt - slept = ran
      BY <1>1, <1>3, <1>9 DEF PipelineInv, IInv, ClockInv
    <2>3. row.startedAt # 0 /\ now - row.startedAt - row.pausedSeconds - 0 = ran
      BY <1>2, <1>3, <1>4, <2>1a, <2>2
    <2>4. SecondsElapsed(now) = AtMost(ran, MaxDuration)
      BY <1>3, <1>4, <2>1, <2>3 DEF SecondsElapsed, AtMost
    <2>5. QED
      BY <1>5, <1>9, <2>4 DEF Live
  <1>10. CASE status = "Paused"
    <2>1. row.status = "paused" /\ row.pausedAt = pausedAt
      BY <1>2, <1>10 DEF StatusOnChain
    <2>1a. slept = row.pausedSeconds + (now - pausedAt)
      BY <1>3, <1>4, <1>6, <1>10 DEF SleptBefore
    <2>1b. pausedAt # 0
      <3>1. PICK n : IsTurn(n) /\ Tells(logs[n])
        BY <1>10 DEF OrderInv, LogOrder
      <3>2. logs[n].event = "StreamPaused" /\ logs[n].at = pausedAt /\ n \in 1 .. Len(logs)
        BY <1>10, <3>1 DEF IsTurn, Tells, Turns
      <3>3. QED
        BY <3>2 DEF OrderInv, LogOrder
    <2>2. startedAt # 0 /\ now - startedAt - slept = ran
      BY <1>1, <1>3, <1>10 DEF PipelineInv, IInv, ClockInv
    <2>3. /\ row.startedAt # 0
          /\ now - row.startedAt - row.pausedSeconds - (now - row.pausedAt) = ran
      BY <1>2, <1>3, <1>4, <2>1, <2>1a, <2>2
    <2>4. SecondsElapsed(now) = AtMost(ran, MaxDuration)
      BY <1>3, <1>4, <2>1, <2>1b, <2>3 DEF SecondsElapsed, AtMost
    <2>5. QED
      BY <1>5, <1>10, <2>4 DEF Live
  <1>11. QED
    BY <1>3, <1>7, <1>8, <1>9, <1>10

-----------------------------------------------------------------------------
(* The theorems: in every order of the logs, whatever the batches of the   *)
(* indexer and whenever reconcile runs.                                    *)

(* Whatever is lost, retried, overtaken or replayed, the inductive         *)
(* invariant holds: the newest turn among the logs tells the state of the  *)
(* stream, the turn applied last that of the row, and as long as every     *)
(* resume read its pause, the row lacks the pauses of the logs that are    *)
(* still to come and no other.                                             *)
THEOREM OrderInvariance == PipelineSpec => []OrderInv
  <1>1. PipelineInit => OrderInv
    BY InitOrderInv
  <1>2. OrderInv /\ [PipelineNext]_allVars => OrderInv'
    BY NextOrderInv
  <1>3. QED
    BY <1>1, <1>2, PTL DEF PipelineSpec

(* The row has the status and the pause of the stream whenever the turn    *)
(* applied last is the newest, and with every log in its money too         *)
(* (applyLog, ingest.ts:83-178).                                           *)
THEOREM RowFollows == PipelineSpec => []RowFollowsNewestTurn
  <1>1. OrderInv => RowFollowsNewestTurn
    BY OrderGivesFollows
  <1>2. QED
    BY <1>1, OrderInvariance, PTL

(* With every log in and the newest turn applied last, seconds_elapsed of  *)
(* the wire object is what accrued on the contract at that second, if each *)
(* resume read the pause it ended (applyLog, ingest.ts:140-145).           *)
THEOREM SecondsFollow == PipelineSpec => []SecondsUnlessMisread
  <1>1. OrderInv => SecondsUnlessMisread
    BY OrderGivesSeconds
  <1>2. QED
    BY <1>1, OrderInvariance, PTL

(* A canceled row runs again only at the first storing of a turn of before *)
(* the end: no retry, duplicate, replay or late chunk revives it.          *)
THEOREM RevivedByOvertaken == PipelineSpec => OnlyOvertakenRevives
  <1>1. OrderInv /\ [PipelineNext]_allVars =>
          [row.status = "canceled" /\ row'.status # "canceled" =>
             \E n \in stored' \ stored, end \in stored :
               /\ logs[n].event \in Turns /\ n < end
               /\ logs[end].event = "StreamCanceled"]_allVars
    BY NextOrderInv DEF Overtaken
  <1>2. QED
    BY <1>1, OrderInvariance, PTL DEF PipelineSpec, OnlyOvertakenRevives

=============================================================================
