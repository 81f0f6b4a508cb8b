------------------------------- MODULE Indexer -------------------------------
(***************************************************************************)
(* From the chain to the platform's database: a stream created by          *)
(* checkout emits logs (AccrualStream.sol), the indexer posts them         *)
(* (indexer/src), the platform ingests them (Ingest) and the worker's      *)
(* reconcile pass repairs what was lost (api/src/worker/reconcile.ts).     *)
(*                                                                         *)
(* The indexer takes the logs in chain order, a batch at a time; the posts *)
(* of a batch run concurrently, fail, time out and are retried, and the    *)
(* next batch waits until each one was answered or given up.               *)
(***************************************************************************)
EXTENDS StreamFactory, Ingest, Sequences, FiniteSetsExt, TLC

CONSTANTS
  Together(_, _),   (* Whether two logs fall in one batch.                 *)
  AtHead,           (* TRUE: reconcile only runs with the indexer at head. *)
  MaxTries,         (* Posts of one log before the indexer gives up.       *)
  MaxLogs,          (* Bound on the logs of the stream.                    *)
  MaxFaults         (* Bound on failed posts, transactions and passes.     *)

ASSUME IndexerAssumption ==
  /\ MaxEscrow = Rate * MaxDuration
  /\ AtHead \in BOOLEAN
  /\ MaxTries \in Nat \ {0} /\ MaxLogs \in Nat /\ MaxFaults \in Nat

VARIABLES
  logs,      (* Every log of the stream, in chain order.                   *)
  taken,     (* How many of them the indexer has taken.                    *)
  open,      (* Those of the current batch that were not answered yet.     *)
  tries,     (* Posts made for each of them.                               *)
  replay,    (* Logs a running reconcile pass has still to ingest.         *)
  faults,    (* Failures so far.                                           *)
  latest,    (* Observed: the turn of the stream that was applied last,    *)
  misread    (* and whether a resume did not read the pause it ended.      *)

chain    == vars
delivery == <<taken, open, tries>>
history  == <<latest, misread>>
allVars  == <<chain, db, logs, delivery, replay, faults, history>>

-----------------------------------------------------------------------------
(* The logs a step of the stream emits, in the order of the contract.      *)

When(condition, l) == IF condition THEN <<l>> ELSE <<>>

(* What an event does not carry is 0.                                      *)
Log(event) ==
  [event |-> event, n |-> 0, tx |-> Len(logs) + 1, block |-> now, at |-> 0,
   amount |-> 0, total |-> 0, seconds |-> 0, fee |-> 0,
   secondsElapsed |-> 0, amountSettled |-> 0, amountRefunded |-> 0]

DepositedLog == [Log("Deposited") EXCEPT !.amount = deposited' - deposited, !.total = deposited']

SettledLog ==
  [Log("Settled") EXCEPT !.seconds = settledSeconds' - settledSeconds,
                         !.amount = settledAmount' - settledAmount,
                         !.fee = settledFee' - settledFee]

CanceledLog ==
  [Log("StreamCanceled") EXCEPT !.at = pausedAt', !.secondsElapsed = closedActiveSeconds',
                                !.amountSettled = settledAmount',
                                !.amountRefunded = toSubscriber' - toSubscriber]

Emitted ==
     When(status = "None" /\ status' # "None", Log("StreamCreated"))
  \o When(deposited' > deposited, DepositedLog)
  \o When(startedAt' # startedAt, [Log("StreamStarted") EXCEPT !.at = startedAt'])
  \o When(status = "Active" /\ status' = "Paused", [Log("StreamPaused") EXCEPT !.at = now])
  \o When(status = "Paused" /\ status' = "Active", [Log("StreamResumed") EXCEPT !.at = now])
  \o When(settledSeconds' > settledSeconds, SettledLog)
  \o When(status # "Canceled" /\ status' = "Canceled", CanceledLog)

Numbered(s) == [i \in DOMAIN s |-> [s[i] EXCEPT !.n = Len(logs) + i]]

Emit ==
  /\ logs' = logs \o Numbered(Emitted)
  /\ Len(logs') <= MaxLogs
  /\ UNCHANGED <<db, delivery, replay, faults, history>>

(* startSession sends createWithPermit or its no-start twin by start mode. *)
StartSession ==
  /\ \/ startMode = "checkout" /\ CreateWithPermit
     \/ startMode = "merchant" /\ CreateWithPermitNoStart
  /\ Emit

UseStream == StreamCall /\ UNCHANGED <<platformFeeBps, platformTreasury>> /\ Emit

PassTime == \E d \in Steps : Tick(d) /\ UNCHANGED <<platformFeeBps, platformTreasury>> /\ Emit

WritePendingTx ==
  /\ logs # <<>>
  /\ RecordPendingTx(logs[1].tx)
  /\ UNCHANGED <<chain, logs, delivery, replay, faults, history>>

-----------------------------------------------------------------------------
(* The indexer.                                                            *)

Batch == {n \in taken + 1 .. Len(logs) :
            \A m \in taken + 1 .. n : Together(logs[taken + 1], logs[m])}

(* Wrong: one log more is counted than was taken.                          *)
TakeBatchPastEnd ==
  /\ open = {} /\ Batch # {}
  /\ open' = Batch /\ taken' = Max(Batch) + 1
  /\ tries' = [n \in Batch |-> 0]
  /\ UNCHANGED <<chain, db, logs, replay, faults, history>>

(* Wrong: the next batch does not wait for the answers of the last one.    *)
TakeBatchEarly ==
  /\ Batch # {}
  /\ open' = open \cup Batch /\ taken' = Max(Batch)
  /\ tries' = [n \in Batch |-> 0] @@ tries
  /\ UNCHANGED <<chain, db, logs, replay, faults, history>>

TakeBatch ==
  /\ open = {} /\ Batch # {}
  /\ open' = Batch /\ taken' = Max(Batch)
  /\ tries' = [n \in Batch |-> 0]
  /\ UNCHANGED <<chain, db, logs, replay, faults, history>>

CanPost(n) == n \in open /\ tries[n] < MaxTries

Fault == faults < MaxFaults /\ faults' = faults + 1

Counted(n) == tries' = [tries EXCEPT ![n] = @ + 1]

(* The logs that start the stream, stop it for a while or end it.          *)
Turns == {"StreamStarted", "StreamPaused", "StreamResumed", "StreamCanceled"}

(* When the pause began that a resume ended.                               *)
PauseOf(l) ==
  logs[Max({m \in DOMAIN logs : m < l.n /\ logs[m].event = "StreamPaused"})].at

(* What is observed of a log that changes the row: nothing reads it but    *)
(* the properties.                                                         *)
Observe(l, seen) ==
  /\ latest' = IF l.event \in Turns THEN l.n ELSE latest
  /\ misread' = (misread \/ (l.event = "StreamResumed" /\ seen # PauseOf(l)))

(* A post that changes nothing: lost on its way, a 5xx, a lost reply.      *)
LosePost(n) ==
  /\ CanPost(n) /\ Fault /\ Counted(n)
  /\ UNCHANGED <<chain, db, logs, taken, open, replay, history>>

(* A 4xx ends the tries at once.                                           *)
RefusePost(n) ==
  /\ CanPost(n) /\ Fault /\ ~IsWriting(logs[n])
  /\ open' = open \ {n}
  /\ UNCHANGED <<chain, db, logs, taken, tries, replay, history>>

Post(n) ==
  /\ CanPost(n) /\ Counted(n)
  /\ \/ /\ Known(logs[n])
        /\ open' = open \ {n}
        /\ UNCHANGED db
     \/ /\ Begin(logs[n])
        /\ UNCHANGED <<startMode, row, stored, ignored, ledger, invoiced, events, open>>
  /\ UNCHANGED <<chain, logs, taken, replay, faults, history>>

(* The transaction commits; its answer arrives, or is lost on its way.     *)
CommitPost(t) ==
  /\ Commit(t)
  /\ \/ open' = open \ {t.log.n} /\ UNCHANGED faults
     \/ UNCHANGED open /\ Fault
  /\ IF t.found THEN Observe(t.log, t.pausedAt) ELSE UNCHANGED history
  /\ UNCHANGED <<chain, logs, taken, tries, replay>>

AbortPost(t) ==
  /\ Abort(t) /\ Fault
  /\ UNCHANGED <<chain, logs, delivery, replay, history>>

(* By then no transaction of the log is open: four posts and their waits   *)
(* last a minute, a transaction milliseconds.                              *)
GiveUp(n) ==
  /\ n \in open /\ tries[n] = MaxTries /\ ~IsWriting(logs[n])
  /\ open' = open \ {n}
  /\ UNCHANGED <<chain, db, logs, taken, tries, replay, faults, history>>

-----------------------------------------------------------------------------
(* The reconcile pass.                                                     *)

IndexerAtHead == taken = Len(logs) /\ open = {}

Running == row.status \in {"active", "paused"}

(* Wrong: the pass fetches the settlements and not the end.                *)
StartReconcileNoEnd ==
  /\ replay = {} /\ (AtHead => IndexerAtHead)
  /\ Running /\ row.streamAddress /\ status = "Canceled"
  /\ replay' = {n \in DOMAIN logs : logs[n].event = "Settled"}
  /\ UNCHANGED <<chain, db, logs, delivery, faults, history>>

StartReconcile ==
  /\ replay = {} /\ (AtHead => IndexerAtHead)
  /\ Running /\ row.streamAddress /\ status = "Canceled"
  /\ replay' = {n \in DOMAIN logs : logs[n].event \in {"Settled", "StreamCanceled"}}
  /\ UNCHANGED <<chain, db, logs, delivery, faults, history>>

(* Wrong: the pass does not look whether a log is known.                   *)
ReconcileLogBlindly ==
  /\ replay # {}
  /\ LET l == logs[Min(replay)]
     IN  /\ ~IsWriting(l)
         /\ replay' = replay \ {l.n}
         /\ Applies(l, row.pausedAt) /\ Observe(l, row.pausedAt)
         /\ UNCHANGED <<startMode, writing>>
  /\ UNCHANGED <<chain, logs, delivery, faults>>

(* The next log goes through the same ingest; a duplicate changes nothing. *)
ReconcileLog ==
  /\ replay # {}
  /\ LET l == logs[Min(replay)]
     IN  /\ ~IsWriting(l)
         /\ replay' = replay \ {l.n}
         /\ IF Known(l) THEN UNCHANGED <<db, history>>
            ELSE /\ Applies(l, row.pausedAt) /\ Observe(l, row.pausedAt)
                 /\ UNCHANGED <<startMode, writing>>
  /\ UNCHANGED <<chain, logs, delivery, faults>>

(* An error ends the pass for this stream.                                 *)
ReconcileFails ==
  /\ replay # {} /\ replay' = {} /\ Fault
  /\ UNCHANGED <<chain, db, logs, delivery, history>>

-----------------------------------------------------------------------------

PipelineInit ==
  /\ Init /\ IngestInit
  /\ logs = <<>> /\ taken = 0 /\ open = {} /\ tries = <<>> /\ replay = {} /\ faults = 0
  /\ latest = 0 /\ misread = FALSE

PipelineNext ==
  \/ StartSession \/ UseStream \/ PassTime \/ WritePendingTx
  \/ TakeBatch
  \/ \E n \in open : LosePost(n) \/ RefusePost(n) \/ Post(n) \/ GiveUp(n)
  \/ \E t \in writing : CommitPost(t) \/ AbortPost(t)
  \/ StartReconcile \/ ReconcileLog \/ ReconcileFails

PipelineSpec == PipelineInit /\ [][PipelineNext]_allVars

(* The indexer and the worker are loops; a transaction ends. The parties,  *)
(* the clock and the failures owe nothing.                                 *)
FairPipelineSpec ==
  /\ PipelineSpec
  /\ WF_allVars(TakeBatch)
  /\ WF_allVars(\E n \in open : Post(n) \/ GiveUp(n))
  /\ WF_allVars(\E t \in writing : CommitPost(t))
  /\ WF_allVars(StartReconcile) /\ WF_allVars(ReconcileLog)

-----------------------------------------------------------------------------
(* Properties.                                                             *)

(* Every variable of the platform side keeps its type; the totals and the  *)
(* timestamps of the row are never negative.                               *)
PipelineTypeOK ==
  /\ startMode \in {"checkout", "merchant"}
  /\ row.status \in {"incomplete", "active", "paused", "canceled"}
  /\ row.endedReason \in {"none", "canceled", "cap_reached"}
  /\ row.streamAddress \in BOOLEAN
  /\ \A f \in {"pendingTx", "startedAt", "pausedAt", "pausedSeconds", "fundedWei",
               "settledSeconds", "settledWei", "settledFeeWei"} : row[f] \in Nat
  /\ \A k \in DOMAIN ledger : ledger[k] \in Nat
  /\ stored \subseteq DOMAIN logs /\ ignored \subseteq DOMAIN logs
  /\ stored \cap ignored = {}
  /\ taken \in 0 .. Len(logs) /\ open \subseteq 1 .. taken /\ DOMAIN tries \subseteq 1 .. taken
  /\ latest \in {0} \cup stored /\ misread \in BOOLEAN

(* Every log of the stream reached its subscription and nothing is open.   *)
Complete == stored = DOMAIN logs /\ logs # <<>>

(* The books never show a token the chain has not moved, whatever is       *)
(* retried, duplicated, reordered or replayed by reconcile; once every log *)
(* is in, they show exactly what moved, kind by kind, and so do the        *)
(* invoices (BR-IDX-002, FR-API-050, FR-API-073).                          *)
BooksMatchChain ==
  LET shown == <<ledger.deposit, ledger.settlement, ledger.fee, ledger.refund,
                 row.settledFeeWei, invoiced.seconds, invoiced.amount>>
      moved == <<deposited, toMerchant, toTreasury, toSubscriber,
                 settledFee, settledSeconds, settledAmount>>
  IN  /\ \A i \in DOMAIN shown : shown[i] <= moved[i]
      /\ Complete => shown = moved

(* A merchant hears once that a subscription exists and once that it ended,*)
(* and hears of a failed payment exactly when the stream ran its pot dry:  *)
(* the platform only compares secondsElapsed with the row (FR-API-051).    *)
MerchantToldOnce ==
  /\ events.created <= 1 /\ events.canceled <= 1
  /\ events.paymentFailed = (IF events.canceled = 1 /\ ran >= maxSeconds THEN 1 ELSE 0)
  /\ row.endedReason = "cap_reached" => ran >= maxSeconds
  /\ row.endedReason = "canceled" => ran < maxSeconds

(* A row that reads canceled carries the final totals of the chain, in     *)
(* whatever order the last logs arrived (BR-API-008, BR-IDX-008).          *)
FinalTotalsExact ==
  row.status = "canceled" =>
    row.settledSeconds = settledSeconds /\ row.settledWei = settledAmount

(* With every log in, the seconds the API shows are the seconds that       *)
(* accrued, the pauses left out: a cumulative total (BR-API-008), so       *)
(* "never from arrival order" (BR-IDX-008, docs/specs/indexer-frd.md:95).  *)
SecondsElapsedExact ==
  Complete =>
    SecondsElapsed(now) = (IF status = "Canceled" THEN settledSeconds ELSE accruedSeconds)

(* The status the row ought to have.                                       *)
StatusOnChain ==
  CASE status \in {"None", "Created"} -> "incomplete" [] status = "Active" -> "active"
    [] status = "Paused" -> "paused" [] status = "Canceled" -> "canceled"

RowHasMoney ==
  /\ row.startedAt = startedAt
  /\ row.fundedWei = deposited
  /\ row.settledSeconds = settledSeconds /\ row.settledWei = settledAmount

(* With every log in, the row is the stream: its state, its start and its  *)
(* money, and the pause it is in (FR-API-040, FR-API-144).                 *)
RowMirrorsStream ==
  Complete =>
    /\ row.status = StatusOnChain /\ RowHasMoney
    /\ row.status # "canceled" => row.pausedAt = pausedAt

NewestTurn == Max({0} \cup {n \in DOMAIN logs : logs[n].event \in Turns})

(* In whatever order logs come, through retries and with reconcile next to *)
(* the indexer: the row has the status of the stream and the pause it is   *)
(* in whenever the turn applied last is the newest one, whatever was lost  *)
(* or overtaken before it; and then, with every log in, its money too. So  *)
(* only an older turn that is applied after the newest leaves the row      *)
(* wrong: ingest.ts:108-145 does not look which is older.                  *)
RowFollowsNewestTurn ==
  latest = NewestTurn =>
    /\ row.status = StatusOnChain
    /\ row.status # "canceled" => row.pausedAt = pausedAt
    /\ Complete => RowHasMoney

(* And then its seconds are those that accrued, if each resume read the    *)
(* pause that it ended; of an ended stream they are right in any case.     *)
SecondsUnlessMisread ==
  Complete /\ latest = NewestTurn /\ (misread => status = "Canceled") =>
    SecondsElapsed(now) = (IF status = "Canceled" THEN settledSeconds ELSE accruedSeconds)

(* Nothing but a start, pause or resume of before the end, and that only   *)
(* when it is stored for the first time, makes a canceled row run again:   *)
(* no retry, duplicate, replay or late chunk does (ingest.ts:108-145 sets  *)
(* the status without looking at the one it replaces).                     *)
OnlyOvertakenRevives ==
  [][row.status = "canceled" /\ row'.status # "canceled" =>
       \E n \in stored' \ stored, end \in stored :
         /\ logs[n].event \in Turns /\ n < end
         /\ logs[end].event = "StreamCanceled"]_allVars

(* A row that still runs after its stream ended on the chain gets closed,  *)
(* even if the indexer lost the log: reconcile pulls it (FR-WRK-073).      *)
EndedRowCloses ==
  (Running /\ row.streamAddress /\ status = "Canceled") ~> (row.status = "canceled")
=============================================================================
