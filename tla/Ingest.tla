------------------------------- MODULE Ingest -------------------------------
(***************************************************************************)
(* One subscription of the platform's database and the transaction that    *)
(* applies one chain log to it (api/src/db/ingest.ts): find the            *)
(* subscription, change its row, write the ledger, the invoice and the     *)
(* merchant's events. The transaction reads the row when it begins and     *)
(* writes it when it commits; transactions of different logs overlap.      *)
(*                                                                         *)
(* A log is a record with its event name, its number n on the chain, its   *)
(* transaction tx, its block timestamp and the arguments of its event.     *)
(* NULL timestamps and hashes are 0.                                       *)
(***************************************************************************)
EXTENDS Integers

CONSTANT MaxDuration   (* max_duration_seconds of the subscription.        *)

ASSUME IngestAssumption == MaxDuration \in Nat \ {0}

VARIABLES
  startMode,   (* "checkout", or "merchant": funded first, started later.  *)
  row,         (* The subscriptions row.                                   *)
  stored,      (* Numbers of the logs in chain_events with a subscription, *)
  ignored,     (* and of those stored without one.                         *)
  writing,     (* Open transactions, with what each one read.              *)
  ledger,      (* Sums of ledger_entries by kind.                          *)
  invoiced,    (* Sums of the paid invoices.                               *)
  events       (* How many merchant events of a type were created.         *)

db == <<startMode, row, stored, ignored, writing, ledger, invoiced, events>>

IngestInit ==
  /\ startMode \in {"checkout", "merchant"}
  /\ row = [status |-> "incomplete", endedReason |-> "none",
            pendingTx |-> 0, streamAddress |-> FALSE,
            startedAt |-> 0, pausedAt |-> 0, pausedSeconds |-> 0, fundedWei |-> 0,
            settledSeconds |-> 0, settledWei |-> 0, settledFeeWei |-> 0]
  /\ stored = {} /\ ignored = {} /\ writing = {}
  /\ ledger = [deposit |-> 0, settlement |-> 0, fee |-> 0, refund |-> 0]
  /\ invoiced = [seconds |-> 0, amount |-> 0]
  /\ events = [created |-> 0, paymentFailed |-> 0, canceled |-> 0]

-----------------------------------------------------------------------------
(* What each event does to the row. seen is the paused_at the transaction  *)
(* read before it wrote.                                                   *)

Created(r) == [r EXCEPT !.streamAddress = TRUE]

Funded(r, l) == [r EXCEPT !.fundedWei = l.total]

Started(r, l) == [r EXCEPT !.status = "active", !.startedAt = l.at]

Paused(r, l) == [r EXCEPT !.status = "paused", !.pausedAt = l.at]

(* Wrong: the pause that ended is not counted.                             *)
ResumedUncounted(r, l, seen) == [r EXCEPT !.status = "active", !.pausedAt = 0]

(* Wrong: the pause that ended stays on the row.                           *)
ResumedStillPaused(r, l, seen) ==
  [r EXCEPT !.status = "active",
            !.pausedSeconds = @ + (IF seen # 0 /\ l.at > seen THEN l.at - seen ELSE 0)]

Resumed(r, l, seen) ==
  LET pausedFor == IF seen # 0 /\ l.at > seen THEN l.at - seen ELSE 0
  IN  [r EXCEPT !.status = "active", !.pausedAt = 0, !.pausedSeconds = @ + pausedFor]

(* Wrong: a late chunk is added to the totals the cancel has set.          *)
SettledAlwaysAdds(r, l) ==
  [r EXCEPT !.settledFeeWei = @ + l.fee,
            !.settledSeconds = @ + l.seconds, !.settledWei = @ + l.amount]

Settled(r, l) ==
  LET charged == [r EXCEPT !.settledFeeWei = @ + l.fee]
  IN  IF r.status = "canceled" THEN charged
      ELSE [charged EXCEPT !.settledSeconds = @ + l.seconds, !.settledWei = @ + l.amount]

(* Wrong: a stream that ran exactly its cap is taken for a cancel.         *)
CapReachedStrictly(l) == l.secondsElapsed > MaxDuration

CapReached(l) == l.secondsElapsed >= MaxDuration

Canceled(r, l) ==
  [r EXCEPT !.status = "canceled", !.pausedAt = 0,
            !.endedReason = IF CapReached(l) THEN "cap_reached" ELSE "canceled",
            !.settledSeconds = l.secondsElapsed, !.settledWei = l.amountSettled]

RowAfter(r, l, seen) ==
  CASE l.event = "StreamCreated"  -> Created(r)
    [] l.event = "Deposited"      -> Funded(r, l)
    [] l.event = "StreamStarted"  -> Started(r, l)
    [] l.event = "StreamPaused"   -> Paused(r, l)
    [] l.event = "StreamResumed"  -> Resumed(r, l, seen)
    [] l.event = "Settled"        -> Settled(r, l)
    [] l.event = "StreamCanceled" -> Canceled(r, l)

(* The session completes and the subscription is announced when it is      *)
(* funded (merchant mode) or when it starts (checkout mode).               *)
Announces(l) ==
  \/ startMode = "merchant" /\ l.event = "Deposited"
  \/ startMode = "checkout" /\ l.event = "StreamStarted"

EventsAfter(e, l) ==
  LET ends == l.event = "StreamCanceled"
  IN  [created       |-> e.created + (IF Announces(l) THEN 1 ELSE 0),
       canceled      |-> e.canceled + (IF ends THEN 1 ELSE 0),
       paymentFailed |-> e.paymentFailed + (IF ends /\ CapReached(l) THEN 1 ELSE 0)]

InvoicedAfter(i, l) ==
  IF l.event = "Settled" THEN [seconds |-> i.seconds + l.seconds, amount |-> i.amount + l.amount]
  ELSE i

(* The rows come with the log; a fee or refund of zero is not written.     *)
LedgerAfter(w, l) ==
  CASE l.event = "Deposited"      -> [w EXCEPT !.deposit = @ + l.amount]
    [] l.event = "Settled"        -> [w EXCEPT !.settlement = @ + (l.amount - l.fee), !.fee = @ + l.fee]
    [] l.event = "StreamCanceled" -> [w EXCEPT !.refund = @ + l.amountRefunded]
    [] OTHER                      -> w

-----------------------------------------------------------------------------
(* The transaction.                                                        *)

IsWriting(l) == \E t \in writing : t.log = l

Known(l) == l.n \in stored \cup ignored

(* By stream address once the row has one, by the transaction's hash until *)
(* then.                                                                   *)
FindsSubscription(l) == row.streamAddress \/ row.pendingTx = l.tx

(* Wrong: the chain_events row no longer stops a log that is known.        *)
BeginAgain(l) ==
  /\ ~IsWriting(l)
  /\ writing' = writing \cup {[log |-> l, found |-> FindsSubscription(l), pausedAt |-> row.pausedAt]}

(* Insert the chain_events row and read the subscription. A second         *)
(* transaction for the log waits for the first on the unique index.        *)
Begin(l) ==
  /\ ~Known(l) /\ ~IsWriting(l)
  /\ writing' = writing \cup {[log |-> l, found |-> FindsSubscription(l), pausedAt |-> row.pausedAt]}

(* The effect of a log that found its subscription.                        *)
Applies(l, seen) ==
  /\ stored' = stored \cup {l.n}
  /\ row' = RowAfter(row, l, seen)
  /\ ledger' = LedgerAfter(ledger, l)
  /\ invoiced' = InvoicedAfter(invoiced, l)
  /\ events' = EventsAfter(events, l)
  /\ UNCHANGED ignored

Ignores(l) ==
  /\ ignored' = ignored \cup {l.n}
  /\ UNCHANGED <<stored, row, ledger, invoiced, events>>

Commit(t) ==
  /\ t \in writing
  /\ writing' = writing \ {t}
  /\ IF t.found THEN Applies(t.log, t.pausedAt) ELSE Ignores(t.log)
  /\ UNCHANGED startMode

Abort(t) ==
  /\ t \in writing
  /\ writing' = writing \ {t}
  /\ UNCHANGED <<startMode, stored, ignored, row, ledger, invoiced, events>>

(* startSession records the hash of the transaction it has broadcast.      *)
RecordPendingTx(tx) ==
  /\ row.pendingTx = 0
  /\ row' = [row EXCEPT !.pendingTx = tx]
  /\ UNCHANGED <<startMode, stored, ignored, writing, ledger, invoiced, events>>

(* seconds_elapsed of the wire object at an instant.                       *)
SecondsElapsed(at) ==
  LET pausedNow == IF row.status = "paused" /\ row.pausedAt # 0 THEN at - row.pausedAt ELSE 0
      elapsed   == at - row.startedAt - row.pausedSeconds - pausedNow
  IN  IF row.status = "canceled" THEN row.settledSeconds
      ELSE IF row.startedAt = 0 \/ elapsed < 0 THEN 0
      ELSE IF elapsed > MaxDuration THEN MaxDuration
      ELSE elapsed
=============================================================================
