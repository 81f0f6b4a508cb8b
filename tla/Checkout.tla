------------------------------ MODULE Checkout ------------------------------
(***************************************************************************)
(* One checkout session (api/src/services/checkout.ts): prepare makes or   *)
(* reuses a subscription row and gives a permit to sign, start broadcasts  *)
(* the transaction that spends it, cancel relays the subscriber's wish to  *)
(* stop. Each is a request that reads, awaits and writes later, so         *)
(* requests from several tabs and wallets interleave; the API may crash    *)
(* between any two steps. Ingest applies the logs of the chain in their    *)
(* order, each at once: Ingest and Indexer are about what it does when     *)
(* they overlap.                                                           *)
(*                                                                         *)
(* Left out are the ways a request is merely refused: an expired session   *)
(* or permit, a bad signature, an empty wallet, an archived product.       *)
(***************************************************************************)
EXTENDS Relay

CONSTANTS
  MaxCalls,    (* Requests that may be under way at once.                  *)
  Offers       (* Wallets and the durations they may pick, as pairs.       *)

ASSUME CheckoutAssumption == MaxCalls \in Nat /\ Offers \subseteq Wallets \X (Nat \ {0})

VARIABLES
  session,     (* The checkout_sessions row.                               *)
  rows,        (* The subscriptions rows made for it.                      *)
  calls,       (* Requests under way: what each has read and does next.    *)
  requests,    (* How many there were.                                     *)
  troubled     (* Rows whose start was doubled or cut short by a crash.    *)

Callers == 1 .. MaxCalls
Idle == [op |-> "none", step |-> "none"]
Busy == {c \in Callers : calls[c] # Idle}

NoRow == [status |-> "none", wallet |-> None, cap |-> 0, nonce |-> None, permits |-> {},
          pendingTx |-> None, stream |-> None, funded |-> FALSE,
          startSubmitted |-> FALSE, cancelSubmitted |-> "never"]

CheckoutInit ==
  /\ RelayInit
  /\ session = [status |-> "open", subscription |-> None]
  /\ rows = [r \in Rows |-> NoRow]
  /\ calls = [c \in Callers |-> Idle]
  /\ requests = 0 /\ troubled = {}

Becomes(c, call) == calls' = [calls EXCEPT ![c] = call]

(* A new request; it takes the first free place.                           *)
Arrives(c, call) ==
  /\ calls[c] = Idle /\ \A d \in 1 .. c - 1 : calls[d] # Idle
  /\ requests < MaxRequests
  /\ requests' = requests + 1
  /\ Becomes(c, call)

(* A start of the row that has read it and not yet recorded its hash.      *)
Starting(r) == \E c \in Busy : calls[c].op = "start" /\ calls[c].row = r

-----------------------------------------------------------------------------
(* Prepare.                                                                *)

(* Wrong: a start that is on its way does not stop another.                *)
PendingNever(r) == FALSE

Pending(r) == rows[r].pendingTx # None

(* Unused rows come in order.                                              *)
FreshRow(r) == rows[r].status = "none" /\ \A q \in Rows : q < r => rows[q].status # "none"

(* The session's row is this wallet's, and is prepared again.              *)
Reuses(w, r) == r # None /\ rows[r].wallet = w

(* Wrong: a start that waits for its block is prepared again.              *)
AlreadyRunning(w, r) == r # None /\ rows[r].status # "incomplete"

(* It has started, or this wallet has a start on its way.                  *)
AlreadyStarted(w, r) ==
  /\ r # None
  /\ rows[r].status # "incomplete" \/ (Reuses(w, r) /\ Pending(r))

(* The session and its row are read: a row that still passes the checks    *)
(* when the transaction reads it passed them when the route read the       *)
(* session, so the two reads are one step. What is written goes by them.   *)
LoadForPrepare(c, w, cap) ==
  LET r == session.subscription
  IN  /\ session.status = "open" /\ ~AlreadyStarted(w, r)
      /\ Arrives(c, [op |-> "prepare", step |-> "row", wallet |-> w, cap |-> cap, row |-> r,
                     pendingTx |-> IF r = None THEN None ELSE rows[r].pendingTx])
      /\ UNCHANGED <<session, rows, faults, troubled>>

(* The UPDATE, which looks at nothing again: reuse the session's row, or   *)
(* make one for a wallet that has none, and point the session to it.       *)
PrepareRow(c, r) ==
  LET call   == calls[c]
      reuses == Reuses(call.wallet, call.row)
  IN  /\ call.op = "prepare" /\ call.step = "row"
      /\ IF reuses THEN r = call.row ELSE FreshRow(r)
      /\ rows' = [rows EXCEPT ![r] =
           IF reuses THEN [@ EXCEPT !.cap = call.cap]
           ELSE [NoRow EXCEPT !.status = "incomplete", !.wallet = call.wallet, !.cap = call.cap]]
      /\ session' = [session EXCEPT !.subscription = r]
      /\ Becomes(c, [op |-> "prepare", step |-> "permit", row |-> r, cap |-> call.cap])
      /\ UNCHANGED <<requests, faults, troubled>>

(* Read the wallet's nonce from the chain and keep it for start; the       *)
(* subscriber signs a permit for it and for the cap of this request.       *)
PreparePermit(c) ==
  LET call == calls[c]
  IN  /\ call.op = "prepare" /\ call.step = "permit"
      /\ LET nonce == nonces[rows[call.row].wallet]
         IN  rows' = [rows EXCEPT ![call.row].nonce = nonce, ![call.row].permits = @ \cup {<<nonce, call.cap>>}]
      /\ Becomes(c, Idle)
      /\ UNCHANGED <<requests, session, faults, troubled>>

-----------------------------------------------------------------------------
(* Start.                                                                  *)

(* Read the row and check it and the signature, which fits if a permit was *)
(* given for the row's nonce and cap as they are now (permits given in one *)
(* second have one deadline).                                              *)
LoadForStart(c) ==
  LET r == session.subscription
  IN  /\ r # None
      /\ rows[r].status = "incomplete" /\ ~Pending(r) /\ <<rows[r].nonce, rows[r].cap>> \in rows[r].permits
      /\ Arrives(c, [op |-> "start", step |-> "send", row |-> r,
                     tx |-> Create(r, rows[r].cap, rows[r].wallet, rows[r].nonce)])
      /\ troubled' = IF Starting(r) THEN troubled \cup {r} ELSE troubled
      /\ UNCHANGED <<session, rows, faults>>

(* Wrong: the cap is the row's at the broadcast, not what was signed.      *)
StartSendRereads(c) ==
  LET call == calls[c]
  IN  /\ call.op = "start" /\ call.step = "send"
      /\ Broadcast([call.tx EXCEPT !.cap = rows[call.row].cap])
      /\ Becomes(c, [op |-> "start", step |-> "record", row |-> call.row, tx |-> sent + 1])
      /\ UNCHANGED <<requests, session, rows, troubled>>

StartSend(c) ==
  LET call == calls[c]
  IN  /\ call.op = "start" /\ call.step = "send"
      /\ Broadcast(call.tx)
      /\ Becomes(c, [op |-> "start", step |-> "record", row |-> call.row, tx |-> sent + 1])
      /\ UNCHANGED <<requests, session, rows, troubled>>

(* Wrong: the subscriber's start is marked like the merchant's.            *)
StartRecordMarked(c) ==
  LET call == calls[c]
  IN  /\ call.op = "start" /\ call.step = "record"
      /\ rows' = [rows EXCEPT ![call.row].pendingTx = call.tx, ![call.row].startSubmitted = TRUE]
      /\ Becomes(c, Idle)
      /\ UNCHANGED <<requests, session, faults, troubled>>

(* pending_tx, so that ingest can bind StreamCreated.                      *)
StartRecord(c) ==
  LET call == calls[c]
  IN  /\ call.op = "start" /\ call.step = "record"
      /\ rows' = [rows EXCEPT ![call.row].pendingTx = call.tx]
      /\ Becomes(c, Idle)
      /\ UNCHANGED <<requests, session, faults, troubled>>

-----------------------------------------------------------------------------
(* The subscriber's cancel of a running meter that is theirs to stop.      *)
LoadForCancel(c) ==
  LET r == session.subscription
  IN  /\ r # None
      /\ rows[r].status \in {"active", "paused"} /\ rows[r].stream # None
      /\ startMode # "merchant"
      /\ Arrives(c, [op |-> "cancelFor", step |-> "send", row |-> r,
                     tx |-> Call("cancelFor", r, rows[r].stream)])
      /\ UNCHANGED <<session, rows, faults, troubled>>

CancelSend(c) ==
  LET call == calls[c]
  IN  /\ call.op = "cancelFor"
      /\ Broadcast(call.tx) /\ Becomes(c, Idle)
      /\ UNCHANGED <<requests, session, rows, troubled>>

(* A request ends whose transaction the estimate says would revert.        *)
Refused(c) ==
  /\ calls[c].step = "send" /\ ~Accepts(calls[c].tx)
  /\ Becomes(c, Idle)
  /\ UNCHANGED <<requests, session, rows, faults, troubled>>

(* The API crashes or the network fails a request: a row is left without a *)
(* permit, or a transaction is out and the row does not say so. One that   *)
(* fails before it has written anything is one that was not made.          *)
Fails(c) ==
  /\ Fault
  /\ calls[c].step \in {"permit", "record", "stamp"}
  /\ troubled' = IF calls[c].op = "start" THEN troubled \cup {calls[c].row} ELSE troubled
  /\ Becomes(c, Idle)
  /\ UNCHANGED <<requests, session, rows>>

-----------------------------------------------------------------------------
(* Ingest.                                                                 *)

(* By stream address, or by the hash while the row has no address.         *)
Finds(r, l) ==
  \/ rows[r].stream = l.stream
  \/ rows[r].stream = None /\ rows[r].pendingTx = l.tx /\ l.tx # None

RowAfter(r, l) ==
  CASE l.event = "StreamCreated"  -> [rows[r] EXCEPT !.stream = l.stream]
    [] l.event = "Deposited"      -> [rows[r] EXCEPT !.funded = TRUE]
    [] l.event = "StreamPaused"   -> [rows[r] EXCEPT !.status = "paused"]
    [] l.event = "StreamCanceled" -> [rows[r] EXCEPT !.status = "canceled"]
    [] OTHER                      -> [rows[r] EXCEPT !.status = "active"]

Completes(l) ==
  \/ startMode = "merchant" /\ l.event = "Deposited"  /\ session.status # "complete"
  \/ startMode = "checkout" /\ l.event = "StreamStarted"

(* A hash reaches the row before the log of its transaction reaches the    *)
(* platform, unless the API crashes in between.                            *)
Recorded(l) == \A c \in Busy : calls[c].step = "record" => calls[c].tx # l.tx

IngestLog ==
  /\ logs # <<>> /\ Recorded(Head(logs))
  /\ logs' = Tail(logs)
  /\ LET l == Head(logs)
     IN  IF \A r \in Rows : ~Finds(r, l) THEN UNCHANGED <<rows, session>>
         ELSE \E r \in Rows :
                /\ Finds(r, l)
                /\ (\E q \in Rows : rows[q].stream = l.stream) => rows[r].stream = l.stream
                /\ rows' = [rows EXCEPT ![r] = RowAfter(r, l)]
                /\ session' = IF Completes(l) THEN [status |-> "complete", subscription |-> r] ELSE session
  /\ UNCHANGED <<startMode, sent, mempool, streams, nonces, dropped, calls, requests, faults, troubled>>
=============================================================================
