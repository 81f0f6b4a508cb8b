------------------------------- MODULE Relay -------------------------------
(***************************************************************************)
(* The relayer's account on the chain as the API and the worker see it     *)
(* (api/src/chain/relayer.ts): transactions they broadcast, which wait,    *)
(* are executed in the order of their nonces or are dropped, the streams   *)
(* they act on and the logs these leave. What a stream does in a call is   *)
(* AccrualStream's business; here it has a status, the row and cap it was  *)
(* made for and the nonce of the permit that paid for it.                  *)
(***************************************************************************)
EXTENDS Integers, Sequences, FiniteSets, SequencesExt

CONSTANTS
  Rows,        (* Numbers of the subscription rows.                        *)
  Wallets,     (* Wallets of the subscribers.                              *)
  MaxRequests, (* Bound on requests made.                                  *)
  MaxFaults    (* Crashes, lost answers, failed calls, lost transactions.  *)

ASSUME RelayAssumption ==
  Rows \subseteq Nat \ {0} /\ MaxRequests \in Nat /\ MaxFaults \in Nat

VARIABLES
  startMode,   (* The product's: "checkout", or "merchant".                *)
  sent,        (* Transactions broadcast so far.                           *)
  mempool,     (* Those that wait, in nonce order.                         *)
  streams,     (* Streams, by the number of the transaction that made them.*)
  nonces,      (* Permit nonce of each wallet at the token.                *)
  logs,        (* Logs that ingest has not applied yet.                    *)
  dropped,     (* Transactions that were accepted and lost.                *)
  faults       (* How many faults there were.                              *)

chain == <<sent, mempool, streams, nonces, logs, dropped>>

Fault == faults < MaxFaults /\ faults' = faults + 1

None == 0
Made == DOMAIN streams
Live(s) == streams[s].status \in {"created", "active", "paused"}

RelayInit ==
  /\ startMode \in {"checkout", "merchant"}
  /\ sent = 0 /\ mempool = <<>> /\ logs = <<>> /\ dropped = {} /\ faults = 0
  /\ streams = [s \in {} |-> None]
  /\ nonces = [w \in Wallets |-> 1]

-----------------------------------------------------------------------------
(* Which calls a stream takes from the keeper or with a subscriber's       *)
(* signature, and the status it has after it.                              *)

StatusAfter(kind) ==
  CASE kind \in {"start", "resume"} -> "active"
    [] kind = "pause"               -> "paused"
    [] OTHER                        -> "canceled"

Accepts(tx) ==
  CASE tx.kind = "create" -> nonces[tx.wallet] = tx.nonce
    [] tx.kind = "start"  -> streams[tx.stream].status = "created"
    [] tx.kind = "pause"  -> streams[tx.stream].status = "active"
    [] tx.kind = "resume" -> streams[tx.stream].status = "paused"
    [] OTHER              -> Live(tx.stream)

(* A transaction has its number, id, once it has been broadcast.           *)
Create(row, cap, wallet, nonce) ==
  [kind |-> "create", id |-> None, stream |-> None, row |-> row, cap |-> cap,
   wallet |-> wallet, nonce |-> nonce]

(* A call of the keeper, the sweep or with the subscriber's signature.     *)
Call(kind, row, stream) ==
  [kind |-> kind, id |-> None, stream |-> stream, row |-> row, cap |-> 0,
   wallet |-> None, nonce |-> None]

(* writeContract estimates the call against the chain as it is and throws  *)
(* where it would revert; otherwise the transaction is in the mempool.     *)
Broadcast(tx) ==
  /\ Accepts(tx)
  /\ sent' = sent + 1
  /\ mempool' = Append(mempool, [tx EXCEPT !.id = sent + 1])
  /\ UNCHANGED <<streams, nonces, logs, dropped, faults>>

-----------------------------------------------------------------------------

Log(event, stream, tx) == [event |-> event, stream |-> stream, tx |-> tx]

(* A funded stream: created, deposited and, in checkout mode, started.     *)
MakeStream(tx) ==
  LET born == <<Log("StreamCreated", tx.id, tx.id), Log("Deposited", tx.id, tx.id)>>
  IN  /\ nonces' = [nonces EXCEPT ![tx.wallet] = @ + 1]
      /\ streams' = [s \in Made \cup {tx.id} |->
           IF s \in Made THEN streams[s]
           ELSE [status |-> IF startMode = "merchant" THEN "created" ELSE "active",
                 row |-> tx.row, cap |-> tx.cap, nonce |-> tx.nonce]]
      /\ logs' = logs \o born \o
           (IF startMode = "merchant" THEN <<>> ELSE <<Log("StreamStarted", tx.id, tx.id)>>)

EventOf(kind) ==
  CASE kind = "start"  -> "StreamStarted"
    [] kind = "pause"  -> "StreamPaused"
    [] kind = "resume" -> "StreamResumed"
    [] OTHER           -> "StreamCanceled"

ActOnStream(tx) ==
  /\ streams' = [streams EXCEPT ![tx.stream].status = StatusAfter(tx.kind)]
  /\ logs' = Append(logs, Log(EventOf(tx.kind), tx.stream, tx.id))
  /\ UNCHANGED nonces

(* A block executes the next transaction; one that the chain no longer     *)
(* accepts reverts and leaves nothing.                                     *)
Mine ==
  /\ mempool # <<>>
  /\ mempool' = Tail(mempool)
  /\ LET tx == Head(mempool)
     IN  IF ~Accepts(tx) THEN UNCHANGED <<streams, nonces, logs>>
         ELSE IF tx.kind = "create" THEN MakeStream(tx) ELSE ActOnStream(tx)
  /\ UNCHANGED <<sent, dropped, faults>>

(* A transaction that was accepted and never confirmed.                    *)
Drop(i) ==
  /\ Fault
  /\ dropped' = dropped \cup {mempool[i]}
  /\ mempool' = RemoveAt(mempool, i)
  /\ UNCHANGED <<sent, streams, nonces, logs>>

(* Past its cap a running stream ends when anyone settles it.              *)
EndAtCap(s) ==
  /\ streams[s].status = "active"
  /\ streams' = [streams EXCEPT ![s].status = "canceled"]
  /\ logs' = Append(logs, Log("StreamCanceled", s, None))
  /\ UNCHANGED <<sent, mempool, nonces, dropped, faults>>
=============================================================================
