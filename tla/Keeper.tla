------------------------------- MODULE Keeper -------------------------------
(***************************************************************************)
(* The relayer as the factory's keeper: the merchant's start, cancel,      *)
(* pause and resume (api/src/services/checkout.ts) and the worker's sweep  *)
(* of funded sessions the merchant never started                           *)
(* (api/src/worker/unstarted.ts). Each reads a subscription, broadcasts a  *)
(* transaction and stamps the row afterwards; the status only follows with *)
(* the log. Two stamps are all that keeps them apart.                      *)
(***************************************************************************)
EXTENDS Checkout

VARIABLE sweep   (* The batch a sweep has selected, and the row in hand.   *)

requestVars == <<session, rows, calls, requests, troubled>>
allVars == <<startMode, chain, faults, requestVars, sweep>>

NoSweep == [due |-> {}, row |-> None]

KeeperInit == CheckoutInit /\ sweep = NoSweep

-----------------------------------------------------------------------------
(* The merchant's requests.                                                *)

Held(r) == rows[r].status = "incomplete" /\ startMode = "merchant" /\ rows[r].stream # None /\ rows[r].funded

MayStart(r) ==
  /\ rows[r].status = "incomplete" /\ ~rows[r].startSubmitted
  /\ rows[r].stream # None

MayCancel(r) ==
  /\ rows[r].stream # None
  /\ rows[r].status \in {"active", "paused"} \/ Held(r)
  /\ rows[r].cancelSubmitted # "lately"

MayPause(r) == rows[r].stream # None /\ rows[r].status = "active"

MayResume(r) == rows[r].stream # None /\ rows[r].status = "paused"

May(op, r) ==
  \/ op = "start"  /\ MayStart(r)
  \/ op = "cancel" /\ MayCancel(r)
  \/ op = "pause"  /\ MayPause(r)
  \/ op = "resume" /\ MayResume(r)

LoadForKeeper(c, op, r) ==
  /\ May(op, r)
  /\ Arrives(c, [op |-> "keeper", step |-> "send", row |-> r, tx |-> Call(op, r, rows[r].stream)])
  /\ UNCHANGED <<session, rows, faults, troubled>>

(* A pause or a resume leaves no stamp.                                    *)
KeeperSend(c) ==
  LET call == calls[c]
  IN  /\ call.op = "keeper" /\ call.step = "send"
      /\ Broadcast(call.tx)
      /\ Becomes(c, IF call.tx.kind \in {"start", "cancel"}
                    THEN [op |-> "keeper", step |-> "stamp", row |-> call.row, kind |-> call.tx.kind, tx |-> sent + 1]
                    ELSE Idle)
      /\ UNCHANGED <<session, requests, rows, troubled>>

KeeperStamp(c) ==
  LET call == calls[c]
  IN  /\ call.op = "keeper" /\ call.step = "stamp"
      /\ rows' = [rows EXCEPT ![call.row] =
           IF call.kind = "start" THEN [@ EXCEPT !.pendingTx = call.tx, !.startSubmitted = TRUE]
           ELSE [@ EXCEPT !.cancelSubmitted = "lately"]]
      /\ Becomes(c, Idle)
      /\ UNCHANGED <<session, requests, faults, troubled>>

-----------------------------------------------------------------------------
(* The sweep. It cancels the rows of its batch one after the other.        *)

(* A row may be past its window at any time it is held.                    *)
Unstarted(r) ==
  /\ Held(r)
  /\ ~rows[r].startSubmitted /\ rows[r].cancelSubmitted = "never"

(* Wrong: the stamp is there before the relayer has accepted the cancel.   *)
SelectAndStamp ==
  /\ sweep = NoSweep
  /\ \E r \in Rows : Unstarted(r)
  /\ sweep' = [NoSweep EXCEPT !.due = {r \in Rows : Unstarted(r)}]
  /\ rows' = [r \in Rows |-> IF Unstarted(r) THEN [rows[r] EXCEPT !.cancelSubmitted = "lately"] ELSE rows[r]]
  /\ UNCHANGED <<startMode, chain, session, calls, requests, faults, troubled>>

SelectUnstarted ==
  /\ sweep = NoSweep
  /\ \E r \in Rows : Unstarted(r)
  /\ sweep' = [NoSweep EXCEPT !.due = {r \in Rows : Unstarted(r)}]
  /\ UNCHANGED <<startMode, chain, faults, requestVars>>

SweepCancel(r) ==
  /\ sweep.row = None /\ r \in sweep.due
  /\ Broadcast(Call("cancel", r, rows[r].stream))
  /\ sweep' = [due |-> sweep.due \ {r}, row |-> r]
  /\ UNCHANGED <<startMode, requestVars>>

SweepStamp ==
  /\ sweep.row # None
  /\ rows' = [rows EXCEPT ![sweep.row].cancelSubmitted = "lately"]
  /\ sweep' = [sweep EXCEPT !.row = None]
  /\ UNCHANGED <<startMode, chain, session, calls, requests, faults, troubled>>

(* A cancel the chain would refuse is logged and left for the next tick,   *)
SweepRefused(r) ==
  /\ sweep.row = None /\ r \in sweep.due
  /\ ~Accepts(Call("cancel", r, rows[r].stream))
  /\ sweep' = [sweep EXCEPT !.due = @ \ {r}]
  /\ UNCHANGED <<startMode, chain, faults, requestVars>>

(* and so is one the network fails.                                        *)
SweepFails(r) ==
  /\ Fault
  /\ sweep.row = None /\ r \in sweep.due
  /\ sweep' = [sweep EXCEPT !.due = @ \ {r}]
  /\ UNCHANGED <<startMode, chain, session, rows, calls, requests, troubled>>

(* The worker crashes before the stamp, or the answer to its broadcast is  *)
(* lost and it goes on to the next row.                                    *)
SweepCut ==
  /\ Fault
  /\ sweep.row # None
  /\ sweep' \in {NoSweep, [sweep EXCEPT !.row = None]}
  /\ UNCHANGED <<startMode, chain, session, rows, calls, requests, troubled>>

-----------------------------------------------------------------------------
(* CANCEL_RETRY_SECONDS pass.                                              *)
CancelAges(r) ==
  /\ rows[r].cancelSubmitted = "lately"
  /\ rows' = [rows EXCEPT ![r].cancelSubmitted = "before"]
  /\ UNCHANGED <<startMode, chain, session, calls, requests, faults, troubled, sweep>>

-----------------------------------------------------------------------------

(* A step of a request that stays off the chain, and one that broadcasts.  *)
Reads(c) ==
  /\ \/ \E offer \in Offers : LoadForPrepare(c, offer[1], offer[2])
     \/ \E r \in Rows : PrepareRow(c, r)
     \/ PreparePermit(c)
     \/ LoadForStart(c)
     \/ LoadForCancel(c)
     \/ \E op \in {"start", "cancel", "pause", "resume"}, r \in Rows : LoadForKeeper(c, op, r)
     \/ Refused(c)
     \/ Fails(c)
  /\ UNCHANGED <<startMode, chain, sweep>>

Writes(c) == (StartRecord(c) \/ KeeperStamp(c)) /\ UNCHANGED <<startMode, chain, sweep>>

Sends(c) == (StartSend(c) \/ CancelSend(c) \/ KeeperSend(c)) /\ UNCHANGED <<startMode, sweep>>

ChainStep ==
  /\ Mine \/ (\E i \in 1 .. Len(mempool) : Drop(i)) \/ (\E s \in Made : EndAtCap(s))
  /\ UNCHANGED <<startMode, requestVars, sweep>>

Ingests == IngestLog /\ UNCHANGED sweep

SweepStep == SelectUnstarted \/ (\E r \in Rows : SweepCancel(r) \/ SweepRefused(r)) \/ SweepStamp

KeeperNext ==
  \/ \E c \in Callers : Reads(c) \/ Writes(c) \/ Sends(c)
  \/ ChainStep
  \/ Ingests
  \/ SweepStep
  \/ \E r \in Rows : SweepFails(r) \/ CancelAges(r)
  \/ SweepCut

KeeperSpec == KeeperInit /\ [][KeeperNext]_allVars

(* Blocks are made, logs arrive, the worker ticks, a write that follows a  *)
(* broadcast happens. Nobody owes a request.                               *)
FairKeeperSpec ==
  /\ KeeperSpec
  /\ WF_allVars(Mine /\ UNCHANGED <<startMode, requestVars, sweep>>)
  /\ WF_allVars(Ingests)
  /\ WF_allVars(SweepStep)
  /\ \A c \in Callers : WF_allVars(Writes(c))

-----------------------------------------------------------------------------
(* Properties.                                                             *)

(* Every variable keeps its type; what a request has read names rows that  *)
(* exist and no row is stamped that has no stream.                         *)
KeeperTypeOK ==
  /\ session \in [status : {"open", "complete"}, subscription : {None} \cup Rows]
  /\ \A r \in Rows :
       /\ rows[r].status \in {"none", "incomplete", "active", "paused", "canceled"}
       /\ rows[r].stream \in {None} \cup Made
       /\ rows[r].startSubmitted \/ rows[r].cancelSubmitted # "never" => rows[r].stream # None
  /\ \A c \in Busy : calls[c].row \in {None} \cup Rows
  /\ sweep.due \subseteq Rows /\ sweep.row \in {None} \cup Rows
  /\ faults \in 0 .. MaxFaults /\ troubled \subseteq Rows

Ingested(s) == \A i \in 1 .. Len(logs) : logs[i].stream # s

(* A stream is bound to the row whose start paid for it, so that it can be *)
(* settled and stopped; only a start that was doubled or whose hash was    *)
(* lost can leave one to itself (checkout.ts:185, FR-API-071).             *)
StreamsAreBound ==
  \A s \in Made : Ingested(s) =>
    rows[streams[s].row].stream = s \/ streams[s].row \in troubled

(* Caps that the row r is paying for: those of its starts in hand and of   *)
(* the create and the stream they or the row know by their hash.           *)
Hash(r) == IF rows[r].stream # None THEN rows[r].stream ELSE rows[r].pendingTx

StartsAt(r, step) == {c \in Busy : calls[c].op = "start" /\ calls[c].step = step /\ calls[c].row = r}

Hashes(r) == {Hash(r)} \cup {calls[c].tx : c \in StartsAt(r, "record")}

CapsAgree(r) ==
  /\ \A c \in StartsAt(r, "send") : calls[c].tx.cap = rows[r].cap
  /\ \A tx \in ToSet(mempool) : tx.kind = "create" /\ tx.id \in Hashes(r) => tx.cap = rows[r].cap
  /\ \A s \in Made : s \in Hashes(r) => streams[s].cap = rows[r].cap

(* A prepare that is about to rewrite the row, which had no hash when it   *)
(* read it.                                                                *)
Rewrites(r) ==
  \E c \in Busy : /\ calls[c].op = "prepare" /\ calls[c].step = "row" /\ calls[c].row = r
                 /\ calls[c].pendingTx = None

(* The row's max_duration_seconds, which decides cap_reached and when the  *)
(* keeper settles, parts from what the stream is or will be paid for in    *)
(* one way only: a prepare that read the row before the start's hash was   *)
(* in it writes its own cap over the one being paid. No prepare that comes *)
(* later does, and no start, crash, block or log.                          *)
CapsPartOnlyMidStart ==
  [][\A r \in Rows : CapsAgree(r) /\ ~CapsAgree(r)' => Rewrites(r)]_allVars

(* Every stream is paid for with a permit that was given for its row and   *)
(* its cap, and no permit pays twice, however starts are doubled, cut      *)
(* short or prepared again by this wallet or another. A second stream of a *)
(* row, which a lost hash makes possible, needs a second signature.        *)
OneStreamPerPermit ==
  /\ \A s \in Made : <<streams[s].nonce, streams[s].cap>> \in rows[streams[s].row].permits
  /\ \A s, t \in Made :
       /\ streams[s].nonce = streams[t].nonce
       /\ rows[streams[s].row].wallet = rows[streams[t].row].wallet
       => s = t

Lost(r) == \E tx \in dropped : tx.row = r

(* No session stays held: the merchant starts or stops it or, past its     *)
(* window, the sweep refunds it, through failed cancels, races of the two  *)
(* and crashes; no stamp is left on a row that neither starts nor ends     *)
(* (FR-WRK-075, FR-API-127, FR-API-049). Excepted are rows one of whose    *)
(* transactions was accepted and then lost. Requests come to an end here,  *)
(* so a time without held rows means that each of them left.               *)
HeldEnds == []<>(\A r \in Rows : Held(r) => Lost(r))

(* "A row whose start the merchant has already submitted ... must not be   *)
(* refunded out from under them" (api/src/worker/unstarted.ts:42-44).      *)
SweepSparesStarted ==
  [][\A r \in Rows : rows[r].startSubmitted /\ sweep'.row = r => sweep.row = r]_allVars
=============================================================================
