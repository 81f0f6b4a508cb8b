----------------------------- MODULE CliStream ------------------------------
(***************************************************************************)
(* elapse listen: the deliveries of the merchant's CLI endpoint are        *)
(* streamed to whoever listens, forwarded to a local server and acked      *)
(* (api/src/services/cli-stream.ts, routes/cli-sessions.ts,                *)
(* cli/src/commands/listen.ts, sse.ts). Several CLIs share the endpoint.   *)
(*                                                                         *)
(* One pass of a stream's loop is split where it awaits: expire, select,   *)
(* clear the Resends selected one by one, write frame by frame.            *)
(***************************************************************************)
EXTENDS Integers, Sequences

CONSTANTS
  Events,        (* Number of events, in the order of their seq.           *)
  Clis,          (* Running elapse listen processes.                       *)
  MaxConnects,   (* Bound on connections.                                  *)
  MaxAsked,      (* Bound on Resends.                                      *)
  MaxLost        (* Bound on acks or answers lost.                         *)

ASSUME CliAssumption == Events \in Nat /\ MaxConnects \in Nat /\ MaxAsked \in Nat /\ MaxLost \in Nat

VARIABLES
  cliRow,     (* The deliveries rows of the endpoint.                      *)
  connected,  (* cli_connected_until is in the future.                     *)
  conn,       (* The stream handler of each CLI and the frames on the wire.*)
  hand,       (* The frame each CLI is reporting on.                       *)
  attempts,   (* Rows of delivery_attempts that are not manual.            *)
  answered,   (* The local server answered 2xx, or the frame was printed.  *)
  connects, asked, lost

cliVars == <<cliRow, connected, conn, hand, attempts, answered, connects, asked, lost>>

Frames == 1 .. Events

Offline == [phase |-> "closed", sent |-> {}, batch |-> {}, clear |-> {}, wire |-> << >>]

Nothing == [id |-> 0]

Ended == {"succeeded", "exhausted", "skipped"}

CliInit ==
  /\ cliRow = [d \in Frames |-> [status |-> "none", attempt |-> 0, resend |-> FALSE, old |-> FALSE]]
  /\ connected = FALSE
  /\ conn = [c \in Clis |-> Offline]
  /\ hand = [c \in Clis |-> Nothing]
  /\ attempts = [d \in Frames |-> 0] /\ answered = [d \in Frames |-> FALSE]
  /\ connects = 0 /\ asked = 0 /\ lost = 0

-----------------------------------------------------------------------------
(* The platform and the merchant.                                          *)

CreateCliDelivery(d) ==
  /\ connected /\ cliRow[d].status = "none"
  /\ \A e \in 1 .. d - 1 : cliRow[e].status # "none"
  /\ cliRow' = [cliRow EXCEPT ![d].status = "queued"]
  /\ UNCHANGED <<connected, conn, hand, attempts, answered, connects, asked, lost>>

(* Of the delivery, whoever listens, or of its event, while a CLI does.    *)
AskAgain(d) ==
  /\ cliRow[d].status # "none"
  /\ asked < MaxAsked /\ asked' = asked + 1
  /\ cliRow' = [cliRow EXCEPT ![d].resend = TRUE]
  /\ UNCHANGED <<connected, conn, hand, attempts, answered, connects, lost>>

(* CLI_ACK_TIMEOUT_S after it was created.                                 *)
GrowOld(d) ==
  /\ cliRow[d].status = "queued" /\ ~cliRow[d].old
  /\ cliRow' = [cliRow EXCEPT ![d].old = TRUE]
  /\ UNCHANGED <<connected, conn, hand, attempts, answered, connects, asked, lost>>

(* CLI_CONNECTED_GRACE_S after the last sign of a stream.                  *)
GraceEnds ==
  /\ connected /\ \A c \in Clis : conn[c].phase = "closed"
  /\ connected' = FALSE
  /\ UNCHANGED <<cliRow, conn, hand, attempts, answered, connects, asked, lost>>

-----------------------------------------------------------------------------
(* The platform's side of a stream.                                        *)

Unacked(d) == cliRow[d].status = "queued" /\ ~cliRow[d].resend /\ cliRow[d].old

expireUnacked ==
  /\ cliRow' = [d \in Frames |->
       IF Unacked(d) THEN [cliRow[d] EXCEPT !.status = "skipped", !.attempt = @ + 1]
       ELSE cliRow[d]]
  /\ attempts' = [d \in Frames |-> attempts[d] + (IF Unacked(d) THEN 1 ELSE 0)]

(* Wrong: only streams expire what nobody acked.                           *)
SweepNothing == FALSE /\ UNCHANGED cliVars

(* The worker's sweep.                                                     *)
Sweep ==
  /\ \E d \in Frames : Unacked(d)
  /\ expireUnacked
  /\ UNCHANGED <<connected, conn, hand, answered, connects, asked, lost>>

Expire(c) ==
  /\ conn[c].phase = "expire"
  /\ expireUnacked
  /\ conn' = [conn EXCEPT ![c].phase = "select"]
  /\ UNCHANGED <<connected, hand, answered, connects, asked, lost>>

IsNext(c, d) == cliRow[d].resend \/ (cliRow[d].status = "queued" /\ d \notin conn[c].sent)

(* Each at most once, in the order of their seq.                           *)
nextFrames(c) ==
  {[id |-> d, manual |-> cliRow[d].resend] : d \in {e \in Frames : IsNext(c, e)}}

Select(c) ==
  LET next == nextFrames(c)
  IN  /\ conn[c].phase = "select"
      /\ conn' = [conn EXCEPT ![c].batch = next, ![c].clear = {f.id : f \in {g \in next : g.manual}},
                              ![c].phase = "consume"]
      /\ UNCHANGED <<cliRow, connected, hand, attempts, answered, connects, asked, lost>>

(* The requests are cleared one after the other, before any frame is out.  *)
ClearResend(c, d) ==
  /\ conn[c].phase = "consume"
  /\ d \in conn[c].clear /\ \A e \in conn[c].clear : d <= e
  /\ cliRow' = [cliRow EXCEPT ![d].resend = FALSE]
  /\ conn' = [conn EXCEPT ![c].clear = @ \ {d}]
  /\ UNCHANGED <<connected, hand, attempts, answered, connects, asked, lost>>

Consumed(c) ==
  /\ conn[c].phase = "consume" /\ conn[c].clear = {}
  /\ conn' = [conn EXCEPT ![c].phase = IF conn[c].batch = {} THEN "expire" ELSE "write"]
  /\ UNCHANGED <<cliRow, connected, hand, attempts, answered, connects, asked, lost>>

WriteFrame(c) ==
  LET s == conn[c]
  IN  /\ s.phase = "write"
      /\ \E f \in s.batch :
           /\ \A g \in s.batch : f.id <= g.id
           /\ conn' = [conn EXCEPT ![c] =
                [phase |-> IF s.batch = {f} THEN "expire" ELSE "write",
                 sent |-> s.sent \cup {f.id}, batch |-> s.batch \ {f}, clear |-> {},
                 wire |-> Append(s.wire, f)]]
      /\ UNCHANGED <<cliRow, connected, hand, attempts, answered, connects, asked, lost>>

-----------------------------------------------------------------------------
(* The CLI's side.                                                         *)

Connect(c) ==
  /\ conn[c].phase = "closed" /\ hand[c] = Nothing
  /\ connects < MaxConnects /\ connects' = connects + 1
  /\ conn' = [conn EXCEPT ![c].phase = "expire"]
  /\ connected' = TRUE
  /\ UNCHANGED <<cliRow, hand, attempts, answered, asked, lost>>

(* The connection breaks; the frame in hand is still reported.             *)
Break(c) ==
  /\ conn[c].phase # "closed"
  /\ conn' = [conn EXCEPT ![c] = Offline]
  /\ UNCHANGED <<cliRow, connected, hand, attempts, answered, connects, asked, lost>>

(* The process is stopped.                                                 *)
Quit(c) ==
  /\ conn' = [conn EXCEPT ![c] = Offline] /\ hand' = [hand EXCEPT ![c] = Nothing]
  /\ UNCHANGED <<cliRow, connected, attempts, answered, connects, asked, lost>>

(* ok: the local server answers 2xx, or nothing is forwarded.              *)
Forward(c, ok) ==
  /\ hand[c] = Nothing /\ conn[c].wire # << >>
  /\ LET f == Head(conn[c].wire)
     IN  /\ hand' = [hand EXCEPT ![c] = [id |-> f.id, manual |-> f.manual, ok |-> ok, tries |-> 0]]
         /\ answered' = [answered EXCEPT ![f.id] = @ \/ ok]
  /\ conn' = [conn EXCEPT ![c].wire = Tail(@)]
  /\ UNCHANGED <<cliRow, connected, attempts, connects, asked, lost>>

AlreadyAcked(h) == ~h.manual /\ cliRow[h.id].status # "queued"

(* Wrong: only a succeeded delivery refuses another answer.                *)
ackUnlessSucceeded(h) ==
  LET counts == ~h.manual /\ cliRow[h.id].status # "succeeded"
  IN  /\ cliRow' = IF ~counts THEN cliRow
                   ELSE [cliRow EXCEPT ![h.id].status = IF h.ok THEN "succeeded" ELSE "exhausted",
                                       ![h.id].attempt = @ + 1]
      /\ attempts' = IF ~counts THEN attempts ELSE [attempts EXCEPT ![h.id] = @ + 1]

ackDelivery(h) ==
  LET counts == ~h.manual /\ ~AlreadyAcked(h)
  IN  /\ cliRow' = IF ~counts THEN cliRow
                   ELSE [cliRow EXCEPT ![h.id].status = IF h.ok THEN "succeeded" ELSE "exhausted",
                                       ![h.id].attempt = @ + 1]
      /\ attempts' = IF ~counts THEN attempts ELSE [attempts EXCEPT ![h.id] = @ + 1]

(* An ack is tried twice and then dropped.                                 *)
Unreported(h) == IF h.tries = 0 THEN [h EXCEPT !.tries = 1] ELSE Nothing

Ack(c) ==
  /\ hand[c] # Nothing
  /\ ackDelivery(hand[c])
  /\ hand' = [hand EXCEPT ![c] = IF AlreadyAcked(@) THEN Unreported(@) ELSE Nothing]
  /\ UNCHANGED <<connected, conn, answered, connects, asked, lost>>

(* The ack is lost, or only its answer.                                    *)
AckFails(c) ==
  /\ hand[c] # Nothing
  /\ lost < MaxLost /\ lost' = lost + 1
  /\ ackDelivery(hand[c]) \/ UNCHANGED <<cliRow, attempts>>
  /\ hand' = [hand EXCEPT ![c] = Unreported(@)]
  /\ UNCHANGED <<connected, conn, answered, connects, asked>>

-----------------------------------------------------------------------------

Stream(c) ==
  \/ Expire(c) \/ Select(c) \/ Consumed(c) \/ WriteFrame(c)
  \/ \E d \in Frames : ClearResend(c, d)

CliNext ==
  \/ \E d \in Frames : CreateCliDelivery(d) \/ AskAgain(d) \/ GrowOld(d)
  \/ GraceEnds \/ Sweep
  \/ \E c \in Clis : Stream(c)
  \/ \E c \in Clis : Connect(c) \/ Break(c) \/ Quit(c)
  \/ \E c \in Clis : (\E ok \in BOOLEAN : Forward(c, ok)) \/ Ack(c) \/ AckFails(c)

CliSpec == CliInit /\ [][CliNext]_cliVars

-----------------------------------------------------------------------------
(* Properties.                                                             *)

CliRows == [status : {"none", "queued"} \cup Ended, attempt : 0 .. 1,
            resend : BOOLEAN, old : BOOLEAN]

CliTypeOK ==
  /\ cliRow \in [Frames -> CliRows]
  /\ connected \in BOOLEAN
  /\ \A c \in Clis : conn[c].phase \in {"closed", "expire", "select", "consume", "write"}
                     /\ conn[c].sent \subseteq Frames /\ conn[c].clear \subseteq Frames
                     /\ (conn[c].phase = "write" => conn[c].batch # {})
  /\ \A c \in Clis : hand[c] = Nothing \/ hand[c].id \in Frames
  /\ attempts \in [Frames -> Nat] /\ answered \in [Frames -> BOOLEAN]

(* A CLI delivery has one automatic attempt, an ack or its expiry, however *)
(* many CLIs receive it, acks are repeated or arrive after the expiry, and *)
(* none before it has ended; for one that succeeded a CLI had an answer    *)
(* 2xx of its local server, or printed or filtered the frame and sent it   *)
(* to none (FR-API-132, FR-API-134).                                       *)
OneAnswer ==
  \A d \in Frames :
    /\ attempts[d] = IF cliRow[d].status \in Ended THEN 1 ELSE 0
    /\ cliRow[d].attempt = attempts[d]
    /\ cliRow[d].status = "succeeded" => answered[d]

(* A crashed CLI never leaves a delivery queued for ever, whatever frames, *)
(* acks and Resends were lost; only a Resend that nobody fetches can hold  *)
(* it up (FR-API-134).                                                     *)
FramesEnd ==
  \A d \in Frames :
    []<>(~cliRow[d].resend) => []<>(cliRow[d].status # "queued")
=============================================================================
