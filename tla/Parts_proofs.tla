----------------------------- MODULE Parts_proofs ------------------------------
(***************************************************************************)
(* Proofs about the parts that are checked in one run: elapse listen, the  *)
(* example merchant, the keeper's settlements, the meter on a page and the *)
(* demo's reset, for every number of events, CLIs, streams, runs and       *)
(* failures; and that a run of all of them is a run of each.               *)
(***************************************************************************)
EXTENDS MCParts, Deliveries_proofs, FiniteSetTheorems, SequenceTheorems

-----------------------------------------------------------------------------
(* elapse listen.                                                          *)

RowsTyped ==
  /\ cliRow \in [Frames -> CliRows] /\ attempts \in [Frames -> Nat]
  /\ answered \in [Frames -> BOOLEAN]

(* A frame held with a good answer was answered.                           *)
HeldTruly(h) ==
  h # Nothing =>
    /\ {"id", "ok"} \subseteq DOMAIN h /\ h.ok \in BOOLEAN
    /\ h.id \in Frames /\ h.ok => answered[h.id]

HandsTrue == DOMAIN hand = Clis /\ \A c \in Clis : HeldTruly(hand[c])

(* The inductive invariant. Nothing need be known of the frames on a wire  *)
(* or in a batch: an answer counts by the row it finds.                    *)
CliInv == RowsTyped /\ HandsTrue /\ OneAnswer

-----------------------------------------------------------------------------

LEMMA InitCliInv == CliInit => CliInv
  BY DEF CliInit, CliInv, RowsTyped, CliRows, HandsTrue, HeldTruly, OneAnswer, Ended

(* A step that ends no delivery and keeps the hands.                       *)
LEMMA QuietCliInv ==
  ASSUME CliInv, cliRow' \in [Frames -> CliRows], UNCHANGED <<attempts, answered, hand>>,
         \A d \in Frames : /\ cliRow'[d].attempt = cliRow[d].attempt
                           /\ \/ cliRow'[d].status = cliRow[d].status
                              \/ cliRow[d].status = "none" /\ cliRow'[d].status = "queued"
  PROVE  CliInv'
  BY DEF CliInv, RowsTyped, HandsTrue, HeldTruly, OneAnswer, Ended

LEMMA RequestsCliInv ==
  ASSUME CliInv, NEW d \in Frames, CreateCliDelivery(d) \/ AskAgain(d) \/ GrowOld(d)
  PROVE  CliInv'
  <1>1. /\ cliRow \in [Frames -> CliRows] /\ cliRow[d] \in CliRows
        /\ UNCHANGED <<attempts, answered, hand>>
    BY DEF CliInv, RowsTyped, CreateCliDelivery, AskAgain, GrowOld
  <1>2. /\ \A e \in Frames : e # d => cliRow'[e] = cliRow[e]
        /\ cliRow' = [cliRow EXCEPT ![d] = cliRow'[d]]
        /\ \/ /\ cliRow[d].status = "none"
              /\ cliRow'[d] = [cliRow[d] EXCEPT !.status = "queued"]
           \/ cliRow'[d] = [cliRow[d] EXCEPT !.resend = TRUE]
           \/ cliRow'[d] = [cliRow[d] EXCEPT !.old = TRUE]
    BY <1>1 DEF CreateCliDelivery, AskAgain, GrowOld
  <1>3. /\ cliRow'[d] \in CliRows /\ cliRow'[d].attempt = cliRow[d].attempt
        /\ \/ cliRow'[d].status = cliRow[d].status
           \/ cliRow[d].status = "none" /\ cliRow'[d].status = "queued"
    BY <1>1, <1>2 DEF CliRows
  <1>4. cliRow' \in [Frames -> CliRows]
    BY <1>1, <1>2, <1>3
  <1>5. QED
    BY <1>1, <1>2, <1>3, <1>4, QuietCliInv

LEMMA ClearCliInv ==
  ASSUME CliInv, NEW c \in Clis, NEW d \in Frames, ClearResend(c, d)
  PROVE  CliInv'
  <1>1. UNCHANGED <<attempts, answered, hand>> /\ cliRow' = [cliRow EXCEPT ![d].resend = FALSE]
    BY DEF ClearResend
  <1>2. PICK old, new : old = cliRow[d] /\ new = [old EXCEPT !.resend = FALSE]
    OBVIOUS
  <1>3. cliRow \in [Frames -> CliRows] /\ old \in CliRows
    BY <1>2 DEF CliInv, RowsTyped
  <1>4. new \in CliRows /\ new.attempt = old.attempt /\ new.status = old.status
    BY <1>2, <1>3 DEF CliRows
  <1>5. cliRow' = [cliRow EXCEPT ![d] = new]
    BY <1>1, <1>2, <1>3
  <1>6. QED
    BY <1>1, <1>2, <1>3, <1>4, <1>5, QuietCliInv

(* A row that has ended, with its one attempt.                             *)
EndedAs(r, status) == [r EXCEPT !.status = status, !.attempt = 1]

LEMMA EndedRow ==
  ASSUME NEW r \in CliRows, NEW status \in Ended
  PROVE  /\ EndedAs(r, status) \in CliRows /\ EndedAs(r, status).status = status
         /\ EndedAs(r, status).attempt = 1
  <1>1. \A one \in 0 .. 1 :
          LET ended == [r EXCEPT !.status = status, !.attempt = one]
          IN  /\ ended \in CliRows /\ ended.status = status /\ ended.attempt = one
    BY DEF CliRows
  <1>2. QED
    BY <1>1 DEF EndedAs

(* Expiry ends only what is queued, and logs it.                           *)
LEMMA ExpiryCliInv ==
  ASSUME CliInv, expireUnacked, UNCHANGED <<answered, hand>>
  PROVE  CliInv'
  <1>1. ASSUME NEW d \in Frames
        PROVE  /\ cliRow'[d] \in CliRows /\ attempts'[d] \in Nat
               /\ attempts'[d] = IF cliRow'[d].status \in Ended THEN 1 ELSE 0
               /\ cliRow'[d].attempt = attempts'[d]
               /\ cliRow'[d].status = "succeeded" => answered[d]
    <2>1. /\ cliRow[d] \in CliRows /\ attempts[d] \in Nat
          /\ attempts[d] = IF cliRow[d].status \in Ended THEN 1 ELSE 0
          /\ cliRow[d].attempt = attempts[d]
          /\ cliRow[d].status = "succeeded" => answered[d]
      BY DEF CliInv, RowsTyped, OneAnswer
    <2>2. CASE Unacked(d)
      <3>1. /\ cliRow[d].status = "queued" /\ attempts[d] = 0 /\ cliRow[d].attempt = 0
            /\ attempts'[d] = attempts[d] + 1
            /\ cliRow'[d] = [cliRow[d] EXCEPT !.status = "skipped", !.attempt = @ + 1]
        BY <2>1, <2>2 DEF expireUnacked, Unacked, Ended
      <3>2. /\ attempts'[d] = 1
            /\ cliRow'[d] = EndedAs(cliRow[d], "skipped")
        BY <3>1 DEF EndedAs
      <3>3. /\ cliRow'[d] \in CliRows /\ cliRow'[d].status = "skipped"
            /\ cliRow'[d].attempt = 1
        <4>1. "skipped" \in Ended
          BY DEF Ended
        <4>2. QED
          BY <2>1, <3>2, <4>1, EndedRow
      <3>4. QED
        BY <3>2, <3>3 DEF Ended
    <2>3. CASE ~Unacked(d)
      <3>1. cliRow'[d] = cliRow[d]
        BY <2>3 DEF expireUnacked, Unacked
      <3>2. attempts'[d] = attempts[d] + 0
        BY <2>3 DEF expireUnacked, Unacked
      <3>3. attempts'[d] = attempts[d]
        BY <2>1, <3>2
      <3>4. QED
        BY <2>1, <3>1, <3>3
    <2>4. QED
      BY <2>2, <2>3
  <1>2. cliRow' \in [Frames -> CliRows] /\ attempts' \in [Frames -> Nat]
    BY <1>1 DEF expireUnacked
  <1>3. QED
    BY <1>1, <1>2 DEF CliInv, RowsTyped, HandsTrue, HeldTruly, OneAnswer

(* What a CLI holds keeps true if it is let go of or tried once more.      *)
LEMMA HeldOnceMore ==
  ASSUME NEW h, h # Nothing, HeldTruly(h), UNCHANGED answered
  PROVE  HeldTruly(Unreported(h))' /\ HeldTruly(Nothing)' /\ HeldTruly(h)'
  BY DEF HeldTruly, Unreported

(* An answer ends only what is queued: a second one finds nothing to end.  *)
LEMMA AckKeepsRows ==
  ASSUME CliInv, NEW c \in Clis, hand[c] # Nothing, ackDelivery(hand[c]), UNCHANGED answered
  PROVE  (RowsTyped /\ OneAnswer)'
  <1> PICK h : h = hand[c]
    OBVIOUS
  <1> PICK d : d = h.id
    OBVIOUS
  <1>1. CASE UNCHANGED <<cliRow, attempts>>
    BY <1>1 DEF CliInv, RowsTyped, OneAnswer
  <1>2. CASE d \notin Frames
    <2>1. UNCHANGED <<cliRow, attempts>>
      BY <1>2 DEF ackDelivery, CliInv, RowsTyped
    <2>2. QED
      BY <1>1, <2>1
  <1>3. CASE d \in Frames /\ ~UNCHANGED <<cliRow, attempts>>
    <2> DEFINE status == IF h.ok THEN "succeeded" ELSE "exhausted"
    <2>1. /\ cliRow[d].status = "queued" /\ HeldTruly(h)
          /\ cliRow'[d] = [cliRow[d] EXCEPT !.status = status, !.attempt = cliRow[d].attempt + 1]
          /\ \A e \in Frames : e # d => cliRow'[e] = cliRow[e]
          /\ cliRow' = [cliRow EXCEPT ![d] = cliRow'[d]]
          /\ attempts' = [attempts EXCEPT ![d] = @ + 1]
      <3>1. /\ ~h.manual /\ ~AlreadyAcked(h)
            /\ cliRow' = [cliRow EXCEPT ![d].status = status, ![d].attempt = @ + 1]
            /\ attempts' = [attempts EXCEPT ![d] = @ + 1]
        BY <1>3 DEF ackDelivery
      <3>2. cliRow[d].status = "queued" /\ HeldTruly(h)
        BY <3>1 DEF AlreadyAcked, CliInv, HandsTrue
      <3> HIDE DEF status
      <3>3. QED
        BY <1>3, <3>1, <3>2 DEF CliInv, RowsTyped, CliRows
    <2>2. h.ok => answered[d]
      BY <1>3, <2>1 DEF HeldTruly
    <2>3. cliRow[d] \in CliRows /\ cliRow[d].attempt = 0 /\ attempts[d] = 0
      BY <1>3, <2>1 DEF CliInv, RowsTyped, OneAnswer, Ended
    <2>4. /\ cliRow'[d] \in CliRows /\ cliRow'[d].status \in {"succeeded", "exhausted"}
          /\ cliRow'[d].attempt = 1 /\ attempts'[d] = 1
          /\ cliRow'[d].status = "succeeded" => h.ok
      <3>1. status \in {"succeeded", "exhausted"} /\ (status = "succeeded" => h.ok)
        OBVIOUS
      <3> HIDE DEF status
      <3>3. cliRow'[d] = EndedAs(cliRow[d], status) /\ attempts'[d] = 1
        <4>1. attempts'[d] = attempts[d] + 1
          BY <1>3, <2>1 DEF CliInv, RowsTyped
        <4>2. QED
          BY <2>1, <2>3, <4>1 DEF EndedAs
      <3>4. status \in Ended
        BY <3>1 DEF Ended
      <3>5. cliRow'[d] \in CliRows /\ cliRow'[d].status = status /\ cliRow'[d].attempt = 1
        BY <2>3, <3>3, <3>4, EndedRow
      <3>6. QED
        BY <3>1, <3>3, <3>5
    <2>5. \A e \in Frames : e # d => cliRow'[e] = cliRow[e] /\ attempts'[e] = attempts[e]
      BY <2>1 DEF CliInv, RowsTyped
    <2>6. RowsTyped'
      <3>1. /\ cliRow' = [cliRow EXCEPT ![d] = cliRow'[d]]
            /\ attempts' = [attempts EXCEPT ![d] = attempts'[d]]
        BY <1>3, <2>1 DEF CliInv, RowsTyped
      <3>2. QED
        BY <1>3, <2>4, <3>1 DEF CliInv, RowsTyped
    <2>7. OneAnswer'
      BY <2>2, <2>4, <2>5 DEF CliInv, OneAnswer, Ended
    <2>8. QED
      BY <2>6, <2>7
  <1>4. QED
    BY <1>1, <1>2, <1>3

LEMMA AnswersCliInv ==
  ASSUME CliInv, NEW c \in Clis, Ack(c) \/ AckFails(c)
  PROVE  CliInv'
  <1> PICK h : h = hand[c]
    OBVIOUS
  <1>1. /\ hand[c] # Nothing /\ UNCHANGED answered
        /\ ackDelivery(hand[c]) \/ UNCHANGED <<cliRow, attempts>>
        /\ \/ hand' = [hand EXCEPT ![c] = Nothing]
           \/ hand' = [hand EXCEPT ![c] = Unreported(h)]
    BY DEF Ack, AckFails
  <1>2. (RowsTyped /\ OneAnswer)'
    BY <1>1, AckKeepsRows DEF CliInv, RowsTyped, OneAnswer
  <1>3. HandsTrue'
    <2>1. \A k \in Clis : HeldTruly(hand[k])
      BY DEF CliInv, HandsTrue
    <2>2. HeldTruly(Nothing)' /\ HeldTruly(Unreported(h))'
      BY <1>1, <2>1, HeldOnceMore
    <2>3. DOMAIN hand' = Clis /\ \A k \in Clis : k # c => hand'[k] = hand[k]
      BY <1>1 DEF CliInv, HandsTrue
    <2>4. hand'[c] = Nothing \/ hand'[c] = Unreported(h)
      BY <1>1 DEF CliInv, HandsTrue
    <2>5. ASSUME NEW k \in Clis PROVE HeldTruly(hand[k])'
      <3>1. CASE k = c
        BY <2>2, <2>4, <3>1 DEF HeldTruly
      <3>2. CASE k # c
        BY <1>1, <2>1, <2>3, <3>2 DEF HeldTruly
      <3>3. QED
        BY <3>1, <3>2
    <2>6. QED
      BY <2>3, <2>5 DEF HandsTrue
  <1>4. QED
    BY <1>2, <1>3 DEF CliInv

LEMMA ForwardCliInv ==
  ASSUME CliInv, NEW c \in Clis, NEW ok \in BOOLEAN, Forward(c, ok)
  PROVE  CliInv'
  <1>1. PICK f : /\ hand' = [hand EXCEPT ![c] = [id |-> f.id, manual |-> f.manual,
                                               ok |-> ok, tries |-> 0]]
                 /\ answered' = [answered EXCEPT ![f.id] = @ \/ ok]
                 /\ UNCHANGED <<cliRow, attempts>>
    BY DEF Forward
  <1>2. /\ answered' \in [Frames -> BOOLEAN]
        /\ \A d \in Frames : answered[d] => answered'[d]
        /\ f.id \in Frames /\ ok => answered'[f.id]
    BY <1>1 DEF CliInv, RowsTyped
  <1>3. HandsTrue'
    BY <1>1, <1>2 DEF CliInv, HandsTrue, HeldTruly
  <1>4. QED
    BY <1>1, <1>2, <1>3 DEF CliInv, RowsTyped, OneAnswer

(* The steps of the wires.                                                 *)
LEMMA WiresCliInv ==
  ASSUME CliInv, NEW c \in Clis,
         Select(c) \/ Consumed(c) \/ WriteFrame(c) \/ Connect(c) \/ Break(c) \/ Quit(c)
  PROVE  CliInv'
  <1>1. /\ UNCHANGED <<cliRow, attempts, answered>>
        /\ UNCHANGED hand \/ hand' = [hand EXCEPT ![c] = Nothing]
    BY DEF Select, Consumed, WriteFrame, Connect, Break, Quit
  <1>2. QED
    BY <1>1 DEF CliInv, RowsTyped, HandsTrue, HeldTruly, OneAnswer

LEMMA NextCliInv == CliInv /\ [CliNext]_cliVars => CliInv'
  <1> SUFFICES ASSUME CliInv, [CliNext]_cliVars
               PROVE  CliInv'
    OBVIOUS
  <1>1. CASE UNCHANGED cliVars \/ GraceEnds
    <2>1. UNCHANGED <<cliRow, attempts, answered, hand>>
      BY <1>1 DEF cliVars, GraceEnds
    <2>2. QED
      BY <2>1 DEF CliInv, RowsTyped, HandsTrue, HeldTruly, OneAnswer
  <1>2. CASE Sweep \/ \E c \in Clis : Expire(c)
    BY <1>2, ExpiryCliInv DEF Sweep, Expire
  <1>3. ASSUME NEW c \in Clis, Stream(c), ~Expire(c)
        PROVE  CliInv'
    BY <1>3, WiresCliInv, ClearCliInv DEF Stream
  <1>4. QED
    BY <1>1, <1>2, <1>3, RequestsCliInv, WiresCliInv, ForwardCliInv, AnswersCliInv DEF CliNext

-----------------------------------------------------------------------------
(* The theorem.                                                            *)

(* However many CLIs are sent a delivery, acks are lost or repeated and    *)
(* expiries overtake them, it gets one automatic attempt, and for one that *)
(* succeeded a CLI had an answer 2xx or had printed or filtered the frame. *)
THEOREM AnsweredOnce == CliSpec => []OneAnswer
  <1>1. CliInv => OneAnswer
    BY DEF CliInv
  <1>2. QED
    BY <1>1, InitCliInv, NextCliInv, PTL DEF CliSpec

-----------------------------------------------------------------------------
(* The example merchant.                                                   *)

(* Until the platform has announced a meter that runs, nobody takes it for *)
(* one: not the session, nor a claim or a boot that has read it, and no    *)
(* event says so.                                                          *)
NotYetOn ==
  "active" \notin told =>
    /\ meter \notin {"active", "paused"} /\ "paused" \notin told /\ "resumed" \notin told
    /\ session.state # "active" /\ runner # "run"
    /\ claim \notin {"active", "paused"} /\ boot \notin {"active", "paused"}

(* No more runs wait than were asked for.                                  *)
RunsAsked == asks \in 0 .. MaxRuns /\ queue <= asks

(* The inductive invariant.                                                *)
NorthInv == NorthwindTypeOK /\ RunsAsked /\ NotYetOn

-----------------------------------------------------------------------------

LEMMA InitNorthInv == NorthwindInit => NorthInv
  BY NorthwindAssumption
     DEF NorthwindInit, NorthInv, NorthwindTypeOK, RunsAsked, NotYetOn, Unknown, Sessions,
         Calls, EventKinds

(* The platform's steps leave the server alone and take nothing back.      *)
LEMMA PlatformNorthInv ==
  ASSUME NorthInv,
         Escrowed \/ MeterMoves \/ (\E call \in Calls : MeterMined(call))
  PROVE  NorthInv'
  <1>1. /\ UNCHANGED <<session, heard, claim, boot, runner, queue, ending, asks>>
        /\ flight' \subseteq flight
    BY DEF Escrowed, MeterMoves, MeterMined, server
  <1>2. /\ told \subseteq told' /\ owed' \subseteq told'
        /\ told' \subseteq EventKinds
        /\ meter' \in {"unfunded", "held", "active", "paused", "canceled"}
    BY DEF NorthInv, NorthwindTypeOK, Escrowed, MeterMoves, MeterMined, Effective, Becomes,
           EventKinds, Calls
  <1>3. "active" \notin told' =>
          meter' \notin {"active", "paused"} /\ "paused" \notin told' /\ "resumed" \notin told'
    BY DEF NorthInv, NotYetOn, Escrowed, MeterMoves, MeterMined, Effective, Becomes, Calls
  <1>4. QED
    BY <1>1, <1>2, <1>3 DEF NorthInv, NorthwindTypeOK, RunsAsked, NotYetOn

(* What a step of the server must keep: the platform's events, the types,  *)
(* and that nothing is taken to be on before it is.                        *)
LEMMA ServerNorthInv ==
  ASSUME NorthInv, UNCHANGED <<meter, told>>, flight' \subseteq Calls,
         owed' \subseteq told, heard' \subseteq told, session' \in Sessions,
         runner' \in {"idle", "start", "wait", "run"}, queue' \in Nat, asks' \in 0 .. MaxRuns,
         queue' <= asks', runner' # "idle" => queue' > 0, ending' \subseteq {"run", "aside"},
         "active" \notin told =>
           /\ session'.state # "active" /\ runner' # "run"
           /\ claim' \notin {"active", "paused"} /\ boot' \notin {"active", "paused"}
  PROVE  NorthInv'
  BY NorthwindAssumption DEF NorthInv, NorthwindTypeOK, RunsAsked, NotYetOn

(* What becomes of a session; only Active and Open make it active.         *)
LEMMA SessionBecomes ==
  ASSUME NEW t \in Sessions
  PROVE  /\ Authorised(t) \in Sessions /\ Authorised(t).state # "active"
         /\ Active(t) \in Sessions /\ Open(t) \in Sessions
         /\ Paused(t) \in Sessions /\ Paused(t).state # "active"
         /\ Closed(t) \in Sessions /\ Closed(t).state # "active"
         /\ noteCancelFailure(t) \in Sessions /\ noteCancelFailure(t).state = t.state
  <1>1. 0 \in 0 .. MaxCancelAttempts
    BY NorthwindAssumption
  <1>2. noteCancelFailure(t) \in Sessions /\ noteCancelFailure(t).state = t.state
    <2> DEFINE fails == IF t.fails = MaxCancelAttempts THEN t.fails ELSE t.fails + 1
               canceling == t.fails + 1 >= MaxCancelAttempts
    <2>1. fails \in 0 .. MaxCancelAttempts /\ canceling \in BOOLEAN
      BY NorthwindAssumption DEF Sessions
    <2>2. noteCancelFailure(t) =
            IF t.state = "none" THEN t
            ELSE [t EXCEPT !.fails = fails, !.canceling = canceling]
      BY DEF noteCancelFailure
    <2> HIDE DEF fails, canceling
    <2>3. QED
      BY <2>1, <2>2 DEF Sessions
  <1>3. QED
    BY <1>1, <1>2 DEF Sessions, Authorised, Active, Open, Paused, Closed

LEMMA WebhookNorthInv ==
  ASSUME NorthInv, NEW e \in EventKinds, Webhook(e) \/ WebhookAgain(e)
  PROVE  NorthInv'
  <1>1. /\ session \in Sessions /\ e \in told
        /\ UNCHANGED <<meter, flight, told, claim, boot, runner, queue, ending, asks>>
        /\ heard' = heard \cup {e} /\ owed' \subseteq owed
        /\ session' = session \/ session' = Applied(e, session)
    BY DEF NorthInv, NorthwindTypeOK, Webhook, WebhookAgain, Handle
  <1>2. Applied(e, session) \in Sessions
        /\ (e \notin {"active", "resumed"} => Applied(e, session).state # "active")
    <2>1. CASE e = "created"
      BY <1>1, <2>1, SessionBecomes DEF Applied
    <2>2. CASE e \in {"active", "resumed"}
      BY <1>1, <2>2, SessionBecomes DEF Applied
    <2>3. CASE e = "paused"
      BY <1>1, <2>3, SessionBecomes DEF Applied
    <2>4. CASE e = "canceled"
      BY <1>1, <2>4, SessionBecomes DEF Applied
    <2>5. QED
      BY <2>1, <2>2, <2>3, <2>4 DEF EventKinds
  <1>3. "active" \notin told => session'.state # "active"
    BY <1>1, <1>2 DEF NorthInv, NotYetOn
  <1>4. QED
    BY <1>1, <1>2, <1>3, ServerNorthInv DEF NorthInv, NorthwindTypeOK, RunsAsked, NotYetOn

(* The console's steps.                                                    *)
LEMMA ConsoleNorthInv ==
  ASSUME NorthInv,
         \/ ClaimRead \/ ClaimApply \/ Heartbeat \/ AskRun \/ Beacon
         \/ \E left \in BOOLEAN : SweepSession(left)
  PROVE  NorthInv'
  <1>1. /\ session \in Sessions /\ UNCHANGED <<platform, heard, boot, runner>>
        /\ UNCHANGED <<meter, flight, told, owed>>
    BY DEF NorthInv, NorthwindTypeOK, ClaimRead, ClaimApply, Heartbeat, AskRun, Beacon,
           SweepSession, platform
  <1>2. CASE ClaimRead
    <2>1. UNCHANGED <<session, queue, ending, asks>> /\ claim' = meter
      BY <1>2 DEF ClaimRead
    <2>2. QED
      BY <1>1, <2>1, ServerNorthInv DEF NorthInv, NorthwindTypeOK, RunsAsked, NotYetOn
  <1>3. CASE ClaimApply
    <2>1. UNCHANGED <<queue, ending, asks>> /\ claim' = "none"
      BY <1>3 DEF ClaimApply
    <2>2. session' \in Sessions
          /\ ("active" \notin told => session'.state # "active")
      BY <1>1, <1>3, SessionBecomes DEF ClaimApply, NorthInv, NotYetOn
    <2>3. QED
      BY <1>1, <2>1, <2>2, ServerNorthInv DEF NorthInv, NorthwindTypeOK, RunsAsked, NotYetOn
  <1>4. CASE Heartbeat
    <2>1. UNCHANGED <<claim, queue, ending, asks>> /\ session' = [session EXCEPT !.seen = TRUE]
      BY <1>4 DEF Heartbeat
    <2>2. session' \in Sessions /\ session'.state = session.state
      BY <1>1, <2>1 DEF Sessions
    <2>3. QED
      BY <1>1, <2>1, <2>2, ServerNorthInv DEF NorthInv, NorthwindTypeOK, RunsAsked, NotYetOn
  <1>5. CASE AskRun
    <2>1. /\ UNCHANGED <<session, claim, ending>> /\ asks < MaxRuns
          /\ asks' = asks + 1 /\ queue' = queue + 1
      BY <1>5 DEF AskRun
    <2>2. /\ asks' \in 0 .. MaxRuns /\ queue' \in Nat /\ queue' <= asks' /\ queue' > 0
      BY <2>1, NorthwindAssumption DEF NorthInv, NorthwindTypeOK, RunsAsked
    <2>3. QED
      BY <1>1, <2>1, <2>2, ServerNorthInv DEF NorthInv, NorthwindTypeOK, RunsAsked, NotYetOn
  <1>6. CASE Beacon \/ \E left \in BOOLEAN : SweepSession(left)
    <2>1. UNCHANGED <<claim, queue, asks>> /\ endSession("aside")
      BY <1>6 DEF Beacon, SweepSession
    <2>2. session' \in Sessions /\ session'.state = session.state
          /\ ending' \subseteq {"run", "aside"}
      BY <1>1, <2>1 DEF endSession, Sessions, NorthInv, NorthwindTypeOK
    <2>3. QED
      BY <1>1, <2>1, <2>2, ServerNorthInv DEF NorthInv, NorthwindTypeOK, RunsAsked, NotYetOn
  <1>7. QED
    BY <1>2, <1>3, <1>4, <1>5, <1>6

LEMMA CancelNorthInv ==
  ASSUME NorthInv, NEW by \in {"run", "aside"}, CancelAnswered(by)
  PROVE  NorthInv'
  <1>1. /\ session \in Sessions /\ UNCHANGED <<heard, claim, boot, runner, queue, asks>>
        /\ ending' \subseteq ending
    BY DEF NorthInv, NorthwindTypeOK, CancelAnswered
  <1>2. UNCHANGED <<meter, told, owed>> /\ flight' \subseteq Calls
    BY DEF NorthInv, NorthwindTypeOK, CancelAnswered, Accepts, Refuses, platform, Calls
  <1>3. session' = session \/ session' = noteCancelFailure(session)
    BY DEF CancelAnswered
  <1>4. session' \in Sessions /\ session'.state = session.state
    BY <1>1, <1>3, SessionBecomes
  <1>5. QED
    BY <1>1, <1>2, <1>4, ServerNorthInv DEF NorthInv, NorthwindTypeOK, RunsAsked, NotYetOn

(* A restart forgets, and the boot believes what it reads.                 *)
LEMMA BootNorthInv ==
  ASSUME NorthInv, Restart \/ BootList \/ BootAdopt
  PROVE  NorthInv'
  <1>1. UNCHANGED <<meter, flight, told, owed, asks>> /\ session \in Sessions
    BY DEF NorthInv, NorthwindTypeOK, Restart, BootList, BootAdopt, platform
  <1>2. CASE Restart
    <2>1. /\ session' = Unknown /\ heard' = {} /\ claim' = "none" /\ runner' = "idle"
          /\ queue' = 0 /\ ending' = {} /\ boot' = "list"
      BY <1>2 DEF Restart
    <2>2. session' \in Sessions /\ session'.state = "none"
      BY <2>1, NorthwindAssumption DEF Unknown, Sessions
    <2>3. QED
      BY <1>1, <2>1, <2>2, ServerNorthInv DEF NorthInv, NorthwindTypeOK, RunsAsked, NotYetOn
  <1>3. CASE BootList
    <2>1. /\ UNCHANGED <<session, heard, claim, runner, queue, ending>>
          /\ boot' \in {meter, "canceled"}
      BY <1>3 DEF BootList
    <2>2. QED
      BY <1>1, <2>1, ServerNorthInv DEF NorthInv, NorthwindTypeOK, RunsAsked, NotYetOn
  <1>4. CASE BootAdopt
    <2>1. UNCHANGED <<heard, claim, runner, queue, ending>> /\ boot' = "done"
      BY <1>4 DEF BootAdopt
    <2>2. /\ session' \in {session, Open(session), Paused(Open(session))}
          /\ session' = Open(session) => session' = session \/ boot = "active"
                                         \/ session' = Paused(Open(session))
      BY <1>4 DEF BootAdopt
    <2>3. session' \in Sessions /\ ("active" \notin told => session'.state # "active")
      BY <1>1, <2>2, SessionBecomes DEF NorthInv, NotYetOn
    <2>4. QED
      BY <1>1, <2>1, <2>3, ServerNorthInv DEF NorthInv, NorthwindTypeOK, RunsAsked, NotYetOn
  <1>5. QED
    BY <1>2, <1>3, <1>4

(* A step of a run that keeps the session's type, and its state unless it  *)
(* changes it to one that is not active, and leaves the run waiting,       *)
(* refused, or under way with a session that is active.                    *)
LEMMA RunnerNorthInv ==
  ASSUME NorthInv, UNCHANGED <<meter, told, owed, heard, claim, boot, asks>>,
         flight' \subseteq Calls, ending' \subseteq {"run", "aside"}, session' \in Sessions,
         session'.state = session.state \/ session'.state # "active",
         queue > 0,
         \/ Refused503
         \/ runner' \in {"start", "wait"} /\ queue' = queue
         \/ runner' = "run" /\ queue' = queue /\ session.state = "active"
  PROVE  NorthInv'
  <1>1. queue \in Nat /\ asks \in 0 .. MaxRuns /\ queue <= asks
    BY NorthwindAssumption DEF NorthInv, NorthwindTypeOK, RunsAsked
  <1>2. /\ runner' \in {"idle", "start", "wait", "run"} /\ queue' \in Nat /\ queue' <= asks'
        /\ runner' # "idle" => queue' > 0
    BY <1>1 DEF Refused503
  <1>3. "active" \notin told => session'.state # "active" /\ runner' # "run"
    BY DEF NorthInv, NotYetOn, Refused503
  <1>4. QED
    BY <1>1, <1>2, <1>3, ServerNorthInv DEF NorthInv, NorthwindTypeOK, NotYetOn

LEMMA RunNorthInv ==
  ASSUME NorthInv, RunStep
  PROVE  NorthInv'
  <1>1. /\ session \in Sessions /\ queue \in Nat /\ (runner # "idle" => queue > 0)
        /\ UNCHANGED <<heard, claim, boot, asks>>
    BY DEF NorthInv, NorthwindTypeOK, RunStep, FinishRun
  <1>2. [session EXCEPT !.seen = TRUE] \in Sessions
        /\ [session EXCEPT !.seen = TRUE].state = session.state
    BY <1>1 DEF Sessions
  <1>3. ASSUME NEW by \in {"run"}, endSession(by)
        PROVE  /\ session' \in Sessions /\ session'.state = session.state
               /\ ending' \subseteq {"run", "aside"}
    BY <1>1, <1>3 DEF endSession, Sessions, NorthInv, NorthwindTypeOK
  <1>4. ASSUME NEW call \in Calls, UNCHANGED platform \/ Accepts(call)
        PROVE  UNCHANGED <<meter, told, owed>> /\ flight' \subseteq Calls
    BY <1>4 DEF Accepts, platform, NorthInv, NorthwindTypeOK
  <1>5. ending \subseteq {"run", "aside"}
    BY DEF NorthInv, NorthwindTypeOK
  <1>6. CASE RunActive /\ UNCHANGED ending
    <2>1. /\ queue > 0 /\ session.state = "active" /\ runner' = "run" /\ queue' = queue
          /\ session' = [session EXCEPT !.seen = TRUE] /\ UNCHANGED platform
      BY <1>6 DEF RunActive, Takes, Run
    <2>2. QED
      BY <1>1, <1>2, <1>4, <1>5, <1>6, <2>1, RunnerNorthInv DEF Calls
  <1>7. CASE RunResumes /\ UNCHANGED ending
    <2>1. /\ queue > 0 /\ UNCHANGED session /\ (UNCHANGED platform \/ Accepts("resume"))
          /\ Refused503 \/ (runner' = "wait" /\ queue' = queue)
      BY <1>7 DEF RunResumes, Takes, Refuses
    <2>2. UNCHANGED <<meter, told, owed>> /\ flight' \subseteq Calls
      BY <1>4, <2>1 DEF Calls
    <2>3. QED
      BY <1>1, <1>5, <1>7, <2>1, <2>2, RunnerNorthInv
  <1>8. CASE RunStarts /\ UNCHANGED ending
    <2>1. /\ queue > 0 /\ runner' = "start" /\ queue' = queue /\ UNCHANGED platform
          /\ session' = [session EXCEPT !.state = "starting"]
      BY <1>8 DEF RunStarts, Takes
    <2>2. session' \in Sessions /\ session'.state # "active"
      BY <1>1, <2>1 DEF Sessions
    <2>3. QED
      BY <1>1, <1>4, <1>5, <1>8, <2>1, <2>2, RunnerNorthInv DEF Calls
  <1>9. CASE RunWaits /\ UNCHANGED ending
    <2>1. /\ queue > 0 /\ runner' = "wait" /\ UNCHANGED <<session, queue, platform>>
      BY <1>9 DEF RunWaits, Takes
    <2>2. QED
      BY <1>1, <1>4, <1>5, <1>9, <2>1, RunnerNorthInv DEF Calls
  <1>10. CASE StartAccepted /\ UNCHANGED ending
    <2>1. /\ queue > 0 /\ runner' = "wait" /\ UNCHANGED <<session, queue>>
          /\ UNCHANGED platform \/ Accepts("start")
      BY <1>1, <1>10 DEF StartAccepted
    <2>2. UNCHANGED <<meter, told, owed>> /\ flight' \subseteq Calls
      BY <1>4, <2>1 DEF Calls
    <2>3. QED
      BY <1>1, <1>5, <1>10, <2>1, <2>2, RunnerNorthInv
  <1>11. CASE StartRefused /\ UNCHANGED ending
    <2>1. /\ queue > 0 /\ (UNCHANGED platform \/ Accepts("start"))
          /\ Refused503 \/ (runner' = "start" /\ queue' = queue)
          /\ session' = session \/ session' = Authorised(session)
      BY <1>1, <1>11 DEF StartRefused
    <2>2. UNCHANGED <<meter, told, owed>> /\ flight' \subseteq Calls
      BY <1>4, <2>1 DEF Calls
    <2>3. /\ session' \in Sessions
          /\ session'.state = session.state \/ session'.state # "active"
      BY <1>1, <2>1, SessionBecomes
    <2>4. QED
      BY <1>1, <1>5, <1>11, <2>1, <2>2, <2>3, RunnerNorthInv
  <1>12. CASE WaitOver
    <2>1. queue > 0 /\ UNCHANGED platform
      BY <1>1, <1>12 DEF WaitOver
    <2>2. UNCHANGED <<meter, told, owed>> /\ flight' \subseteq Calls
      BY <1>4, <2>1 DEF Calls
    <2>3. CASE session.state = "active" /\ Run /\ UNCHANGED ending
      BY <1>1, <1>2, <1>5, <2>1, <2>2, <2>3, RunnerNorthInv DEF Run
    <2>4. CASE Refused503 /\ UNCHANGED <<session, ending>>
      BY <1>1, <1>5, <2>1, <2>2, <2>4, RunnerNorthInv
    <2>5. CASE Refused503 /\ endSession("run")
      BY <1>1, <1>3, <2>1, <2>2, <2>5, RunnerNorthInv
    <2>6. QED
      BY <1>12, <2>3, <2>4, <2>5 DEF WaitOver
  <1>13. CASE FinishRun
    <2>1. queue > 0 /\ UNCHANGED platform /\ Refused503 /\ endSession("run")
      BY <1>1, <1>13 DEF FinishRun
    <2>2. UNCHANGED <<meter, told, owed>> /\ flight' \subseteq Calls
      BY <1>4, <2>1 DEF Calls
    <2>3. QED
      BY <1>1, <1>3, <2>1, <2>2, RunnerNorthInv
  <1>14. QED
    BY <1>6, <1>7, <1>8, <1>9, <1>10, <1>11, <1>12, <1>13 DEF RunStep

LEMMA NextNorthInv == NorthInv /\ [NorthwindNext]_northVars => NorthInv'
  <1> SUFFICES ASSUME NorthInv, [NorthwindNext]_northVars
               PROVE  NorthInv'
    OBVIOUS
  <1>1. CASE UNCHANGED northVars
    BY <1>1 DEF northVars, platform, server, NorthInv, NorthwindTypeOK, RunsAsked, NotYetOn
  <1>2. CASE NorthwindNext
    BY <1>2, PlatformNorthInv, WebhookNorthInv, ConsoleNorthInv, CancelNorthInv, RunNorthInv,
       BootNorthInv DEF NorthwindNext
  <1>3. QED
    BY <1>1, <1>2

-----------------------------------------------------------------------------
(* The theorems.                                                           *)

(* The invariant holds in every state.                                     *)
THEOREM NorthInvariant == NorthwindSpec => []NorthInv
  BY InitNorthInv, NextNorthInv, PTL DEF NorthwindSpec

(* Whatever order webhooks, claims, runs, failed calls and restarts come   *)
(* in, the example merchant runs no code before the chain has confirmed    *)
(* that the meter is on.                                                   *)
THEOREM NothingRunsUnmetered == NorthwindSpec => []RunsAreMetered
  <1>1. NorthInv => RunsAreMetered
    BY DEF NorthInv, NotYetOn, RunsAreMetered
  <1>2. QED
    BY <1>1, NorthInvariant, PTL

-----------------------------------------------------------------------------
(* Types of elapse listen: the frames of a batch, on a wire or in a hand   *)
(* are those of the endpoint.                                              *)

FramesOut == [id : Frames, manual : BOOLEAN]

Conns ==
  [phase : {"closed", "expire", "select", "consume", "write"}, sent : SUBSET Frames,
   clear : SUBSET Frames, batch : SUBSET FramesOut, wire : Seq(FramesOut)]

Hands == {Nothing} \cup [id : Frames, manual : BOOLEAN, ok : BOOLEAN, tries : 0 .. 1]

CliTyped ==
  /\ conn \in [Clis -> Conns] /\ hand \in [Clis -> Hands] /\ connected \in BOOLEAN
  /\ \A c \in Clis : conn[c].phase = "write" => conn[c].batch # {}

LEMMA InitCliTyped == CliInit => CliTyped
  <1> SUFFICES ASSUME CliInit PROVE CliTyped
    OBVIOUS
  <1>1. Offline \in Conns /\ Offline.phase = "closed"
    <2>1. << >> \in Seq(FramesOut)
      OBVIOUS
    <2>2. QED
      BY <2>1 DEF Offline, Conns
  <1>2. QED
    BY <1>1 DEF CliInit, CliTyped, Hands

(* A step of one stream.                                                   *)
LEMMA ConnCliTyped ==
  ASSUME CliTyped, NEW c \in Clis, NEW t \in Conns, t.phase = "write" => t.batch # {},
         conn' = [conn EXCEPT ![c] = t], hand' \in [Clis -> Hands], connected' \in BOOLEAN
  PROVE  CliTyped'
  BY DEF CliTyped

LEMMA StreamCliTyped ==
  ASSUME CliInv, CliTyped, NEW c \in Clis, Stream(c)
  PROVE  CliTyped'
  <1>1. /\ conn \in [Clis -> Conns] /\ conn[c] \in Conns
        /\ hand' \in [Clis -> Hands] /\ connected' \in BOOLEAN
        /\ cliRow \in [Frames -> CliRows]
    BY DEF CliInv, RowsTyped, CliTyped, Stream, Expire, Select, ClearResend, Consumed,
       WriteFrame
  <1>2. CASE Expire(c)
    <2> DEFINE t == [conn[c] EXCEPT !.phase = "select"]
    <2>1. conn' = [conn EXCEPT ![c] = t]
      BY <1>1, <1>2 DEF Expire
    <2>2. t \in Conns /\ t.phase = "select"
      BY <1>1 DEF Conns
    <2> HIDE DEF t
    <2>3. QED
      BY <1>1, <2>1, <2>2, ConnCliTyped
  <1>3. CASE Select(c)
    <2> DEFINE clear == {f.id : f \in {g \in nextFrames(c) : g.manual}}
               t == [conn[c] EXCEPT !.batch = nextFrames(c), !.clear = clear, !.phase = "consume"]
    <2>1. conn' = [conn EXCEPT ![c] = t]
      BY <1>1, <1>3 DEF Select
    <2>2. nextFrames(c) \in SUBSET FramesOut
      BY <1>1 DEF nextFrames, FramesOut, CliRows
    <2>3. clear \subseteq Frames
      BY <2>2 DEF FramesOut
    <2> HIDE DEF clear
    <2>4. t \in Conns /\ t.phase = "consume"
      BY <1>1, <2>2, <2>3 DEF Conns
    <2> HIDE DEF t
    <2>5. QED
      BY <1>1, <2>1, <2>4, ConnCliTyped
  <1>4. CASE \E d \in Frames : ClearResend(c, d)
    <2>1. PICK d : conn' = [conn EXCEPT ![c].clear = @ \ {d}] /\ conn[c].phase = "consume"
      BY <1>4 DEF ClearResend
    <2> DEFINE t == [conn[c] EXCEPT !.clear = @ \ {d}]
    <2>2. conn' = [conn EXCEPT ![c] = t]
      BY <1>1, <2>1
    <2>3. t \in Conns /\ t.phase = "consume"
      BY <1>1, <2>1 DEF Conns
    <2> HIDE DEF t
    <2>4. QED
      BY <1>1, <2>2, <2>3, ConnCliTyped
  <1>5. CASE Consumed(c)
    <2> DEFINE t == [conn[c] EXCEPT !.phase = IF conn[c].batch = {} THEN "expire" ELSE "write"]
    <2>1. conn' = [conn EXCEPT ![c] = t]
      BY <1>1, <1>5 DEF Consumed
    <2>2. t \in Conns /\ (t.phase = "write" => t.batch # {})
      BY <1>1 DEF Conns
    <2> HIDE DEF t
    <2>3. QED
      BY <1>1, <2>1, <2>2, ConnCliTyped
  <1>6. CASE WriteFrame(c)
    <2>1. PICK f \in conn[c].batch :
            conn' = [conn EXCEPT ![c] =
              [phase |-> IF conn[c].batch = {f} THEN "expire" ELSE "write",
               sent |-> conn[c].sent \cup {f.id}, batch |-> conn[c].batch \ {f}, clear |-> {},
               wire |-> Append(conn[c].wire, f)]]
      BY <1>6 DEF WriteFrame
    <2> DEFINE t == [phase |-> IF conn[c].batch = {f} THEN "expire" ELSE "write",
                     sent |-> conn[c].sent \cup {f.id}, batch |-> conn[c].batch \ {f},
                     clear |-> {}, wire |-> Append(conn[c].wire, f)]
    <2>2. f \in FramesOut /\ f.id \in Frames
      BY <1>1 DEF Conns, FramesOut
    <2>3. Append(conn[c].wire, f) \in Seq(FramesOut)
      BY <1>1, <2>2 DEF Conns
    <2>4. t \in Conns /\ (t.phase = "write" => t.batch # {})
      BY <1>1, <2>2, <2>3 DEF Conns
    <2>5. conn' = [conn EXCEPT ![c] = t]
      BY <2>1
    <2> HIDE DEF t
    <2>6. QED
      BY <1>1, <2>4, <2>5, ConnCliTyped
  <1>7. QED
    BY <1>2, <1>3, <1>4, <1>5, <1>6 DEF Stream

LEMMA ConnectCliTyped ==
  ASSUME CliTyped, NEW c \in Clis, Connect(c) \/ Break(c) \/ Quit(c)
  PROVE  CliTyped'
  <1>1. conn \in [Clis -> Conns] /\ conn[c] \in Conns /\ hand \in [Clis -> Hands]
    BY DEF CliTyped
  <1>2. /\ hand' \in [Clis -> Hands] /\ connected' \in BOOLEAN
    BY <1>1 DEF CliTyped, Connect, Break, Quit, Hands
  <1>3. CASE Connect(c)
    <2> DEFINE t == [conn[c] EXCEPT !.phase = "expire"]
    <2>1. conn' = [conn EXCEPT ![c] = t]
      BY <1>1, <1>3 DEF Connect
    <2>2. t \in Conns /\ t.phase = "expire"
      BY <1>1 DEF Conns
    <2> HIDE DEF t
    <2>3. QED
      BY <1>2, <2>1, <2>2, ConnCliTyped
  <1>4. CASE Break(c) \/ Quit(c)
    <2>1. conn' = [conn EXCEPT ![c] = Offline]
      BY <1>4 DEF Break, Quit
    <2>2. << >> \in Seq(FramesOut)
      OBVIOUS
    <2>3. Offline \in Conns /\ Offline.phase = "closed"
      BY <2>2 DEF Offline, Conns
    <2>4. QED
      BY <1>2, <2>1, <2>3, ConnCliTyped
  <1>5. QED
    BY <1>3, <1>4

LEMMA AnswerCliTyped ==
  ASSUME CliTyped, NEW c \in Clis,
         (\E ok \in BOOLEAN : Forward(c, ok)) \/ Ack(c) \/ AckFails(c)
  PROVE  CliTyped'
  <1>1. /\ conn \in [Clis -> Conns] /\ conn[c] \in Conns /\ hand \in [Clis -> Hands]
        /\ hand[c] \in Hands /\ connected' = connected /\ connected \in BOOLEAN
    BY DEF CliTyped, Forward, Ack, AckFails
  <1>2. ASSUME NEW ok \in BOOLEAN, Forward(c, ok)
        PROVE  CliTyped'
    <2> DEFINE f == Head(conn[c].wire)
               t == [conn[c] EXCEPT !.wire = Tail(conn[c].wire)]
               h == [id |-> f.id, manual |-> f.manual, ok |-> ok, tries |-> 0]
    <2>1. /\ conn[c].wire \in Seq(FramesOut) /\ conn[c].wire # << >>
          /\ hand' = [hand EXCEPT ![c] = h] /\ conn' = [conn EXCEPT ![c] = t]
      BY <1>1, <1>2 DEF Forward, Conns
    <2>2. f \in FramesOut /\ Tail(conn[c].wire) \in Seq(FramesOut)
      BY <2>1
    <2>3. h \in Hands
      BY <2>2 DEF Hands, FramesOut
    <2>4. t \in Conns /\ t.phase = conn[c].phase /\ t.batch = conn[c].batch
      BY <1>1, <2>2 DEF Conns
    <2> HIDE DEF f, t, h
    <2>5. hand' \in [Clis -> Hands] /\ (t.phase = "write" => t.batch # {})
      BY <1>1, <2>1, <2>3, <2>4 DEF CliTyped
    <2>6. QED
      BY <1>1, <2>1, <2>4, <2>5, ConnCliTyped
  <1>3. CASE Ack(c) \/ AckFails(c)
    <2>1. hand[c] # Nothing /\ hand[c] \in [id : Frames, manual : BOOLEAN, ok : BOOLEAN, tries : 0 .. 1]
      BY <1>1, <1>3 DEF Ack, AckFails, Hands
    <2>2. Unreported(hand[c]) \in Hands /\ Nothing \in Hands
      BY <2>1 DEF Unreported, Hands
    <2>3. /\ conn' = conn
          /\ \/ hand' = [hand EXCEPT ![c] = Unreported(hand[c])]
             \/ hand' = [hand EXCEPT ![c] = Nothing]
      BY <1>1, <1>3 DEF Ack, AckFails
    <2>4. QED
      BY <1>1, <2>2, <2>3 DEF CliTyped
  <1>4. QED
    BY <1>2, <1>3

LEMMA NextCliTyped == CliInv /\ CliTyped /\ [CliNext]_cliVars => CliTyped'
  <1> SUFFICES ASSUME CliInv, CliTyped, [CliNext]_cliVars PROVE CliTyped'
    OBVIOUS
  <1>1. ASSUME NEW d \in Frames, CreateCliDelivery(d) \/ AskAgain(d) \/ GrowOld(d)
        PROVE  CliTyped'
    BY <1>1 DEF CreateCliDelivery, AskAgain, GrowOld, CliTyped
  <1>2. CASE GraceEnds \/ Sweep
    BY <1>2 DEF GraceEnds, Sweep, CliTyped
  <1>3. CASE UNCHANGED cliVars
    BY <1>3 DEF cliVars, CliTyped
  <1>4. QED
    BY <1>1, <1>2, <1>3, StreamCliTyped, ConnectCliTyped, AnswerCliTyped DEF CliNext

LEMMA CliTypeCorrect == CliSpec => []CliTypeOK
  <1>1. CliInv /\ CliTyped => CliTypeOK
    BY DEF CliInv, RowsTyped, CliTyped, CliTypeOK, Conns, Hands, Nothing
  <1>2. QED
    BY <1>1, InitCliInv, NextCliInv, InitCliTyped, NextCliTyped, PTL DEF CliSpec

-----------------------------------------------------------------------------
(* The meter on a page.                                                    *)

LEMMA WidgetTypes ==
  /\ WidgetInit => WidgetTypeOK
  /\ WidgetTypeOK /\ [WidgetNext]_widgetVars => WidgetTypeOK'
  <1>1. WidgetInit => WidgetTypeOK
    BY DEF WidgetInit, WidgetTypeOK, Statuses
  <1>2. ASSUME WidgetTypeOK, [WidgetNext]_widgetVars PROVE WidgetTypeOK'
    <2>1. CASE SubMoves \/ CancelConfirmed
      BY <1>2, <2>1 DEF WidgetTypeOK, SubMoves, CancelConfirmed, Statuses
    <2>2. CASE Mount \/ Follow \/ Refresh
      BY <1>2, <2>2 DEF WidgetTypeOK, Mount, Follow, Refresh, Read, Asks
    <2>3. CASE ReadFails \/ \E s \in Statuses : ReadArrives(s)
      BY <1>2, <2>3 DEF WidgetTypeOK, ReadFails, ReadArrives
    <2>4. CASE Stop \/ Signs \/ WindowCloses \/ MessageArrives \/ SeenClosed
      BY <1>2, <2>4 DEF WidgetTypeOK, Stop, Signs, WindowCloses, MessageArrives, SeenClosed, Asks
    <2>5. CASE UNCHANGED widgetVars
      BY <1>2, <2>5 DEF WidgetTypeOK, widgetVars
    <2>6. QED
      BY <1>2, <2>1, <2>2, <2>3, <2>4, <2>5 DEF WidgetNext
  <1>3. QED
    BY <1>1, <1>2

-----------------------------------------------------------------------------
(* The demo's reset: an object that is inserted and not yet marked is that *)
(* of a pass about to mark it.                                             *)

PassRows ==
  [op : {"none", "sweep", "find", "clear", "insert", "mark", "restore"},
   kind : Kinds \cup {"none"}, fresh : {"none", "on", "off", "gone"}, reset : BOOLEAN]

Unmarked(row) ==
  /\ row.op # "none" => row.kind \in Kinds
  /\ row.fresh # "none" => row.op = "mark"

DemoInv ==
  /\ DemoTypeOK /\ passOf \in [Passes -> PassRows]
  /\ \A p \in Passes : Unmarked(passOf[p])

LEMMA InitDemoInv == DemoInit => DemoInv
  BY DEF DemoInit, DemoInv, DemoTypeOK, Between, PassRows, Kinds, Passes, Unmarked

(* What a step has to show.                                                *)
LEMMA DemoStep ==
  ASSUME passOf' \in [Passes -> PassRows], \A p \in Passes : Unmarked(passOf'[p]),
         seeded' \in [Kinds -> {"missing", "as made", "changed"}], loose' \in [Kinds -> Nat]
  PROVE  DemoInv'
  BY DEF DemoInv, DemoTypeOK, Unmarked

(* One pass goes on.                                                       *)
LEMMA OnePass ==
  ASSUME DemoInv, NEW p \in Passes, NEW row \in PassRows, Unmarked(row),
         passOf' = [passOf EXCEPT ![p] = row]
  PROVE  passOf' \in [Passes -> PassRows] /\ \A q \in Passes : Unmarked(passOf'[q])
  BY DEF DemoInv

LEMMA GoesOn ==
  ASSUME DemoInv, NEW p \in Passes,
         \/ passOf' = [passOf EXCEPT ![p] = Between]
         \/ \E op \in {"sweep", "find", "clear", "insert", "mark", "restore"}, k \in Kinds :
              Goes(p, op, k)
  PROVE  passOf' \in [Passes -> PassRows] /\ \A q \in Passes : Unmarked(passOf'[q])
  <1>1. passOf[p] \in PassRows
    BY DEF DemoInv
  <1>2. CASE passOf' = [passOf EXCEPT ![p] = Between]
    <2>1. Between \in PassRows /\ Unmarked(Between)
      BY DEF Between, PassRows, Unmarked
    <2>2. QED
      BY <1>2, <2>1, OnePass
  <1>3. ASSUME NEW op \in {"sweep", "find", "clear", "insert", "mark", "restore"},
               NEW k \in Kinds, Goes(p, op, k)
        PROVE  passOf' \in [Passes -> PassRows] /\ \A q \in Passes : Unmarked(passOf'[q])
    <2> DEFINE row == [passOf[p] EXCEPT !.op = op, !.kind = k, !.fresh = "none"]
    <2>1. row \in PassRows /\ Unmarked(row)
      BY <1>1 DEF PassRows, Unmarked
    <2>2. passOf' = [passOf EXCEPT ![p] = row]
      BY <1>3 DEF Goes, DemoInv
    <2> HIDE DEF row
    <2>3. QED
      BY <2>1, <2>2, OnePass
  <1>4. QED
    BY <1>2, <1>3

LEMMA AfterKindGoesOn ==
  ASSUME DemoInv, NEW p \in Passes, NEW k \in Kinds, AfterKind(p, k)
  PROVE  passOf' \in [Passes -> PassRows] /\ \A q \in Passes : Unmarked(passOf'[q])
  <1>1. "endpoint" \in Kinds /\ "pk" \in Kinds
    BY DEF Kinds
  <1>2. \/ Goes(p, "find", "endpoint") \/ Goes(p, "find", "pk")
        \/ passOf' = [passOf EXCEPT ![p] = Between]
    BY DEF AfterKind
  <1>3. QED
    BY <1>1, <1>2, GoesOn

LEMMA LooseChanges ==
  ASSUME NEW f \in [Kinds -> Nat], NEW k \in Kinds
  PROVE  /\ \A n \in Nat : [f EXCEPT ![k] = f[k] + n] \in [Kinds -> Nat]
         /\ f[k] > 0 => [f EXCEPT ![k] = f[k] - 1] \in [Kinds -> Nat]
  <1>1. /\ \A n \in Nat : f[k] + n \in Nat
        /\ f[k] > 0 => f[k] - 1 \in Nat
    <2>1. f[k] \in Nat
      OBVIOUS
    <2>2. QED
      BY <2>1
  <1>2. \A m \in Nat : [f EXCEPT ![k] = m] \in [Kinds -> Nat]
    OBVIOUS
  <1>3. QED
    BY <1>1, <1>2

LEMMA OthersDemoInv ==
  ASSUME DemoInv, NEW k \in Kinds, JudgeMakes(k) \/ JudgeEnds(k) \/ SeedChanges(k)
  PROVE  DemoInv'
  <1>1. /\ seeded \in [Kinds -> {"missing", "as made", "changed"}] /\ loose \in [Kinds -> Nat]
        /\ passOf \in [Passes -> PassRows] /\ \A p \in Passes : Unmarked(passOf[p])
    BY DEF DemoInv, DemoTypeOK
  <1>2. CASE JudgeMakes(k)
    <2>1. loose' = [loose EXCEPT ![k] = loose[k] + 1] /\ UNCHANGED <<seeded, passOf>>
      BY <1>2 DEF JudgeMakes
    <2>2. loose' \in [Kinds -> Nat]
      BY <1>1, <2>1, LooseChanges
    <2>3. QED
      BY <1>1, <2>1, <2>2, DemoStep
  <1>3. CASE JudgeEnds(k)
    <2>1. seeded' = seeded
      BY <1>3 DEF JudgeEnds
    <2>2. CASE loose[k] > 0 /\ loose' = [loose EXCEPT ![k] = loose[k] - 1] /\ passOf' = passOf
      <3>1. loose' \in [Kinds -> Nat]
        BY <1>1, <2>2, LooseChanges
      <3>2. QED
        BY <1>1, <2>1, <2>2, <3>1, DemoStep
    <2>3. ASSUME NEW p \in Passes, HasFresh(p, k), loose' = loose,
                 passOf' = [passOf EXCEPT ![p].fresh = Off(k)]
          PROVE  DemoInv'
      <3> DEFINE row == [passOf[p] EXCEPT !.fresh = Off(k)]
      <3>1. Off(k) \in {"off", "gone"}
        BY DEF Off
      <3>2. row \in PassRows /\ Unmarked(row) /\ passOf' = [passOf EXCEPT ![p] = row]
        BY <1>1, <2>3, <3>1 DEF PassRows, Unmarked, HasFresh
      <3> HIDE DEF row
      <3>3. QED
        BY <1>1, <2>1, <2>3, <3>2, OnePass, DemoStep
    <2>4. QED
      BY <1>3, <2>2, <2>3 DEF JudgeEnds
  <1>4. CASE SeedChanges(k)
    <2>1. seeded' \in [Kinds -> {"missing", "as made", "changed"}] /\ UNCHANGED <<loose, passOf>>
      BY <1>1, <1>4 DEF SeedChanges
    <2>2. QED
      BY <1>1, <2>1, DemoStep
  <1>5. QED
    BY <1>2, <1>3, <1>4

LEMMA StartsDemoInv ==
  ASSUME DemoInv, WorkerStarts \/ \E reset \in BOOLEAN : ScriptStarts(reset)
  PROVE  DemoInv'
  <1>1. /\ seeded' \in [Kinds -> {"missing", "as made", "changed"}] /\ loose' \in [Kinds -> Nat]
    BY DEF DemoInv, DemoTypeOK, WorkerStarts, ScriptStarts
  <1>2. ASSUME NEW op \in {"sweep", "find"}, NEW reset \in BOOLEAN
        PROVE  LET row == [Between EXCEPT !.op = op, !.kind = "product", !.reset = reset]
               IN  row \in PassRows /\ Unmarked(row)
    BY DEF Between, PassRows, Unmarked, Kinds
  <1>3. \E p \in Passes, row \in PassRows :
          Unmarked(row) /\ passOf' = [passOf EXCEPT ![p] = row]
    <2>1. CASE WorkerStarts
      <3>1. passOf' = [passOf EXCEPT !["worker"] =
              [Between EXCEPT !.op = "sweep", !.kind = "product", !.reset = TRUE]]
        BY <2>1 DEF WorkerStarts
      <3>2. QED
        BY <1>2, <3>1 DEF Passes
    <2>2. ASSUME NEW reset \in BOOLEAN, ScriptStarts(reset)
          PROVE  \E p \in Passes, row \in PassRows :
                   Unmarked(row) /\ passOf' = [passOf EXCEPT ![p] = row]
      <3> DEFINE op == IF reset THEN "sweep" ELSE "find"
                 row == [Between EXCEPT !.op = op, !.kind = "product", !.reset = reset]
      <3>1. op \in {"sweep", "find"} /\ "script" \in Passes
        BY DEF Passes
      <3>2. passOf' = [passOf EXCEPT !["script"] = row]
        BY <2>2 DEF ScriptStarts
      <3>3. row \in PassRows /\ Unmarked(row)
        <4> HIDE DEF op
        <4>1. QED
          BY <1>2, <3>1
      <3> HIDE DEF op, row
      <3>4. QED
        BY <3>1, <3>2, <3>3
    <2>3. QED
      BY <2>1, <2>2
  <1>4. QED
    BY <1>1, <1>3, OnePass, DemoStep

LEMMA SweepDemoInv ==
  ASSUME DemoInv, NEW p \in Passes, NEW k \in Kinds, SweepLoose(p, k)
  PROVE  DemoInv'
  <1>1. /\ seeded \in [Kinds -> {"missing", "as made", "changed"}] /\ loose \in [Kinds -> Nat]
        /\ passOf \in [Passes -> PassRows] /\ \A q \in Passes : Unmarked(passOf[q])
    BY DEF DemoInv, DemoTypeOK
  <1>2. seeded' = seeded /\ loose' \in [Kinds -> Nat] /\ passOf[p].op = "sweep"
    BY <1>1 DEF SweepLoose
  <1> DEFINE mine == CASE k = "product" -> [passOf[p] EXCEPT !.kind = "endpoint"]
                       [] k = "endpoint" -> [passOf[p] EXCEPT !.kind = "pk"]
                       [] k = "pk" -> [passOf[p] EXCEPT !.op = "find", !.kind = "product"]
  <1>3. /\ passOf' = [q \in Passes |->
             IF q = p THEN mine
             ELSE IF HasFresh(q, k) THEN [passOf[q] EXCEPT !.fresh = Off(k)] ELSE passOf[q]]
    BY DEF SweepLoose
  <1>4. mine \in PassRows /\ Unmarked(mine)
    BY <1>1, <1>2 DEF PassRows, Unmarked, Kinds
  <1>5. ASSUME NEW q \in Passes, HasFresh(q, k)
        PROVE  /\ [passOf[q] EXCEPT !.fresh = Off(k)] \in PassRows
               /\ Unmarked([passOf[q] EXCEPT !.fresh = Off(k)])
    BY <1>1, <1>5 DEF PassRows, Unmarked, HasFresh, Off
  <1> HIDE DEF mine
  <1>6. passOf' \in [Passes -> PassRows] /\ \A q \in Passes : Unmarked(passOf'[q])
    BY <1>1, <1>3, <1>4, <1>5
  <1>7. QED
    BY <1>1, <1>2, <1>6, DemoStep

LEMMA AbandonDemoInv ==
  ASSUME DemoInv, NEW p \in Passes, Abandon(p), seeded' = seeded
  PROVE  DemoInv'
  <1>1. /\ seeded \in [Kinds -> {"missing", "as made", "changed"}]
        /\ passOf' = [passOf EXCEPT ![p] = Between]
    BY DEF DemoInv, DemoTypeOK, Abandon
  <1>2. loose' \in [Kinds -> Nat]
    <2>1. loose \in [Kinds -> Nat] /\ passOf[p] \in PassRows
      BY DEF DemoInv, DemoTypeOK
    <2>2. CASE passOf[p].fresh = "on"
      <3>1. passOf[p].kind \in Kinds
        BY <2>2 DEF DemoInv, Unmarked
      <3>2. loose' = [loose EXCEPT ![passOf[p].kind] = loose[passOf[p].kind] + 1]
        BY <2>2 DEF Abandon
      <3>3. QED
        BY <2>1, <3>1, <3>2, LooseChanges
    <2>3. CASE passOf[p].fresh # "on"
      BY <2>1, <2>3 DEF Abandon
    <2>4. QED
      BY <2>2, <2>3
  <1>3. QED
    BY <1>1, <1>2, GoesOn, DemoStep

LEMMA PassDemoInv ==
  ASSUME DemoInv, NEW p \in Passes, PassStep(p)
  PROVE  DemoInv'
  <1>1. /\ seeded \in [Kinds -> {"missing", "as made", "changed"}] /\ loose \in [Kinds -> Nat]
        /\ passOf \in [Passes -> PassRows] /\ passOf[p] \in PassRows
        /\ Unmarked(passOf[p]) /\ {"product", "endpoint", "pk"} = Kinds
    BY DEF DemoInv, DemoTypeOK, Kinds
  <1>2. ASSUME NEW k \in Kinds, Find(p, k)
        PROVE  DemoInv'
    <2>1. UNCHANGED <<seeded, loose>>
      BY <1>2 DEF Find
    <2>2. \/ Goes(p, "clear", k) \/ Goes(p, "insert", k) \/ Goes(p, "restore", k)
          \/ AfterKind(p, k)
      BY <1>2 DEF Find
    <2>3. passOf' \in [Passes -> PassRows] /\ \A q \in Passes : Unmarked(passOf'[q])
      BY <2>2, GoesOn, AfterKindGoesOn
    <2>4. QED
      BY <1>1, <2>1, <2>3, DemoStep
  <1>3. CASE Clear(p)
    <2>1. seeded' \in [Kinds -> {"missing", "as made", "changed"}] /\ loose' \in [Kinds -> Nat]
      <3>1. "pk" \in Kinds /\ seeded' = [seeded EXCEPT !["pk"] = "missing"]
        BY <1>1, <1>3 DEF Clear
      <3>2. PICK n \in {0, 1} : loose' = [loose EXCEPT !["pk"] = loose["pk"] + n]
        BY <1>3 DEF Clear
      <3>3. n \in Nat
        OBVIOUS
      <3>4. loose' \in [Kinds -> Nat]
        BY <1>1, <3>1, <3>2, <3>3, LooseChanges
      <3>5. QED
        BY <1>1, <3>1, <3>4
    <2>2. passOf' \in [Passes -> PassRows] /\ \A q \in Passes : Unmarked(passOf'[q])
      BY <1>1, <1>3, GoesOn DEF Clear
    <2>3. QED
      BY <2>1, <2>2, DemoStep
  <1>4. CASE Insert(p)
    <2> DEFINE row == [passOf[p] EXCEPT !.op = "mark", !.fresh = "on"]
    <2>1. row \in PassRows /\ Unmarked(row)
      BY <1>1, <1>4 DEF PassRows, Unmarked, Insert
    <2>2. passOf' = [passOf EXCEPT ![p] = row] /\ UNCHANGED <<seeded, loose>>
      BY <1>1, <1>4 DEF Insert
    <2> HIDE DEF row
    <2>3. QED
      BY <1>1, <2>1, <2>2, OnePass, DemoStep
  <1>5. ASSUME NEW k \in Kinds, Mark(p, k)
        PROVE  DemoInv'
    <2>1. CASE seeded[k] # "missing" /\ passOf[p].fresh # "gone"
      BY <1>5, <2>1, AbandonDemoInv DEF Mark
    <2>2. CASE ~(seeded[k] # "missing" /\ passOf[p].fresh # "gone")
      <3>1. seeded' \in [Kinds -> {"missing", "as made", "changed"}] /\ loose' = loose
        BY <1>1, <1>5, <2>2 DEF Mark
      <3>2. Goes(p, "restore", k) \/ AfterKind(p, k)
        BY <1>5, <2>2 DEF Mark
      <3>3. passOf' \in [Passes -> PassRows] /\ \A q \in Passes : Unmarked(passOf'[q])
        BY <3>2, GoesOn, AfterKindGoesOn
      <3>4. QED
        BY <1>1, <3>1, <3>3, DemoStep
    <2>3. QED
      BY <2>1, <2>2
  <1>6. ASSUME NEW k \in Kinds, Restore(p, k)
        PROVE  DemoInv'
    <2>1. Restored(k) \in {"missing", "as made"}
      BY DEF Restored
    <2>2. seeded' \in [Kinds -> {"missing", "as made", "changed"}] /\ loose' = loose
      BY <1>1, <1>6, <2>1 DEF Restore
    <2>3. passOf' \in [Passes -> PassRows] /\ \A q \in Passes : Unmarked(passOf'[q])
      BY <1>6, AfterKindGoesOn DEF Restore
    <2>4. QED
      BY <1>1, <2>2, <2>3, DemoStep
  <1>7. QED
    BY <1>2, <1>3, <1>4, <1>5, <1>6, SweepDemoInv DEF PassStep

LEMMA NextDemoInv == DemoInv /\ [DemoNext]_demoVars => DemoInv'
  <1> SUFFICES ASSUME DemoInv, [DemoNext]_demoVars PROVE DemoInv'
    OBVIOUS
  <1>1. ASSUME NEW p \in Passes, CutShort(p)
        PROVE  DemoInv'
    BY <1>1, AbandonDemoInv DEF CutShort
  <1>2. CASE UNCHANGED demoVars
    BY <1>2 DEF demoVars, DemoInv, DemoTypeOK
  <1>3. QED
    BY <1>1, <1>2, OthersDemoInv, StartsDemoInv, PassDemoInv DEF DemoNext

-----------------------------------------------------------------------------
(* The keeper's settlements.                                               *)

StatusRows == [Meters -> {"active", "paused", "canceled"}]

KeeperPasses ==
  [at : {"asleep", "slice", "estimate", "stamp"}, todo : Seq(Meters), slice : Seq(Meters),
   ready : Seq([row : Meters, gas : Nat])]

(* A batch never grows past its size: what is estimated was in the slice.  *)
PassFits(p) ==
  /\ p.at = "stamp" => p.ready # << >>
  /\ Len(p.ready) + Len(p.slice) <= Batch

SettlerInv ==
  /\ chain \in StatusRows /\ rowOf \in StatusRows
  /\ capped \subseteq Meters /\ cadence \subseteq Meters /\ requested \subseteq Meters
  /\ pass \in KeeperPasses /\ PassFits(pass)

LEMMA AsleepFits == Asleep \in KeeperPasses /\ PassFits(Asleep)
  <1>1. << >> \in Seq(Meters) /\ << >> \in Seq([row : Meters, gas : Nat]) /\ Len(<< >>) = 0
    OBVIOUS
  <1>2. QED
    BY <1>1, SettlerAssumption DEF Asleep, KeeperPasses, PassFits

LEMMA InitSettlerInv == SettlerInit => SettlerInv
  BY AsleepFits DEF SettlerInit, SettlerInv, StatusRows

LEMMA ChainSettlerInv ==
  ASSUME SettlerInv,
         \/ \E s \in Meters : RunsToCap(s) \/ Moves(s) \/ Indexed(s) \/ CadencePasses(s)
         \/ MineBatch \/ ReconcileRequested \/ ReconcileAll
  PROVE  SettlerInv'
  <1>1. ASSUME NEW s \in Meters, RunsToCap(s) \/ CadencePasses(s)
        PROVE  SettlerInv'
    BY <1>1 DEF SettlerInv, RunsToCap, CadencePasses
  <1>2. ASSUME NEW s \in Meters, Moves(s) \/ Indexed(s)
        PROVE  SettlerInv'
    BY <1>2 DEF SettlerInv, Moves, Indexed, StatusRows
  <1>3. CASE MineBatch
    <2>1. PICK cut \in SUBSET Meters :
            chain' = [m \in Meters |-> IF m \in cut THEN "canceled" ELSE chain[m]]
      <3>1. PICK done :
              chain' = [m \in Meters |-> IF m \in done \cap capped /\ chain[m] = "active"
                                         THEN "canceled" ELSE chain[m]]
        BY <1>3 DEF MineBatch
      <3> DEFINE cut == {m \in Meters : m \in done \cap capped /\ chain[m] = "active"}
      <3>2. chain' = [m \in Meters |-> IF m \in cut THEN "canceled" ELSE chain[m]]
        BY <3>1
      <3>3. QED
        BY <3>2
    <2>2. UNCHANGED <<capped, rowOf, cadence, pass, requested>>
      BY <1>3 DEF MineBatch
    <2>3. QED
      BY <2>1, <2>2 DEF SettlerInv, StatusRows
  <1>4. CASE ReconcileRequested \/ ReconcileAll
    <2>1. \E due : Reconciled(due)
      BY <1>4 DEF ReconcileRequested, ReconcileAll
    <2>2. QED
      BY <2>1 DEF SettlerInv, StatusRows, Reconciled
  <1>5. QED
    BY <1>1, <1>2, <1>3, <1>4

(* What a step of a pass has to show.                                      *)
LEMMA PassSettlerInv ==
  ASSUME SettlerInv, pass' \in KeeperPasses, PassFits(pass'), UNCHANGED <<chain, rowOf, capped>>,
         cadence' \subseteq Meters, requested' \subseteq Meters
  PROVE  SettlerInv'
  BY DEF SettlerInv

LEMMA SelectSettlerInv ==
  ASSUME SettlerInv, selectDue
  PROVE  SettlerInv'
  <1>1. PICK queued \in SetToSeqs(DueRows) :
          pass' = [pass EXCEPT !.at = "slice", !.todo = queued]
    BY DEF selectDue
  <1>2. DueRows \subseteq Meters /\ IsFiniteSet(DueRows)
    BY SettlerAssumption, FS_Subset DEF DueRows
  <1>3. Cardinality(DueRows) \in Nat
    BY <1>2, FS_CardinalityType
  <1>4. queued \in [1 .. Cardinality(DueRows) -> DueRows]
    BY DEF SetToSeqs
  <1>5. queued \in Seq(Meters)
    BY <1>2, <1>3, <1>4
  <1>6. pass' \in KeeperPasses /\ PassFits(pass')
    <2>1. pass \in KeeperPasses /\ Len(pass.ready) + Len(pass.slice) <= Batch
      BY DEF SettlerInv, PassFits
    <2>2. /\ pass' \in KeeperPasses /\ pass'.at = "slice"
          /\ pass'.ready = pass.ready /\ pass'.slice = pass.slice
      BY <1>1, <1>5, <2>1 DEF KeeperPasses
    <2>3. QED
      BY <2>1, <2>2 DEF PassFits
  <1>7. QED
    BY <1>6, PassSettlerInv DEF selectDue, SettlerInv

LEMMA SliceSettlerInv ==
  ASSUME SettlerInv, Slice
  PROVE  SettlerInv'
  <1> DEFINE n == IF Len(pass.todo) < Batch THEN Len(pass.todo) ELSE Batch
             rest == SubSeq(pass.todo, n + 1, Len(pass.todo))
             first == SubSeq(pass.todo, 1, n)
  <1>1. pass.todo \in Seq(Meters) /\ Batch \in Nat
    BY SettlerAssumption DEF SettlerInv, KeeperPasses
  <1>2. n \in Nat /\ n <= Batch /\ n <= Len(pass.todo)
    BY <1>1
  <1>3. /\ pass' = IF n = 0 THEN Asleep
                   ELSE [at |-> "estimate", todo |-> rest, slice |-> first, ready |-> << >>]
        /\ UNCHANGED <<chain, rowOf, capped, cadence, requested>>
    BY DEF Slice
  <1>4. first \in Seq(Meters) /\ Len(first) = n
    <2> HIDE DEF n
    <2>1. \A i \in 1 .. n : pass.todo[i] \in Meters
      BY <1>1, <1>2
    <2>2. QED
      BY <1>1, <1>2, <2>1, SubSeqProperties
  <1>5. rest \in Seq(Meters)
    <2> HIDE DEF n
    <2>1. QED
      BY <1>1, <1>2, SubSeqProperties
  <1>6. pass' \in KeeperPasses /\ PassFits(pass')
    <2> HIDE DEF n, rest, first
    <2>1. CASE n = 0
      BY <1>3, <2>1, AsleepFits
    <2>2. CASE n # 0
      <3>1. pass' = [at |-> "estimate", todo |-> rest, slice |-> first, ready |-> << >>]
        BY <1>3, <2>2
      <3>2. << >> \in Seq([row : Meters, gas : Nat]) /\ Len(<< >>) = 0
        OBVIOUS
      <3>3. pass' \in KeeperPasses
        BY <1>4, <1>5, <3>1, <3>2 DEF KeeperPasses
      <3>4. Len(pass'.ready) + Len(pass'.slice) = n /\ pass'.at = "estimate"
        BY <1>2, <1>4, <3>1, <3>2
      <3>5. QED
        BY <1>2, <3>3, <3>4 DEF PassFits
    <2>3. QED
      BY <2>1, <2>2
  <1>7. QED
    BY <1>3, <1>6, PassSettlerInv DEF SettlerInv

LEMMA EstimateSettlerInv ==
  ASSUME SettlerInv, Estimate
  PROVE  SettlerInv'
  <1> DEFINE s == Head(pass.slice)
             entry == [row |-> s, gas |-> Cost(s)]
  <1>1. /\ pass \in KeeperPasses /\ pass.slice \in Seq(Meters) /\ pass.slice # << >>
        /\ pass.ready \in Seq([row : Meters, gas : Nat]) /\ pass.at = "estimate"
        /\ Len(pass.ready) + Len(pass.slice) <= Batch
    BY DEF SettlerInv, KeeperPasses, PassFits, Estimate
  <1>2. s \in Meters /\ Cost(s) \in Nat
    BY <1>1, SettlerAssumption DEF Cost
  <1>3. /\ Tail(pass.slice) \in Seq(Meters) /\ Len(Tail(pass.slice)) = Len(pass.slice) - 1
        /\ Len(pass.slice) \in Nat /\ Len(pass.ready) \in Nat
    BY <1>1
  <1>4. entry \in [row : Meters, gas : Nat]
    BY <1>2
  <1>5. \/ pass' = Estimated(s)
        \/ pass' = [pass EXCEPT !.slice = Tail(pass.slice)]
    BY DEF Estimate, Skipped
  <1>6. requested' \subseteq requested \cup {s} /\ UNCHANGED <<chain, rowOf, capped, cadence>>
    BY DEF Estimate, Skipped
  <1> HIDE DEF s
  <1>7. pass' \in KeeperPasses /\ PassFits(pass')
    <2>1. CASE pass' = Estimated(s)
      <3>1. /\ Append(pass.ready, entry) \in Seq([row : Meters, gas : Nat])
            /\ Len(Append(pass.ready, entry)) = Len(pass.ready) + 1
        BY <1>1, <1>4, AppendProperties
      <3>2. pass' = [pass EXCEPT !.slice = Tail(pass.slice), !.ready = Append(pass.ready, entry)]
        BY <2>1 DEF Estimated
      <3> HIDE DEF entry
      <3>3. /\ pass' \in KeeperPasses /\ pass'.at = "estimate"
            /\ pass'.slice = Tail(pass.slice) /\ pass'.ready = Append(pass.ready, entry)
        BY <1>1, <1>3, <3>1, <3>2 DEF KeeperPasses
      <3>4. Batch \in Nat
        BY SettlerAssumption
      <3>5. Len(pass'.ready) + Len(pass'.slice) <= Batch
        <4>1. Len(pass'.ready) = Len(pass.ready) + 1 /\ Len(pass'.slice) = Len(pass.slice) - 1
          BY <1>3, <3>1, <3>3
        <4> DEFINE a == Len(pass.ready)
                   b == Len(pass.slice)
        <4>2. a \in Nat /\ b \in Nat /\ a + b <= Batch
          BY <1>1, <1>3
        <4> HIDE DEF a, b
        <4>3. (a + 1) + (b - 1) <= Batch
          BY <3>4, <4>2
        <4>4. QED
          BY <4>1, <4>3 DEF a, b
      <3>6. QED
        BY <3>3, <3>5 DEF PassFits
    <2>2. CASE pass' = [pass EXCEPT !.slice = Tail(pass.slice)]
      <3>1. /\ pass' \in KeeperPasses /\ pass'.at = "estimate"
            /\ pass'.slice = Tail(pass.slice) /\ pass'.ready = pass.ready
        BY <1>1, <1>3, <2>2 DEF KeeperPasses
      <3>2. Batch \in Nat
        BY SettlerAssumption
      <3>3. Len(pass'.ready) + Len(pass'.slice) <= Batch
        <4>1. Len(pass'.ready) = Len(pass.ready) /\ Len(pass'.slice) = Len(pass.slice) - 1
          BY <1>3, <3>1
        <4> DEFINE a == Len(pass.ready)
                   b == Len(pass.slice)
        <4>2. a \in Nat /\ b \in Nat /\ a + b <= Batch
          BY <1>1, <1>3
        <4> HIDE DEF a, b
        <4>3. a + (b - 1) <= Batch
          BY <3>2, <4>2
        <4>4. QED
          BY <4>1, <4>3 DEF a, b
      <3>4. QED
        BY <3>1, <3>3 DEF PassFits
    <2>3. QED
      BY <1>5, <2>1, <2>2
  <1>8. QED
    BY <1>2, <1>6, <1>7, PassSettlerInv DEF SettlerInv

LEMMA BatchSettlerInv ==
  ASSUME SettlerInv, settleBatch \/ Stamp \/ WorkerRestarts
  PROVE  SettlerInv'
  <1>1. pass \in KeeperPasses /\ PassFits(pass)
    BY DEF SettlerInv
  <1>2. /\ UNCHANGED <<chain, rowOf, capped>>
        /\ cadence' \subseteq Meters /\ requested' \subseteq Meters
    BY DEF SettlerInv, settleBatch, Stamp, WorkerRestarts
  <1>3. \/ pass' = Asleep
        \/ pass' = [pass EXCEPT !.at = "slice"]
        \/ pass' = [pass EXCEPT !.at = "stamp"] /\ pass.ready # << >>
    BY DEF settleBatch, Stamp, WorkerRestarts
  <1>4. CASE pass' = Asleep
    BY <1>2, <1>4, AsleepFits, PassSettlerInv
  <1>5. CASE pass' = [pass EXCEPT !.at = "slice"]
    <2>1. /\ pass' \in KeeperPasses /\ pass'.at = "slice"
          /\ pass'.ready = pass.ready /\ pass'.slice = pass.slice
      BY <1>1, <1>5 DEF KeeperPasses
    <2>2. PassFits(pass')
      BY <1>1, <2>1 DEF PassFits
    <2>3. QED
      BY <1>2, <2>1, <2>2, PassSettlerInv
  <1>6. CASE pass' = [pass EXCEPT !.at = "stamp"] /\ pass.ready # << >>
    <2>1. /\ pass' \in KeeperPasses
          /\ pass'.ready = pass.ready /\ pass'.slice = pass.slice
      BY <1>1, <1>6 DEF KeeperPasses
    <2>2. PassFits(pass')
      BY <1>1, <1>6, <2>1 DEF PassFits
    <2>3. QED
      BY <1>2, <2>1, <2>2, PassSettlerInv
  <1>7. QED
    BY <1>3, <1>4, <1>5, <1>6

LEMMA NextSettlerInv == SettlerInv /\ [SettlerNext]_settlerVars => SettlerInv'
  <1> SUFFICES ASSUME SettlerInv, [SettlerNext]_settlerVars PROVE SettlerInv'
    OBVIOUS
  <1>1. CASE UNCHANGED settlerVars
    BY <1>1 DEF settlerVars, SettlerInv
  <1>2. CASE SettlerNext
    BY <1>2, ChainSettlerInv, SelectSettlerInv, SliceSettlerInv, EstimateSettlerInv,
       BatchSettlerInv DEF SettlerNext, Keeps
  <1>3. QED
    BY <1>1, <1>2

-----------------------------------------------------------------------------
(* The parts together: every step of the run is a step of one part.        *)

LEMMA EachPart ==
  PartsSpec =>
    /\ DeliveriesSpec /\ CliSpec /\ NorthwindSpec
    /\ SettlerInit /\ [][SettlerNext]_settlerVars
    /\ WidgetInit /\ [][WidgetNext]_widgetVars /\ DemoInit /\ [][DemoNext]_demoVars
  <1>1. PartsInit =>
          /\ DeliveriesInit /\ CliInit /\ NorthwindInit /\ SettlerInit
          /\ WidgetInit /\ DemoInit
    BY DEF PartsInit
  <1>2. [PartsNext]_partsVars =>
          /\ [DeliveriesNext]_queueVars /\ [CliNext]_cliVars /\ [NorthwindNext]_northVars
          /\ [SettlerNext]_settlerVars /\ [WidgetNext]_widgetVars /\ [DemoNext]_demoVars
    BY DEF PartsNext, partsVars
  <1>3. QED
    BY <1>1, <1>2, PTL DEF PartsSpec, DeliveriesSpec, CliSpec, NorthwindSpec

(* The type invariant of the run, for every value of its constants: no     *)
(* batch of the keeper is larger than BATCH_SIZE, no frame is of an event  *)
(* that is not the endpoint's and nothing is marked as the seed's that was *)
(* not just inserted.                                                      *)
THEOREM PartsTypeCorrect == PartsSpec => []PartsTypeOK
  <1>1. /\ NorthInv => NorthwindTypeOK
        /\ SettlerInv => SettlerTypeOK
        /\ DemoInv => DemoTypeOK
    BY DEF NorthInv, SettlerInv, SettlerTypeOK, PassFits, KeeperPasses, StatusRows, DemoInv
  <1>2. /\ DeliveriesTypeOK /\ CliTypeOK /\ NorthwindTypeOK /\ SettlerTypeOK
        /\ WidgetTypeOK /\ DemoTypeOK
        => PartsTypeOK
    BY DEF PartsTypeOK
  <1>3. SettlerInit /\ [][SettlerNext]_settlerVars => []SettlerInv
    BY InitSettlerInv, NextSettlerInv, PTL
  <1>4. WidgetInit /\ [][WidgetNext]_widgetVars => []WidgetTypeOK
    BY WidgetTypes, PTL
  <1>5. DemoInit /\ [][DemoNext]_demoVars => []DemoInv
    BY InitDemoInv, NextDemoInv, PTL
  <1>6. QED
    BY <1>1, <1>2, <1>3, <1>4, <1>5, EachPart, QueueTypeCorrect, CliTypeCorrect,
       NorthInvariant, PTL
==============================================================================
