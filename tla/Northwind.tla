----------------------------- MODULE Northwind ------------------------------
(***************************************************************************)
(* The example merchant with a server of its own (examples/lambda/src):    *)
(* it sells runs of code, starts the meter with a run and ends it after,   *)
(* and must leave none running. Its session store is in memory; the        *)
(* platform tells it what happened by webhooks, late, twice or in another  *)
(* order. One subscription.                                                *)
(*                                                                         *)
(* Windows of time are abstracted: a deadline, the idle timeout or a stale *)
(* heartbeat may have passed at any moment.                                *)
(***************************************************************************)
EXTENDS Integers

CONSTANTS
  MaxCancelAttempts,   (* MAX_CANCEL_ATTEMPTS.                             *)
  MaxRuns,             (* Bound on runs asked for.                         *)
  MaxMishaps           (* Bound on failed calls and restarts, together.    *)

ASSUME NorthwindAssumption ==
  MaxCancelAttempts \in Nat \ {0} /\ MaxRuns \in Nat /\ MaxMishaps \in Nat

VARIABLES
  meter,     (* The platform: the subscription,                            *)
  flight,    (* its transactions under way,                                *)
  told,      (* the events it has had,                                     *)
  owed,      (* and those not yet delivered.                               *)
  session,   (* The server: the session of this subscription,              *)
  heard,     (* events handled,                                            *)
  issued,    (* the checkout session is one of its own,                    *)
  claim,     (* what a claim has read, "none" between claims,              *)
  boot,      (* what the boot has read, "done" once it is up,              *)
  runner,    (* the run under way,                                         *)
  queue,     (* runs of this subscription waiting, that one included,      *)
  ending,    (* and the callers waiting for a cancel to be answered.       *)
  orphaned,  (* A restart missed a meter that was starting.                *)
  asks, mishaps

platform == <<meter, flight, told, owed>>
server   == <<session, heard, issued, claim, boot, runner, queue, ending>>
northVars == <<platform, server, orphaned, asks, mishaps>>

Calls == {"start", "resume", "cancel"}

Unknown == [state |-> "none", canceling |-> FALSE, fails |-> 0, seen |-> FALSE]

NorthwindInit ==
  /\ meter = "unfunded" /\ flight = {} /\ told = {} /\ owed = {}
  /\ session = Unknown /\ heard = {} /\ issued = TRUE
  /\ claim = "none" /\ boot = "done" /\ runner = "idle" /\ queue = 0 /\ ending = {}
  /\ orphaned = FALSE
  /\ asks = 0 /\ mishaps = 0

Fine == UNCHANGED mishaps

Outage == mishaps < MaxMishaps /\ mishaps' = mishaps + 1

-----------------------------------------------------------------------------
(* The platform. A transaction it has accepted is mined or reverts.        *)

Becomes(status, event) ==
  /\ meter' = status
  /\ told' = told \cup {event} /\ owed' = owed \cup ({event} \ told)

Escrowed ==
  /\ meter = "unfunded" /\ Becomes("held", "created")
  /\ UNCHANGED <<flight, server, orphaned, asks, mishaps>>

Effective(call) ==
  \/ call = "start" /\ meter = "held"
  \/ call = "resume" /\ meter = "paused"
  \/ call = "cancel" /\ meter \in {"held", "active", "paused"}

MeterMined(call) ==
  /\ call \in flight /\ flight' = flight \ {call}
  /\ IF ~Effective(call) THEN UNCHANGED <<meter, told, owed>>
     ELSE CASE call = "start"  -> Becomes("active", "active")
            [] call = "resume" -> Becomes("active", "resumed")
            [] call = "cancel" -> Becomes("canceled", "canceled")
  /\ UNCHANGED <<server, orphaned, asks, mishaps>>

(* The cap, the sweep of held sessions, or a pause from the dashboard.     *)
MeterMoves ==
  /\ \/ meter \in {"held", "active", "paused"} /\ Becomes("canceled", "canceled")
     \/ meter = "active" /\ "paused" \notin told /\ Becomes("paused", "paused")
  /\ UNCHANGED <<flight, server, orphaned, asks, mishaps>>

(* A call that is not made leaves everything as it is.                     *)
Accepts(call) ==
  /\ Effective(call) /\ call \notin flight
  /\ flight' = flight \cup {call}
  /\ UNCHANGED <<meter, told, owed>>

Refuses(call) == (~Effective(call) \/ call \in flight) /\ UNCHANGED platform

-----------------------------------------------------------------------------
(* Webhooks: each event id once, for as long as the server stays up.       *)

Authorised(s) == [s EXCEPT !.state = "authorised", !.canceling = FALSE, !.fails = 0]

Active(s) ==
  IF s.state = "none" THEN s
  ELSE [s EXCEPT !.state = "active", !.canceling = FALSE, !.seen = TRUE]

Open(s) == [s EXCEPT !.state = "active", !.canceling = FALSE, !.fails = 0, !.seen = TRUE]

Paused(s) == IF s.state = "none" THEN s ELSE [s EXCEPT !.state = "paused"]

Closed(s) == [s EXCEPT !.state = "ended", !.canceling = FALSE]

Applied(e, s) ==
  CASE e = "created" -> Authorised(s)
    [] e \in {"active", "resumed"} -> Active(s)
    [] e = "paused" -> Paused(s)
    [] e = "canceled" -> Closed(s)

Handle(e) ==
  /\ heard' = heard \cup {e}
  /\ session' = IF e \in heard THEN session ELSE Applied(e, session)
  /\ UNCHANGED <<meter, flight, told, issued, claim, boot, runner, queue, ending,
                 orphaned, asks, mishaps>>

Webhook(e) == e \in owed /\ owed' = owed \ {e} /\ Handle(e)

(* A Resend, or a delivery whose answer was lost.                          *)
WebhookAgain(e) == e \in told \ owed /\ Handle(e) /\ UNCHANGED owed

-----------------------------------------------------------------------------
(* The console: claims, heartbeats, runs, and the beacon of a closing tab. *)

ClaimRead ==
  /\ session.state = "none" /\ claim = "none"
  /\ claim' = meter
  /\ UNCHANGED <<platform, session, heard, issued, boot, runner, queue, ending,
                 orphaned, asks, mishaps>>

ClaimApply ==
  /\ claim # "none" /\ claim' = "none"
  /\ session' = IF ~issued \/ claim = "canceled" THEN session
                ELSE IF claim = "active" THEN Open(session)
                ELSE IF claim = "paused" THEN Paused(Open(session))
                ELSE Authorised(session)
  /\ issued' = (issued /\ claim \notin {"unfunded", "held"})
  /\ UNCHANGED <<platform, heard, boot, runner, queue, ending, orphaned, asks,
                 mishaps>>

Heartbeat ==
  /\ session.state # "none" /\ ~session.seen
  /\ session' = [session EXCEPT !.seen = TRUE]
  /\ UNCHANGED <<platform, heard, issued, claim, boot, runner, queue, ending,
                 orphaned, asks, mishaps>>

AskRun ==
  /\ session.state \notin {"none", "ended"} /\ ~session.canceling
  /\ asks < MaxRuns /\ asks' = asks + 1 /\ queue' = queue + 1
  /\ UNCHANGED <<platform, session, heard, issued, claim, boot, runner, ending,
                 orphaned, mishaps>>

-----------------------------------------------------------------------------
(* Ending a session, by the run, the sweep or the page.                    *)

endSession(by) ==
  IF session.state \in {"none", "ended"} \/ session.canceling
  THEN UNCHANGED <<session, ending>>
  ELSE session' = [session EXCEPT !.canceling = TRUE] /\ ending' = ending \cup {by}

(* Wrong: the guard stays after a cancel that failed.                      *)
noteFailureKeepingGuard(s) == IF s.state = "none" THEN s ELSE [s EXCEPT !.fails = @ + 1]

(* The next sweep tries again, until MAX_CANCEL_ATTEMPTS have failed.      *)
noteCancelFailure(s) ==
  IF s.state = "none" THEN s
  ELSE [s EXCEPT !.fails = IF @ = MaxCancelAttempts THEN @ ELSE @ + 1,
                 !.canceling = (s.fails + 1 >= MaxCancelAttempts)]

CancelAnswered(by) ==
  /\ by \in ending /\ ending' = ending \ {by}
  /\ \/ Accepts("cancel") /\ Fine /\ UNCHANGED session
     \/ /\ \/ Refuses("cancel") /\ Fine
           \/ (UNCHANGED platform \/ Accepts("cancel")) /\ Outage
        /\ session' = noteCancelFailure(session)
  /\ UNCHANGED <<heard, issued, claim, boot, runner, queue, orphaned, asks>>

Beacon ==
  /\ endSession("aside") /\ "aside" \notin ending
  /\ UNCHANGED <<platform, heard, issued, claim, boot, runner, queue, orphaned,
                 asks, mishaps>>

(* left: the heartbeat has gone stale.                                     *)
dueForSweep(left) ==
  /\ session.state \notin {"none", "ended"} /\ ~session.canceling /\ session.seen
  /\ left \/ session.fails > 0 \/ session.state \in {"active", "paused"}

SweepSession(left) ==
  /\ dueForSweep(left) /\ "aside" \notin ending /\ endSession("aside")
  /\ UNCHANGED <<platform, heard, issued, claim, boot, runner, queue, orphaned, asks, mishaps>>

-----------------------------------------------------------------------------
(* One run at a time: make sure the meter is on, invoke, end the session.  *)

Refused503 == runner' = "idle" /\ queue' = queue - 1

Run == session' = [session EXCEPT !.seen = TRUE] /\ runner' = "run" /\ UNCHANGED queue

Takes == runner = "idle" /\ queue > 0 /\ "run" \notin ending

RunActive ==
  /\ Takes /\ session.state = "active" /\ Run
  /\ UNCHANGED <<platform, mishaps>>

RunResumes ==
  /\ Takes /\ session.state \in {"none", "paused"} /\ UNCHANGED session
  /\ \/ Accepts("resume") /\ Fine /\ runner' = "wait" /\ UNCHANGED queue
     \/ Refuses("resume") /\ Fine /\ Refused503
     \/ UNCHANGED platform /\ Outage /\ Refused503

RunStarts ==
  /\ Takes /\ session.state = "authorised"
  /\ session' = [session EXCEPT !.state = "starting"] /\ runner' = "start" /\ UNCHANGED queue
  /\ UNCHANGED <<platform, mishaps>>

RunWaits ==
  /\ Takes /\ session.state \in {"starting", "ended"}
  /\ runner' = "wait" /\ UNCHANGED <<session, queue, platform, mishaps>>

(* "already": a start in flight or a meter that runs.                      *)
Already == "start" \in flight \/ meter = "active"

StartAccepted ==
  /\ runner = "start" /\ runner' = "wait"
  /\ \/ Accepts("start")
     \/ Already /\ UNCHANGED platform
  /\ UNCHANGED <<session, queue, mishaps>>

(* Refused, or lost: tried again until the deadline.                       *)
StartRefused ==
  /\ runner = "start"
  /\ \/ ~Effective("start") /\ ~Already /\ UNCHANGED platform /\ Fine
     \/ (UNCHANGED platform \/ Accepts("start")) /\ Outage
  /\ IF session.state = "ended" THEN Refused503 /\ UNCHANGED session
     ELSE \/ UNCHANGED <<runner, queue, session>>
          \/ Refused503 /\ session' = Authorised(session)

(* Wrong: a start that was accepted is as good as a meter that runs.       *)
WaitOverAtOnce == runner = "wait" /\ Run /\ UNCHANGED <<platform, ending, mishaps>>

WaitOver ==
  /\ runner = "wait"
  /\ \/ session.state = "active" /\ Run /\ UNCHANGED ending
     \/ session.state = "ended" /\ Refused503 /\ UNCHANGED <<session, ending>>
     \/ session.state # "active" /\ Refused503 /\ endSession("run")
  /\ UNCHANGED <<platform, mishaps>>

(* The code has run, or the daily limit refused it: the session ends.      *)
FinishRun ==
  /\ runner = "run" /\ Refused503 /\ endSession("run")
  /\ UNCHANGED <<platform, heard, issued, claim, boot, orphaned, asks, mishaps>>

RunStep ==
  \/ /\ RunActive \/ RunResumes \/ RunStarts \/ RunWaits \/ StartAccepted \/ StartRefused
     /\ UNCHANGED <<heard, issued, claim, boot, ending, orphaned, asks>>
  \/ /\ WaitOver
     /\ UNCHANGED <<heard, issued, claim, boot, orphaned, asks>>
  \/ FinishRun

-----------------------------------------------------------------------------
(* A restart loses all of it; the boot adopts the meters that run.         *)

Restart ==
  /\ Outage
  /\ session' = Unknown /\ heard' = {} /\ issued' = FALSE /\ claim' = "none"
  /\ runner' = "idle" /\ queue' = 0 /\ ending' = {} /\ boot' = "list"
  /\ UNCHANGED <<platform, orphaned, asks>>

(* The list of running subscriptions, or nothing when it cannot be had.    *)
BootList ==
  /\ boot = "list"
  /\ boot' \in {meter, "canceled"}
  /\ orphaned' = (orphaned \/ boot' \notin {"active", "paused"})
  /\ UNCHANGED <<platform, session, heard, issued, claim, runner, queue, ending,
                 asks, mishaps>>

BootAdopt ==
  /\ boot \notin {"list", "done"} /\ boot' = "done"
  /\ session' = CASE boot = "active" -> Open(session)
                  [] boot = "paused" -> Paused(Open(session))
                  [] OTHER -> session
  /\ UNCHANGED <<platform, heard, issued, claim, runner, queue, ending, orphaned,
                 asks, mishaps>>

-----------------------------------------------------------------------------

EventKinds == {"created", "active", "resumed", "paused", "canceled"}

NorthwindNext ==
  \/ Escrowed \/ MeterMoves
  \/ \E call \in Calls : MeterMined(call)
  \/ \E e \in EventKinds : Webhook(e) \/ WebhookAgain(e)
  \/ ClaimRead \/ ClaimApply \/ Heartbeat \/ AskRun \/ Beacon
  \/ \E left \in BOOLEAN : SweepSession(left)
  \/ \E by \in {"run", "aside"} : CancelAnswered(by)
  \/ RunStep
  \/ Restart \/ BootList \/ BootAdopt

NorthwindSpec == NorthwindInit /\ [][NorthwindNext]_northVars

-----------------------------------------------------------------------------
(* Properties.                                                             *)

Sessions == [state : {"none", "authorised", "starting", "active", "paused", "ended"},
             canceling : BOOLEAN, fails : 0 .. MaxCancelAttempts, seen : BOOLEAN]

NorthwindTypeOK ==
  /\ meter \in {"unfunded", "held", "active", "paused", "canceled"}
  /\ flight \subseteq Calls
  /\ told \subseteq EventKinds /\ owed \subseteq told /\ heard \subseteq told
  /\ session \in Sessions
  /\ runner \in {"idle", "start", "wait", "run"} /\ queue \in 0 .. MaxRuns
  /\ (runner # "idle" => queue > 0)
  /\ ending \subseteq {"run", "aside"}

(* No code runs before the chain has confirmed the meter, whatever order   *)
(* webhooks, claims and restarts come in (FR-EXM-125).                     *)
RunsAreMetered == runner = "run" => "active" \in told

GaveUp == session.fails = MaxCancelAttempts

(* No meter is left running once the buyer has gone: it ends, unless       *)
(* MAX_CANCEL_ATTEMPTS cancels failed or a restart came before the         *)
(* platform showed it as running (FR-EXM-117, FR-EXM-158).                 *)
MetersEnd == []<>(meter # "active" \/ GaveUp \/ orphaned)
=============================================================================
