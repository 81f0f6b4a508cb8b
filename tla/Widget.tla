------------------------------- MODULE Widget -------------------------------
(***************************************************************************)
(* The meter on a merchant's page (sdk/react/src/use-meter.ts): it reads   *)
(* the public session again and again until the meter has ended, and asks  *)
(* for a stop in the Elapse window (popup.ts). Answers may overtake one    *)
(* another, reads may fail, and the window may close before or after its   *)
(* message.                                                                *)
(***************************************************************************)
EXTENDS Integers

VARIABLES
  sub,        (* The platform: the status of the subscription,             *)
  stopping,   (* and a cancel of the subscriber under way.                 *)
  answers,    (* Answers of reads on their way to the page.                *)
  shown,      (* The page: the session last read, "nothing" before,        *)
  failed,     (* and whether a read has failed since one succeeded.        *)
  busy,       (* A stop has been asked for,                                *)
  window,     (* the window of the stop,                                   *)
  posted,     (* its message is in the page's queue,                       *)
  stopped     (* and onStopped has been called.                            *)

widgetVars == <<sub, stopping, answers, shown, failed, busy, window, posted, stopped>>

WidgetInit ==
  /\ sub = "none" /\ stopping = FALSE /\ answers = {} /\ shown = "nothing" /\ failed = FALSE
  /\ busy = FALSE /\ window = "none" /\ posted = FALSE /\ stopped = FALSE

View ==
  CASE shown = "nothing" -> IF failed THEN "error" ELSE "loading"
    [] shown \in {"none", "starting"} -> "waiting"
    [] shown = "held" -> "held"
    [] shown = "active" -> "running"
    [] shown = "paused" -> "paused"
    [] shown = "canceled" -> "ended"

-----------------------------------------------------------------------------
(* The platform.                                                           *)

SubMoves ==
  /\ \/ sub = "none" /\ sub' \in {"starting", "held"}
     \/ sub \in {"starting", "held", "paused"} /\ sub' = "active"
     \/ sub = "active" /\ sub' = "paused"
     \/ sub \in {"starting", "held", "active", "paused"} /\ sub' = "canceled"
  /\ UNCHANGED <<stopping, answers, shown, failed, busy, window, posted, stopped>>

CancelConfirmed ==
  /\ stopping /\ stopping' = FALSE /\ sub' = "canceled"
  /\ UNCHANGED <<answers, shown, failed, busy, window, posted, stopped>>

-----------------------------------------------------------------------------
(* Reads: on mount, every FOLLOW_MS and on focus, and when the page asks.  *)

(* Wrong: only a meter that runs is followed.                              *)
FollowsRunning == View = "running"

Follows == View \notin {"ended", "loading", "error"}

Asks == answers' = answers \cup {sub}

Read ==
  /\ Asks
  /\ UNCHANGED <<sub, stopping, shown, failed, busy, window, posted, stopped>>

Mount == shown = "nothing" /\ ~failed /\ answers = {} /\ Read

Follow == Follows /\ Read

Refresh == Read

ReadArrives(s) ==
  /\ s \in answers /\ answers' = answers \ {s}
  /\ shown' = s /\ failed' = FALSE
  /\ UNCHANGED <<sub, stopping, busy, window, posted, stopped>>

ReadFails ==
  /\ answers # {} /\ \E s \in answers : answers' = answers \ {s}
  /\ failed' = TRUE
  /\ UNCHANGED <<sub, stopping, shown, busy, window, posted, stopped>>

-----------------------------------------------------------------------------
(* A stop, in the Elapse window.                                           *)

canStop == View \in {"held", "running", "paused"}

Stop ==
  /\ canStop /\ window \in {"none", "closed"}
  /\ busy' = TRUE /\ posted' = FALSE
  /\ window' \in {"open", "closed"}       (* or the browser blocks it      *)
  /\ UNCHANGED <<sub, stopping, answers, shown, failed, stopped>>

(* The platform accepts the signed stop; one that has ended refuses it.    *)
Signs ==
  /\ window = "open" /\ ~posted /\ sub # "canceled"
  /\ stopping' = TRUE /\ posted' = TRUE
  /\ UNCHANGED <<sub, answers, shown, failed, busy, window, stopped>>

WindowCloses ==
  /\ window = "open" /\ window' = "closed"
  /\ UNCHANGED <<sub, stopping, answers, shown, failed, busy, posted, stopped>>

MessageArrives ==
  /\ busy /\ posted /\ busy' = FALSE /\ posted' = FALSE /\ stopped' = TRUE
  /\ Asks
  /\ UNCHANGED <<sub, stopping, shown, failed, window>>

(* The poll that notices a closed window; it may come before the message.  *)
SeenClosed ==
  /\ busy /\ window = "closed" /\ busy' = FALSE /\ posted' = FALSE
  /\ UNCHANGED <<sub, stopping, answers, shown, failed, window, stopped>>

-----------------------------------------------------------------------------

Statuses == {"none", "starting", "held", "active", "paused", "canceled"}

WidgetNext ==
  \/ SubMoves \/ CancelConfirmed
  \/ Mount \/ Follow \/ Refresh \/ ReadFails
  \/ \E s \in Statuses : ReadArrives(s)
  \/ Stop \/ Signs \/ WindowCloses \/ MessageArrives \/ SeenClosed

-----------------------------------------------------------------------------
(* Properties.                                                             *)

WidgetTypeOK ==
  /\ sub \in Statuses /\ shown \in Statuses \cup {"nothing"} /\ answers \subseteq Statuses
  /\ stopping \in BOOLEAN /\ failed \in BOOLEAN /\ busy \in BOOLEAN /\ posted \in BOOLEAN
  /\ stopped \in BOOLEAN /\ window \in {"none", "open", "closed"}

(* A meter that has ended shows as ended for good, however its reads       *)
(* overtake one another or fail, once the page has read the session at all *)
(* (FR-CHK-032).                                                           *)
EndIsShown == <>[](sub = "canceled" /\ shown # "nothing") => <>[](View = "ended")
=============================================================================
