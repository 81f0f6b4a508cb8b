------------------------------ MODULE MCParts -------------------------------
(***************************************************************************)
(* Six parts of the platform that share no state, checked in one run of  *)
(* TLC: the first state says which of them a behaviour is of, only that    *)
(* part moves, and only its fairness is assumed.                           *)
(***************************************************************************)
EXTENDS Deliveries, CliStream, Northwind, Settler, Widget, Demo

CONSTANTS d1, s1, s2, c1, c2, m1, m2

MCIds == {d1}
MCSlots == {s1, s2}
MCRetryDelay(n) == n

MCClis == {c1, c2}

(* One that reverts for ever, one whose end is never heard of.             *)
MCMeters == {m1, m2}
MCStuck == {m2}
MCUnheard == {m1}

VARIABLE part

PartsInit ==
  /\ part \in {"deliveries", "stream", "merchant", "keeper", "widget", "demo"}
  /\ DeliveriesInit /\ CliInit /\ NorthwindInit /\ SettlerInit
  /\ WidgetInit /\ DemoInit

PartsNext ==
  \/ /\ part = "deliveries" /\ DeliveriesNext
     /\ UNCHANGED <<part, cliVars, northVars, settlerVars, widgetVars, demoVars>>
  \/ /\ part = "stream" /\ CliNext
     /\ UNCHANGED <<part, queueVars, northVars, settlerVars, widgetVars, demoVars>>
  \/ /\ part = "merchant" /\ NorthwindNext
     /\ UNCHANGED <<part, queueVars, cliVars, settlerVars, widgetVars, demoVars>>
  \/ /\ part = "keeper" /\ SettlerNext
     /\ UNCHANGED <<part, queueVars, cliVars, northVars, widgetVars, demoVars>>
  \/ /\ part = "widget" /\ WidgetNext
     /\ UNCHANGED <<part, queueVars, cliVars, northVars, settlerVars, demoVars>>
  \/ /\ part = "demo" /\ DemoNext
     /\ UNCHANGED <<part, queueVars, cliVars, northVars, settlerVars, widgetVars>>

partsVars == <<part, queueVars, cliVars, northVars, settlerVars, widgetVars, demoVars>>

(* The poll loop claims whatever is due, an attempt ends by its time limit *)
(* and time goes on. Nobody else has to act.                               *)
DeliveriesFairness ==
  /\ \A d \in Ids : WF_queueVars(part = "deliveries" /\ \E s \in Slots : Claim(s, d))
  /\ \A s \in Slots : WF_queueVars(part = "deliveries" /\ Work(s))
  /\ WF_queueVars(part = "deliveries" /\ Tick)

(* The worker sweeps every minute and time goes on; nobody has to listen,  *)
(* no connection has to hold and no stream to go on.                       *)
CliFairness ==
  /\ \A d \in Frames : WF_cliVars(part = "stream" /\ GrowOld(d))
  /\ WF_cliVars(part = "stream" /\ Sweep)

(* What is broadcast is mined, webhooks are delivered and handled, the     *)
(* sweep ticks, calls are answered, runs go on and the buyer leaves.       *)
NorthwindFairness ==
  /\ WF_northVars(part = "merchant" /\ \E call \in Calls : MeterMined(call))
  /\ WF_northVars(part = "merchant" /\ \E e \in EventKinds : Webhook(e))
  /\ WF_northVars(part = "merchant" /\ SweepSession(TRUE))
  /\ WF_northVars(part = "merchant" /\ \E by \in {"run", "aside"} : CancelAnswered(by))
  /\ WF_northVars(part = "merchant" /\ RunStep)
  /\ WF_northVars(part = "merchant" /\ (BootList \/ BootAdopt))

(* The keeper ticks, what is broadcast is mined, logs that are heard are   *)
(* ingested and reconcile is run.                                          *)
SettlerFairness ==
  /\ WF_settlerVars(part = "keeper" /\ Keeps)
  /\ WF_settlerVars(part = "keeper" /\ MineBatch)
  /\ WF_settlerVars(part = "keeper" /\ ReconcileAll)
  /\ \A s \in Meters : WF_settlerVars(part = "keeper" /\ Indexed(s))

(* The interval fires, and not every read fails.                           *)
WidgetFairness ==
  /\ WF_widgetVars(part = "widget" /\ Follow)
  /\ SF_widgetVars(part = "widget" /\ \E s \in Statuses : ReadArrives(s))

(* The worker resets every six hours and a pass goes on.                   *)
DemoFairness ==
  /\ WF_demoVars(part = "demo" /\ WorkerStarts)
  /\ \A p \in Passes : WF_demoVars(part = "demo" /\ PassStep(p))

PartsFairness ==
  /\ DeliveriesFairness /\ CliFairness /\ NorthwindFairness
  /\ SettlerFairness /\ WidgetFairness /\ DemoFairness

PartsSpec == PartsInit /\ [][PartsNext]_partsVars /\ PartsFairness

-----------------------------------------------------------------------------

(* Every part keeps its types.                                             *)
PartsTypeOK ==
  /\ DeliveriesTypeOK /\ CliTypeOK /\ NorthwindTypeOK /\ SettlerTypeOK
  /\ WidgetTypeOK /\ DemoTypeOK
=============================================================================
