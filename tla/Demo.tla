-------------------------------- MODULE Demo --------------------------------
(***************************************************************************)
(* The demo merchant's configuration: judges make products, endpoints and  *)
(* keys, and a reset of the worker turns theirs off and puts the seed's    *)
(* back (api/src/worker/demo-reset.ts, services/demo-catalog.ts); the      *)
(* demo:seed and demo:reset scripts may run beside it. A seed object is    *)
(* inserted first and marked as one afterwards. One of each kind; "pk" is  *)
(* the publishable key, and loose secret keys.                             *)
(***************************************************************************)
EXTENDS Integers

CONSTANTS
  MaxChanges,   (* Bound on what judges and the examples change.           *)
  MaxScripts,   (* Bound on runs of the scripts.                           *)
  MaxCutShort   (* Bound on passes that crash or fail.                     *)

ASSUME DemoAssumption == MaxChanges \in Nat /\ MaxScripts \in Nat /\ MaxCutShort \in Nat

VARIABLES
  seeded,    (* The seed object of each kind,                              *)
  loose,     (* and the others that are on.                                *)
  passOf,    (* The worker's pass and that of a script.                    *)
  changes, scripts, cutShort

demoVars == <<seeded, loose, passOf, changes, scripts, cutShort>>

Kinds == {"product", "endpoint", "pk"}

Passes == {"worker", "script"}

Between == [op |-> "none", kind |-> "none", fresh |-> "none", reset |-> FALSE]

DemoInit ==
  /\ seeded = [k \in Kinds |-> "missing"] /\ loose = [k \in Kinds |-> 0]
  /\ passOf = [p \in Passes |-> Between]
  /\ changes = 0 /\ scripts = 0 /\ cutShort = 0

-----------------------------------------------------------------------------
(* Judges, who cannot write what carries a seed key, and the others.       *)

Change == changes < MaxChanges /\ changes' = changes + 1

JudgeMakes(k) ==
  /\ Change /\ loose' = [loose EXCEPT ![k] = @ + 1]
  /\ UNCHANGED <<seeded, passOf, scripts, cutShort>>

Off(k) == IF k = "endpoint" THEN "gone" ELSE "off"

HasFresh(p, k) == passOf[p].kind = k /\ passOf[p].fresh # "none"

(* Archived, deleted or revoked: theirs, or one that is not marked yet.    *)
JudgeEnds(k) ==
  /\ Change
  /\ \/ loose[k] > 0 /\ loose' = [loose EXCEPT ![k] = @ - 1] /\ UNCHANGED passOf
     \/ \E p \in Passes : k # "pk" /\ HasFresh(p, k) /\ UNCHANGED loose
                          /\ passOf' = [passOf EXCEPT ![p].fresh = Off(k)]
  /\ UNCHANGED <<seeded, scripts, cutShort>>

(* An example's key writes its product, the worker disables an endpoint, a *)
(* judge deletes one that was looked at before it was marked.              *)
SeedChanges(k) ==
  /\ Change /\ k # "pk" /\ seeded[k] # "missing"
  /\ \/ seeded' = [seeded EXCEPT ![k] = "changed"]
     \/ k = "endpoint" /\ seeded' = [seeded EXCEPT ![k] = "missing"]
  /\ UNCHANGED <<loose, passOf, scripts, cutShort>>

-----------------------------------------------------------------------------
(* A pass: turn off what is loose, kind by kind, and then ensure and       *)
(* restore each kind of the seed. demo:seed only ensures.                  *)

Goes(p, op, kind) == passOf' = [passOf EXCEPT ![p].op = op, ![p].kind = kind, ![p].fresh = "none"]

AfterKind(p, k) ==
  CASE k = "product" -> Goes(p, "find", "endpoint")
    [] k = "endpoint" /\ passOf[p].reset -> Goes(p, "find", "pk")
    [] OTHER -> passOf' = [passOf EXCEPT ![p] = Between]

WorkerStarts ==
  /\ passOf["worker"] = Between
  /\ passOf' = [passOf EXCEPT !["worker"] = [Between EXCEPT !.op = "sweep", !.kind = "product", !.reset = TRUE]]
  /\ UNCHANGED <<seeded, loose, changes, scripts, cutShort>>

ScriptStarts(reset) ==
  /\ passOf["script"] = Between /\ scripts < MaxScripts /\ scripts' = scripts + 1
  /\ passOf' = [passOf EXCEPT !["script"] =
       [Between EXCEPT !.op = IF reset THEN "sweep" ELSE "find", !.kind = "product", !.reset = reset]]
  /\ UNCHANGED <<seeded, loose, changes, cutShort>>

(* Also what another pass has inserted and not yet marked.                 *)
SweepLoose(p, k) ==
  /\ passOf[p].op = "sweep" /\ passOf[p].kind = k
  /\ loose' = [loose EXCEPT ![k] = 0]
  /\ passOf' = [q \in Passes |->
       IF q = p THEN CASE k = "product" -> [passOf[p] EXCEPT !.kind = "endpoint"]
                       [] k = "endpoint" -> [passOf[p] EXCEPT !.kind = "pk"]
                       [] k = "pk" -> [passOf[p] EXCEPT !.op = "find", !.kind = "product"]
       ELSE IF HasFresh(q, k) THEN [passOf[q] EXCEPT !.fresh = Off(k)]
       ELSE passOf[q]]
  /\ UNCHANGED <<seeded, changes, scripts, cutShort>>

(* A publishable key has to work; the others only have to be there.        *)
Found(k) == IF k = "pk" THEN seeded[k] = "as made" ELSE seeded[k] # "missing"

Find(p, k) ==
  /\ passOf[p].op = "find" /\ passOf[p].kind = k
  /\ IF ~Found(k) THEN Goes(p, IF k = "pk" THEN "clear" ELSE "insert", k)
     ELSE IF k # "pk" /\ passOf[p].reset THEN Goes(p, "restore", k)
     ELSE AfterKind(p, k)
  /\ UNCHANGED <<seeded, loose, changes, scripts, cutShort>>

(* The key with the seed's mark, works or not, is the seed's no more.      *)
Clear(p) ==
  /\ passOf[p].op = "clear" /\ Goes(p, "insert", "pk")
  /\ seeded' = [seeded EXCEPT !["pk"] = "missing"]
  /\ loose' = [loose EXCEPT !["pk"] = @ + (IF seeded["pk"] = "as made" THEN 1 ELSE 0)]
  /\ UNCHANGED <<changes, scripts, cutShort>>

Insert(p) ==
  /\ passOf[p].op = "insert"
  /\ passOf' = [passOf EXCEPT ![p].op = "mark", ![p].fresh = "on"]
  /\ UNCHANGED <<seeded, loose, changes, scripts, cutShort>>

(* What an aborted pass inserted stays, unmarked.                          *)
Abandon(p) ==
  /\ passOf' = [passOf EXCEPT ![p] = Between]
  /\ loose' = IF passOf[p].fresh = "on" THEN [loose EXCEPT ![passOf[p].kind] = @ + 1] ELSE loose

(* One object of a key: a second one that is marked fails the pass.        *)
Mark(p, k) ==
  /\ passOf[p].op = "mark" /\ passOf[p].kind = k
  /\ IF seeded[k] # "missing" /\ passOf[p].fresh # "gone"
     THEN Abandon(p) /\ UNCHANGED seeded
     ELSE /\ seeded' = [seeded EXCEPT ![k] = CASE passOf[p].fresh = "on" -> "as made"
                                               [] passOf[p].fresh = "off" -> "changed"
                                               [] OTHER -> @]
          /\ UNCHANGED loose
          /\ IF k # "pk" /\ passOf[p].reset THEN Goes(p, "restore", k) ELSE AfterKind(p, k)
  /\ UNCHANGED <<changes, scripts, cutShort>>

(* Wrong: an object that is there is taken to be as it was made.           *)
RestoredAsFound(k) == seeded[k]

Restored(k) == IF seeded[k] = "missing" THEN "missing" ELSE "as made"

Restore(p, k) ==
  /\ passOf[p].op = "restore" /\ passOf[p].kind = k
  /\ seeded' = [seeded EXCEPT ![k] = Restored(k)]
  /\ AfterKind(p, k)
  /\ UNCHANGED <<loose, changes, scripts, cutShort>>

CutShort(p) ==
  /\ passOf[p] # Between /\ cutShort < MaxCutShort /\ cutShort' = cutShort + 1
  /\ Abandon(p)
  /\ UNCHANGED <<seeded, changes, scripts>>

PassStep(p) ==
  \/ \E k \in Kinds : SweepLoose(p, k) \/ Find(p, k) \/ Mark(p, k) \/ Restore(p, k)
  \/ Clear(p) \/ Insert(p)

DemoNext ==
  \/ \E k \in Kinds : JudgeMakes(k) \/ JudgeEnds(k) \/ SeedChanges(k)
  \/ WorkerStarts \/ \E reset \in BOOLEAN : ScriptStarts(reset)
  \/ \E p \in Passes : PassStep(p) \/ CutShort(p)

-----------------------------------------------------------------------------
(* Properties.                                                             *)

DemoTypeOK ==
  /\ seeded \in [Kinds -> {"missing", "as made", "changed"}] /\ loose \in [Kinds -> Nat]
  /\ \A p \in Passes : passOf[p].fresh # "none" => passOf[p].op = "mark"

AsSeeded == \A k \in Kinds : seeded[k] = "as made" /\ loose[k] = 0

(* Once nobody changes anything and while the worker goes on resetting,    *)
(* every seed object is there as it was made and nothing else is on, for   *)
(* good, though passes crashed between an insert and its mark or ran into  *)
(* one another (FR-WRK-076).                                               *)
SeedComesBack ==
  []<>(passOf["worker"].reset) /\ <>[][UNCHANGED changes]_demoVars => <>[]AsSeeded
=============================================================================
