------------------------------ MODULE Settler -------------------------------
(***************************************************************************)
(* The keeper's settlements (api/src/worker/keeper.ts): every tick it      *)
(* estimates the streams that are due one by one, leaves out those that    *)
(* revert, and settles the others in batches gassed from the estimates.    *)
(* What it settles comes back through the indexer; the stream that reverts *)
(* is handed to reconcile.                                                 *)
(***************************************************************************)
EXTENDS Integers, Sequences, FiniteSets, SequencesExt

CONSTANTS
  Meters,        (* Streams that have started.                             *)
  Stuck,         (* Those whose settle always reverts,                     *)
  Unheard,       (* and those whose end the indexer never hears of.        *)
  Batch,         (* Streams of a batch.                                    *)
  SettleGas,     (* What a settle costs on chain,                          *)
  CapEndGas,     (* one that ends the stream at its cap,                   *)
  BatchGasUsed,  (* and the batch around them.                             *)
  MaxFailures    (* Bound on failed calls and restarts of the worker.      *)

BATCH_BASE_GAS == 25000

ASSUME SettlerAssumption ==
  /\ IsFiniteSet(Meters) /\ Stuck \subseteq Meters /\ Unheard \subseteq Meters
  /\ Batch \in Nat \ {0} /\ MaxFailures \in Nat
  /\ SettleGas \in Nat /\ CapEndGas \in Nat /\ BatchGasUsed \in 0 .. BATCH_BASE_GAS

VARIABLES
  chain,      (* The streams on chain,                                     *)
  capped,     (* those that have run to their cap,                         *)
  rowOf,      (* and the status of their rows.                             *)
  cadence,    (* Streams not asked to settle for KEEPER_CADENCE_S.         *)
  pass,       (* The pass of the keeper.                                   *)
  mempool,    (* Batches broadcast.                                        *)
  requested,  (* Streams for the next poll of reconcile.                   *)
  failures

settlerVars == <<chain, capped, rowOf, cadence, pass, mempool, requested, failures>>

Asleep == [at |-> "asleep", todo |-> << >>, slice |-> << >>, ready |-> << >>]

SettlerInit ==
  /\ chain = [s \in Meters |-> "active"] /\ rowOf = chain
  /\ capped = {} /\ cadence = {} /\ requested = {} /\ mempool = {}
  /\ pass = Asleep /\ failures = 0

Fails == failures < MaxFailures /\ failures' = failures + 1

-----------------------------------------------------------------------------
(* The streams. Time, the merchant and the chain.                          *)

RunsToCap(s) ==
  /\ chain[s] = "active" /\ s \notin capped /\ capped' = capped \cup {s}
  /\ UNCHANGED <<chain, rowOf, cadence, pass, mempool, requested, failures>>

(* What exhausts its cap ends instead of pausing.                          *)
Moves(s) ==
  /\ \/ chain[s] = "active" /\ s \notin capped /\ chain' = [chain EXCEPT ![s] = "paused"]
     \/ chain[s] = "paused" /\ chain' = [chain EXCEPT ![s] = "active"]
     \/ chain[s] # "canceled" /\ s \notin Stuck /\ chain' = [chain EXCEPT ![s] = "canceled"]
  /\ UNCHANGED <<capped, rowOf, cadence, pass, mempool, requested, failures>>

Cost(s) == IF s \in capped THEN CapEndGas ELSE SettleGas

Reverts(s) == chain[s] = "canceled" \/ s \in Stuck

(* try settle catch: what runs out of gas leaves none for those after it.  *)
Spent(acc, s) ==
  CASE Reverts(s) -> acc
    [] ~Reverts(s) /\ acc.gas >= Cost(s) ->
         [gas |-> acc.gas - Cost(s), done |-> acc.done \cup {s}]
    [] OTHER -> [acc EXCEPT !.gas = 0]

MineBatch ==
  \E tx \in mempool :
    LET run == FoldLeft(Spent, [gas |-> tx.gas - BatchGasUsed, done |-> {}], tx.streams)
    IN  /\ chain' = [s \in Meters |-> IF s \in run.done \cap capped /\ chain[s] = "active"
                                      THEN "canceled" ELSE chain[s]]
        /\ mempool' = mempool \ {tx}
        /\ UNCHANGED <<capped, rowOf, cadence, pass, requested, failures>>

-----------------------------------------------------------------------------
(* The rows: by the log, or by reconcile.                                  *)

Indexed(s) ==
  /\ rowOf[s] # chain[s] /\ ~(chain[s] = "canceled" /\ s \in Unheard)
  /\ rowOf' = [rowOf EXCEPT ![s] = chain[s]]
  /\ UNCHANGED <<chain, capped, cadence, pass, mempool, requested, failures>>

Reconciled(rows) ==
  /\ requested' = {}
  /\ rowOf' = [s \in Meters |-> IF s \in rows /\ chain[s] = "canceled" THEN "canceled" ELSE rowOf[s]]
  /\ UNCHANGED <<chain, capped, cadence, pass, mempool, failures>>

(* The streams the keeper skipped, on the next poll, and all every hour.   *)
ReconcileRequested == requested # {} /\ Reconciled(requested)

ReconcileAll == Reconciled(Meters)

CadencePasses(s) ==
  /\ s \notin cadence /\ cadence' = cadence \cup {s}
  /\ UNCHANGED <<chain, capped, rowOf, pass, mempool, requested, failures>>

-----------------------------------------------------------------------------
(* A pass of the keeper.                                                   *)

DueRows == {s \in Meters : rowOf[s] = "active" /\ (s \in cadence \/ s \in capped)}

selectDue ==
  /\ pass.at = "asleep" /\ DueRows # {}
  /\ \E rows \in SetToSeqs(DueRows) : pass' = [pass EXCEPT !.at = "slice", !.todo = rows]
  /\ UNCHANGED <<chain, capped, rowOf, cadence, mempool, requested, failures>>

Slice ==
  /\ pass.at = "slice"
  /\ LET n == IF Len(pass.todo) < Batch THEN Len(pass.todo) ELSE Batch
     IN  pass' = IF n = 0 THEN Asleep
                 ELSE [at |-> "estimate", todo |-> SubSeq(pass.todo, n + 1, Len(pass.todo)),
                       slice |-> SubSeq(pass.todo, 1, n), ready |-> << >>]
  /\ UNCHANGED <<chain, capped, rowOf, cadence, mempool, requested, failures>>

Estimated(s) == [pass EXCEPT !.slice = Tail(@), !.ready = Append(@, [row |-> s, gas |-> Cost(s)])]

Skipped(s) == pass' = [pass EXCEPT !.slice = Tail(@)] /\ requested' = requested \cup {s}

(* Wrong: one stream that reverts ends the pass.                           *)
EstimateAllOrNone ==
  /\ pass.at = "estimate" /\ pass.slice # << >>
  /\ LET s == Head(pass.slice)
     IN  IF Reverts(s) THEN pass' = Asleep /\ requested' = requested \cup {s}
         ELSE pass' = Estimated(s) /\ UNCHANGED requested
  /\ UNCHANGED <<chain, capped, rowOf, cadence, mempool, failures>>

Estimate ==
  /\ pass.at = "estimate" /\ pass.slice # << >>
  /\ LET s == Head(pass.slice)
     IN  \/ ~Reverts(s) /\ pass' = Estimated(s) /\ UNCHANGED <<requested, failures>>
         \/ Reverts(s) /\ Skipped(s) /\ UNCHANGED failures
         \/ Fails /\ Skipped(s)
  /\ UNCHANGED <<chain, capped, rowOf, cadence, mempool>>

(* 25 000 + the sum of the estimates x 1.25.                               *)
batchGas(ready) == BATCH_BASE_GAS + (FoldLeft(LAMBDA sum, r : sum + r.gas, 0, ready) * 125) \div 100

Rows(ready) == [i \in DOMAIN ready |-> ready[i].row]

settleBatch ==
  /\ pass.at = "estimate" /\ pass.slice = << >>
  /\ \/ pass.ready = << >> /\ pass' = [pass EXCEPT !.at = "slice"] /\ UNCHANGED <<mempool, failures>>
     \/ /\ pass.ready # << >> /\ pass' = [pass EXCEPT !.at = "stamp"]
        /\ mempool' = mempool \cup {[streams |-> Rows(pass.ready), gas |-> batchGas(pass.ready)]}
        /\ UNCHANGED failures
     \/ /\ pass.ready # << >> /\ Fails
        /\ pass' = [pass EXCEPT !.at = "slice"] /\ UNCHANGED mempool
  /\ UNCHANGED <<chain, capped, rowOf, cadence, requested>>

Stamp ==
  /\ pass.at = "stamp" /\ pass' = [pass EXCEPT !.at = "slice"]
  /\ cadence' = cadence \ Range(Rows(pass.ready))
  /\ UNCHANGED <<chain, capped, rowOf, mempool, requested, failures>>

WorkerRestarts ==
  /\ Fails /\ pass' = Asleep /\ requested' = {}
  /\ UNCHANGED <<chain, capped, rowOf, cadence, mempool>>

Keeps == selectDue \/ Slice \/ Estimate \/ settleBatch \/ Stamp

-----------------------------------------------------------------------------

SettlerNext ==
  \/ \E s \in Meters : RunsToCap(s) \/ Moves(s) \/ Indexed(s) \/ CadencePasses(s)
  \/ MineBatch \/ ReconcileRequested \/ ReconcileAll \/ WorkerRestarts
  \/ Keeps

-----------------------------------------------------------------------------
(* Properties.                                                             *)

SettlerTypeOK ==
  /\ chain \in [Meters -> {"active", "paused", "canceled"}]
  /\ rowOf \in [Meters -> {"active", "paused", "canceled"}]
  /\ capped \subseteq Meters /\ cadence \subseteq Meters /\ requested \subseteq Meters
  /\ pass.at \in {"asleep", "slice", "estimate", "stamp"}
  /\ (pass.at = "stamp" => pass.ready # << >>)
  /\ Len(pass.ready) + Len(pass.slice) <= Batch

(* A stream that has run to its cap is ended on chain and its row closed,  *)
(* though other streams revert for ever, its estimate goes stale before    *)
(* the batch is mined, or the indexer misses its end (FR-WRK-072, 073).    *)
CapReachesTheRow == \A s \in Meters \ Stuck : []<>(s \in capped => rowOf[s] = "canceled")
=============================================================================
