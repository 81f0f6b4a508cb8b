------------------------------- MODULE Faucet -------------------------------
(***************************************************************************)
(* The test faucet (api/src/services/faucet.ts, db/faucet.ts): a drop of   *)
(* FAUCET_DROP_UNITS to a wallet, from the checkout page or the dashboard, *)
(* under rolling limits that are counted from the drops it has recorded.   *)
(* Drops go through one queue of the API process.                          *)
(*                                                                         *)
(* One rolling window of 24 hours: a drop leaves it when it expires.       *)
(***************************************************************************)
EXTENDS Integers, Sequences, FiniteSets, Functions

CONSTANTS
  Requests,     (* Records of the requests: wallet, ip, merchant, via.     *)
  PerWallet,    (* FAUCET_LIMITS, for a wallet,                            *)
  PerIp,        (* an address                                              *)
  PerDay,       (* and all of them,                                        *)
  PerMerchant,  (* and DASHBOARD_FAUCET_PER_MERCHANT.                      *)
  MaxCuts       (* Bound on restarts of the API and failed recordings.     *)

ASSUME FaucetAssumption ==
  /\ PerWallet \in Nat /\ PerIp \in Nat /\ PerDay \in Nat /\ PerMerchant \in Nat
  /\ MaxCuts \in Nat

VARIABLES
  at,        (* Where each request is,                                     *)
  line,      (* and the queue, in order.                                   *)
  drops,     (* faucet_drops of the window.                                *)
  sent,      (* Transfers broadcast in the window,                         *)
  funded,    (* and wallets that hold a drop.                              *)
  cuts

faucetVars == <<at, line, drops, sent, funded, cuts>>

FaucetInit ==
  /\ at = [r \in Requests |-> "new"] /\ line = << >>
  /\ drops = {} /\ sent = {} /\ funded = {} /\ cuts = 0

Cut == cuts < MaxCuts /\ cuts' = cuts + 1

-----------------------------------------------------------------------------
(* The queue: the first is served until it has been answered.              *)

dropFaucet(r) ==
  /\ at[r] = "new" /\ at' = [at EXCEPT ![r] = "queued"]
  /\ line' = Append(line, r)
  /\ UNCHANGED <<drops, sent, funded, cuts>>

(* Wrong: nobody waits for the drop before.                                *)
TurnAtOnce(r) == r \in Range(line)

Turn(r) == line # << >> /\ Head(line) = r

Answered(r) ==
  /\ at' = [at EXCEPT ![r] = "answered"]
  /\ line' = Tail(line)

-----------------------------------------------------------------------------
(* dropNow.                                                                *)

Of(set, field, r) == Cardinality({d \in set : d[field] = r[field]})

Dashboard(set) == {d \in set : d.via = "dashboard"}

(* The page of a checkout, and the demo merchant, are spared the limit of  *)
(* a merchant; a request without an address, that of addresses.            *)
Within(set, r) ==
  /\ Of(set, "wallet", r) < PerWallet
  /\ (r.via = "dashboard" => Of(Dashboard(set), "merchant", r) < PerMerchant)
  /\ (r.ip # "none" => Of(set, "ip", r) < PerIp)
  /\ Cardinality(set) < PerDay

Count(r) ==
  /\ Turn(r) /\ at[r] = "queued"
  /\ IF Within(drops, r) /\ r.wallet \notin funded
     THEN at' = [at EXCEPT ![r] = "allowed"] /\ UNCHANGED line
     ELSE Answered(r)
  /\ UNCHANGED <<drops, sent, funded, cuts>>

(* Out of AUSD, out of gas or no RPC: nothing is sent, nothing recorded.   *)
Transfer(r) ==
  /\ Turn(r) /\ at[r] = "allowed"
  /\ \/ at' = [at EXCEPT ![r] = "sent"] /\ sent' = sent \cup {r} /\ UNCHANGED line
     \/ Answered(r) /\ UNCHANGED sent
  /\ UNCHANGED <<drops, funded, cuts>>

recordDrop(r) ==
  /\ Turn(r) /\ at[r] = "sent"
  /\ Answered(r)
  /\ \/ drops' = drops \cup {r} /\ UNCHANGED cuts
     \/ UNCHANGED drops /\ Cut            (* the insert fails             *)
  /\ UNCHANGED <<sent, funded>>

-----------------------------------------------------------------------------
(* Wallets, time and restarts.                                             *)

WalletReceives(r) ==
  /\ r \in sent /\ r.wallet \notin funded /\ funded' = funded \cup {r.wallet}
  /\ UNCHANGED <<at, line, drops, sent, cuts>>

WalletSpends(w) ==
  /\ w \in funded /\ funded' = funded \ {w}
  /\ UNCHANGED <<at, line, drops, sent, cuts>>

DayPasses(r) ==
  /\ r \in sent /\ at[r] # "sent"
  /\ sent' = sent \ {r} /\ drops' = drops \ {r}
  /\ UNCHANGED <<at, line, funded, cuts>>

ApiRestarts ==
  /\ line # << >> /\ Cut /\ line' = << >>
  /\ at' = [r \in Requests |-> IF r \in Range(line) THEN "answered" ELSE at[r]]
  /\ UNCHANGED <<drops, sent, funded>>

-----------------------------------------------------------------------------

FaucetNext ==
  \/ \E r \in Requests : dropFaucet(r) \/ Count(r) \/ Transfer(r) \/ recordDrop(r)
  \/ \E r \in Requests : WalletReceives(r) \/ DayPasses(r) \/ WalletSpends(r.wallet)
  \/ ApiRestarts

FaucetSpec == FaucetInit /\ [][FaucetNext]_faucetVars

-----------------------------------------------------------------------------
(* Properties.                                                             *)

FaucetTypeOK ==
  /\ at \in [Requests -> {"new", "queued", "allowed", "sent", "answered"}]
  /\ Range(line) \subseteq Requests /\ drops \subseteq sent /\ sent \subseteq Requests
  /\ funded \subseteq {r.wallet : r \in Requests} /\ cuts \in 0 .. MaxCuts

(* Presses at once never pass a limit: what was sent within 24 hours is    *)
(* within every limit, but for a drop that was cut off before it was       *)
(* recorded (FR-API-148, FR-API-151).                                      *)
DropsWithinLimits ==
  \A r \in sent :
    /\ Of(sent, "wallet", r) <= PerWallet + cuts
    /\ (r.via = "dashboard" => Of(Dashboard(sent), "merchant", r) <= PerMerchant + cuts)
    /\ (r.ip # "none" => Of(sent, "ip", r) <= PerIp + cuts)
    /\ Cardinality(sent) <= PerDay + cuts
=============================================================================
