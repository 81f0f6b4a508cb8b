------------------------------ MODULE Secrets -------------------------------
(***************************************************************************)
(* The signing secret of a webhook endpoint: the merchant rolls it with a  *)
(* grace in which the former one still signs (api/src/db/                  *)
(* webhook-endpoints.ts), attempts sign with what their claim has read     *)
(* (api/src/worker/queue.ts, deliver.ts), and the merchant's server        *)
(* verifies with the secrets it holds (sdk/ts/src/webhooks.ts).            *)
(***************************************************************************)
EXTENDS Integers

CONSTANTS
  Posters,    (* Attempts that run at once.                                *)
  Graces,     (* Graces of a roll; 0 drops the former secret at once.      *)
  MaxRolls    (* Bound on rolls.                                           *)

ASSUME SecretsAssumption == Graces \subseteq Nat /\ MaxRolls \in Nat

VARIABLES
  ring,      (* The row: its secret, the previous one, what it has left.   *)
  post,      (* What each attempt has read and signed with,                *)
  stale,     (* and the attempts whose claim came before the last roll.    *)
  held,      (* The secrets the merchant's server verifies with.           *)
  promised   (* What a roll has promised the former secret.                *)

secretsVars == <<ring, post, stale, held, promised>>

Versions == 1 .. MaxRolls + 1

NoPost == [phase |-> "none"]

SecretsInit ==
  /\ ring = [secret |-> 1, previous |-> 0, left |-> 0]
  /\ post = [p \in Posters |-> NoPost] /\ stale = {}
  /\ held = {1} /\ promised = [v \in Versions |-> 0]

(* One secret before it: a roll within the grace of another replaces it.   *)
rollWebhookSecret(grace) ==
  /\ ring.secret <= MaxRolls
  /\ ring' = [secret |-> ring.secret + 1,
              previous |-> IF grace > 0 THEN ring.secret ELSE 0, left |-> grace]
  /\ promised' = [v \in Versions |-> IF v = ring.secret THEN grace ELSE 0]
  /\ stale' = {p \in Posters : post[p] # NoPost}
  /\ UNCHANGED <<post, held>>

(* The merchant's server takes the new secret, beside the others or alone. *)
Adopt ==
  /\ ring.secret \notin held
  /\ held' \in {{ring.secret}, held \cup {ring.secret}}
  /\ UNCHANGED <<ring, post, stale, promised>>

Retire ==
  /\ ring.secret \in held /\ held' = {ring.secret}
  /\ UNCHANGED <<ring, post, stale, promised>>

-----------------------------------------------------------------------------
(* An attempt.                                                             *)

ClaimSecrets(p) ==
  /\ post[p] = NoPost
  /\ post' = [post EXCEPT ![p] = [phase |-> "claimed", read |-> ring, with |-> {}]]
  /\ stale' = stale \ {p}
  /\ UNCHANGED <<ring, held, promised>>

Open(read) == read.previous # 0 /\ read.left > 0

activeSecrets(read) ==
  {read.secret} \cup (IF Open(read) THEN {read.previous} ELSE {})

(* Wrong: whatever the row holds by now is taken away.                     *)
DropWhateverIsThere(read) ==
  IF read.previous # 0 /\ ~Open(read)
  THEN ring' = [ring EXCEPT !.previous = 0, !.left = 0]
  ELSE UNCHANGED ring

(* The row forgets an expired secret; not one rolled since.                *)
DropExpired(read) ==
  IF read.previous # 0 /\ ~Open(read) /\ ring.left = 0
  THEN ring' = [ring EXCEPT !.previous = 0]
  ELSE UNCHANGED ring

Sign(p) ==
  /\ post[p].phase = "claimed"
  /\ post' = [post EXCEPT ![p].phase = "signed", ![p].with = activeSecrets(post[p].read)]
  /\ DropExpired(post[p].read)
  /\ UNCHANGED <<stale, held, promised>>

(* constructEvent: any signature under any secret held.                    *)
constructEvent(p) == held \cap post[p].with # {}

(* Answered, or the worker has died.                                       *)
PostEnds(p) ==
  /\ post[p] # NoPost
  /\ post' = [post EXCEPT ![p] = NoPost] /\ stale' = stale \ {p}
  /\ UNCHANGED <<ring, held, promised>>

-----------------------------------------------------------------------------

Sooner(n) == IF n > 0 THEN n - 1 ELSE 0

HourPasses ==
  /\ ring' = [ring EXCEPT !.left = Sooner(@)]
  /\ promised' = [v \in Versions |-> Sooner(promised[v])]
  /\ post' = [p \in Posters |->
       IF post[p] = NoPost THEN NoPost ELSE [post[p] EXCEPT !.read.left = Sooner(@)]]
  /\ UNCHANGED <<stale, held>>

SecretsNext ==
  \/ \E g \in Graces : rollWebhookSecret(g)
  \/ Adopt \/ Retire \/ HourPasses
  \/ \E p \in Posters : ClaimSecrets(p) \/ Sign(p) \/ PostEnds(p)

SecretsSpec == SecretsInit /\ [][SecretsNext]_secretsVars

-----------------------------------------------------------------------------
(* Properties.                                                             *)

SecretsTypeOK ==
  /\ ring.secret \in Versions /\ ring.previous \in 0 .. MaxRolls /\ ring.left \in Nat
  /\ (ring.left > 0 => ring.previous # 0)
  /\ held \subseteq Versions /\ held # {} /\ stale \subseteq Posters
  /\ promised \in [Versions -> Nat]

(* A server that holds the secret, or the former one within its grace,     *)
(* verifies whatever was claimed since the last roll, though expired       *)
(* secrets are being dropped meanwhile by attempts that read the endpoint  *)
(* long ago (FR-WRK-040, FR-API-105).                                      *)
GraceHonoured ==
  \A p \in Posters \ stale :
    /\ post[p].phase = "signed"
    /\ \E v \in held : v = ring.secret \/ promised[v] > 0
    => constructEvent(p)
=============================================================================
