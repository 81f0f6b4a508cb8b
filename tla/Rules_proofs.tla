----------------------------- MODULE Rules_proofs ------------------------------
(***************************************************************************)
(* Proofs about the parts that are checked with the webhook queue: the     *)
(* signing secret, the API keys and the faucet, for every set of attempts, *)
(* keys, rolls, graces and requests and every limit; and that a run of all *)
(* of them is a run of each.                                               *)
(***************************************************************************)
EXTENDS MCRules, Deliveries_proofs, FiniteSetTheorems, SequenceTheorems

-----------------------------------------------------------------------------
(* The signing secret.                                                     *)

Rings == [secret : Versions, previous : 0 .. MaxRolls, left : Nat]

SignedPosts == [phase : {"claimed", "signed"}, read : Rings, with : SUBSET (Versions \cup {0})]

SecretsTyped ==
  /\ ring \in Rings /\ promised \in [Versions -> Nat] /\ held \subseteq Versions
  /\ DOMAIN post = Posters /\ \A p \in Posters : post[p] = NoPost \/ post[p] \in SignedPosts

(* A ring keeps what was promised.                                         *)
Keeps(r) == \A v \in Versions : promised[v] > 0 => v = r.previous /\ promised[v] <= r.left

(* So does what an attempt has read or signed with, unless the secret was  *)
(* rolled since its claim.                                                 *)
Serves(p) ==
  /\ post[p].phase = "claimed" => post[p].read.secret = ring.secret /\ Keeps(post[p].read)
  /\ post[p].phase = "signed" =>
       /\ ring.secret \in post[p].with
       /\ \A v \in Versions : promised[v] > 0 => v \in post[p].with

(* The inductive invariant.                                                *)
SecretsInv == SecretsTyped /\ Keeps(ring) /\ \A p \in Posters \ stale : Serves(p)

-----------------------------------------------------------------------------

LEMMA InitSecretsInv == SecretsInit => SecretsInv
  <1> SUFFICES ASSUME SecretsInit PROVE SecretsInv
    OBVIOUS
  <1>1. SecretsTyped
    BY SecretsAssumption DEF SecretsInit, SecretsTyped, Rings, Versions, NoPost
  <1>2. Keeps(ring) /\ \A p \in Posters : Serves(p)
    BY DEF SecretsInit, Keeps, Serves, NoPost
  <1>3. QED
    BY <1>1, <1>2 DEF SecretsInv

LEMMA RollSecretsInv ==
  ASSUME SecretsInv, NEW grace \in Graces, rollWebhookSecret(grace)
  PROVE  SecretsInv'
  <1>1. grace \in Nat /\ ring.secret \in Versions /\ ring.secret <= MaxRolls
    BY SecretsAssumption DEF SecretsInv, SecretsTyped, Rings, rollWebhookSecret
  <1>2. SecretsTyped'
    BY <1>1, SecretsAssumption DEF SecretsInv, SecretsTyped, Rings, Versions, rollWebhookSecret
  <1>3. Keeps(ring)'
    BY <1>1 DEF Keeps, rollWebhookSecret
  <1>4. \A p \in (Posters \ stale)' : Serves(p)'
    BY DEF Serves, NoPost, rollWebhookSecret
  <1>5. QED
    BY <1>2, <1>3, <1>4 DEF SecretsInv

LEMMA ServerSecretsInv ==
  ASSUME SecretsInv, Adopt \/ Retire
  PROVE  SecretsInv'
  <1>1. ring.secret \in Versions
    BY DEF SecretsInv, SecretsTyped, Rings
  <1>2. QED
    BY <1>1 DEF SecretsInv, SecretsTyped, Keeps, Serves, Adopt, Retire

LEMMA ClaimSecretsInv ==
  ASSUME SecretsInv, NEW p \in Posters, ClaimSecrets(p)
  PROVE  SecretsInv'
  <1> DEFINE claimed == [phase |-> "claimed", read |-> ring, with |-> {}]
  <1>1. /\ claimed \in SignedPosts /\ post' = [post EXCEPT ![p] = claimed]
        /\ claimed.phase = "claimed" /\ claimed.read = ring
        /\ UNCHANGED <<ring, held, promised>> /\ stale' = stale \ {p}
    BY DEF SecretsInv, SecretsTyped, SignedPosts, ClaimSecrets
  <1> HIDE DEF claimed
  <1>2. SecretsTyped' /\ Keeps(ring)'
    BY <1>1 DEF SecretsInv, SecretsTyped, Keeps
  <1>3. ASSUME NEW q \in (Posters \ stale)' PROVE Serves(q)'
    <2>1. CASE q = p
      BY <1>1, <2>1 DEF SecretsInv, SecretsTyped, Serves, Keeps
    <2>2. CASE q # p
      BY <1>1, <2>2 DEF SecretsInv, SecretsTyped, Serves, Keeps
    <2>3. QED
      BY <2>1, <2>2
  <1>4. QED
    BY <1>2, <1>3 DEF SecretsInv

(* Signing keeps the types, and the row keeps what it promised.            *)
LEMMA SignSecretsInv ==
  ASSUME SecretsInv, NEW p \in Posters, Sign(p)
  PROVE  SecretsInv'
  <1> PICK read : read = post[p].read
    OBVIOUS
  <1>1. /\ post[p] \in SignedPosts /\ read \in Rings /\ post[p].phase = "claimed"
        /\ ring \in Rings /\ UNCHANGED <<promised, stale, held>>
    BY DEF SecretsInv, SecretsTyped, SignedPosts, Sign, NoPost
  <1>2. activeSecrets(read) \in SUBSET (Versions \cup {0})
    BY <1>1, SecretsAssumption DEF activeSecrets, Rings, Versions
  <1>3. /\ post' = [post EXCEPT ![p] = [@ EXCEPT !.phase = "signed", !.with = activeSecrets(read)]]
        /\ post'[p].phase = "signed" /\ post'[p].with = activeSecrets(read)
        /\ post'[p] \in SignedPosts
    BY <1>1, <1>2 DEF Sign, SecretsInv, SecretsTyped, SignedPosts
  <1>4. /\ ring' \in Rings /\ ring'.secret = ring.secret /\ ring'.left = ring.left
        /\ ring.left > 0 => ring'.previous = ring.previous
    BY <1>1, SecretsAssumption DEF Sign, DropExpired, Rings
  <1>5. SecretsTyped'
    BY <1>1, <1>3, <1>4 DEF SecretsInv, SecretsTyped
  <1>6. Keeps(ring)'
    BY <1>1, <1>4 DEF SecretsInv, SecretsTyped, Keeps, Rings
  <1>7. ASSUME NEW q \in (Posters \ stale)' PROVE Serves(q)'
    <2>1. CASE q = p
      <3>1. read.secret = ring.secret /\ Keeps(read)
        BY <1>1, <2>1 DEF SecretsInv, Serves
      <3>2. \A v \in Versions : promised[v] > 0 => v \in activeSecrets(read)
        BY <1>1, <3>1 DEF Keeps, activeSecrets, Open, Versions, Rings, SecretsInv, SecretsTyped
      <3>3. QED
        BY <1>1, <1>3, <1>4, <2>1, <3>1, <3>2 DEF Serves, activeSecrets
    <2>2. CASE q # p
      BY <1>1, <1>3, <1>4, <2>2 DEF SecretsInv, SecretsTyped, Serves, Keeps
    <2>3. QED
      BY <2>1, <2>2
  <1>8. QED
    BY <1>5, <1>6, <1>7 DEF SecretsInv

LEMMA PostEndsSecretsInv ==
  ASSUME SecretsInv, NEW p \in Posters, PostEnds(p)
  PROVE  SecretsInv'
  BY DEF SecretsInv, SecretsTyped, Keeps, Serves, NoPost, PostEnds

(* An hour takes from what was promised and from what was read alike.      *)
LEMMA HourSecretsInv ==
  ASSUME SecretsInv, HourPasses
  PROVE  SecretsInv'
  <1>1. /\ ring \in Rings /\ promised \in [Versions -> Nat] /\ held \subseteq Versions
        /\ \A p \in Posters : post[p] = NoPost \/ post[p] \in SignedPosts
    BY DEF SecretsInv, SecretsTyped
  <1>2. /\ ring' \in Rings /\ ring'.secret = ring.secret /\ ring'.previous = ring.previous
        /\ ring'.left = Sooner(ring.left)
        /\ promised' \in [Versions -> Nat]
        /\ \A v \in Versions : promised'[v] = Sooner(promised[v])
    BY <1>1 DEF HourPasses, Rings, Sooner
  <1>3. ASSUME NEW p \in Posters, post[p] \in SignedPosts
        PROVE  /\ post'[p] \in SignedPosts
               /\ post'[p].phase = post[p].phase /\ post'[p].with = post[p].with
               /\ post'[p].read.secret = post[p].read.secret
               /\ post'[p].read.previous = post[p].read.previous
               /\ post'[p].read.left = Sooner(post[p].read.left)
    <2> DEFINE aged == [post[p].read EXCEPT !.left = Sooner(post[p].read.left)]
    <2>1. post[p] # NoPost /\ post[p].read \in Rings
      BY <1>3 DEF SignedPosts, NoPost
    <2>2. post'[p] = [post[p] EXCEPT !.read = aged]
      BY <1>3, <2>1 DEF HourPasses, SignedPosts, Rings
    <2>3. /\ aged \in Rings
          /\ aged.secret = post[p].read.secret /\ aged.previous = post[p].read.previous
          /\ aged.left = Sooner(post[p].read.left)
      <3>1. Sooner(post[p].read.left) \in Nat
        BY <2>1 DEF Rings, Sooner
      <3>2. QED
        BY <2>1, <3>1 DEF Rings
    <2> HIDE DEF aged
    <2>4. QED
      BY <1>3, <2>2, <2>3 DEF SignedPosts
  <1>4. ASSUME NEW p \in Posters, post[p] = NoPost
        PROVE  post'[p] = NoPost
    BY <1>4 DEF HourPasses
  <1>5. SecretsTyped'
    BY <1>1, <1>2, <1>3, <1>4 DEF SecretsTyped, HourPasses
  <1>6. ASSUME NEW r \in Rings, NEW t, t.previous = r.previous, t.left = Sooner(r.left), Keeps(r)
        PROVE  \A v \in Versions : promised'[v] > 0 => v = t.previous /\ promised'[v] <= t.left
    BY <1>1, <1>2, <1>6 DEF Keeps, Sooner, Rings
  <1>7. Keeps(ring)'
    BY <1>1, <1>2, <1>6 DEF SecretsInv, Keeps
  <1>8. ASSUME NEW p \in (Posters \ stale)' PROVE Serves(p)'
    <2>1. p \in Posters \ stale /\ Serves(p)
      BY DEF HourPasses, SecretsInv
    <2>2. CASE post[p] = NoPost
      BY <1>4, <2>1, <2>2 DEF Serves, NoPost
    <2>3. CASE post[p] \in SignedPosts
      <3>1. \A v \in Versions : promised'[v] > 0 => promised[v] > 0
        BY <1>1, <1>2 DEF Sooner
      <3>2. CASE post[p].phase = "claimed"
        <4>1. post[p].read \in Rings /\ Keeps(post[p].read) /\ post[p].read.secret = ring.secret
          BY <2>1, <2>3, <3>2 DEF Serves, SignedPosts
        <4>2. \A v \in Versions :
                promised'[v] > 0 => v = post'[p].read.previous /\ promised'[v] <= post'[p].read.left
          BY <1>3, <1>6, <2>1, <2>3, <4>1
        <4>3. QED
          BY <1>2, <1>3, <2>1, <2>3, <3>2, <4>1, <4>2 DEF Serves, Keeps
      <3>3. CASE post[p].phase = "signed"
        BY <1>2, <1>3, <2>1, <2>3, <3>1, <3>3 DEF Serves
      <3>4. QED
        BY <2>3, <3>2, <3>3 DEF SignedPosts
    <2>4. QED
      BY <1>1, <2>1, <2>2, <2>3
  <1>9. QED
    BY <1>5, <1>7, <1>8 DEF SecretsInv

LEMMA NextSecretsInv == SecretsInv /\ [SecretsNext]_secretsVars => SecretsInv'
  <1> SUFFICES ASSUME SecretsInv, [SecretsNext]_secretsVars
               PROVE  SecretsInv'
    OBVIOUS
  <1>1. CASE UNCHANGED secretsVars
    BY <1>1 DEF secretsVars, SecretsInv, SecretsTyped, Keeps, Serves
  <1>2. CASE SecretsNext
    BY <1>2, RollSecretsInv, ServerSecretsInv, ClaimSecretsInv, SignSecretsInv,
       PostEndsSecretsInv, HourSecretsInv DEF SecretsNext
  <1>3. QED
    BY <1>1, <1>2

-----------------------------------------------------------------------------
(* The theorem.                                                            *)

(* However often the secret is rolled and expired ones are dropped, a      *)
(* server that holds the secret or the former one within its grace         *)
(* verifies what was claimed since the last roll.                          *)
THEOREM GraceIsHonoured == SecretsSpec => []GraceHonoured
  <1>1. SecretsInv => GraceHonoured
    <2> SUFFICES ASSUME SecretsInv, NEW p \in Posters \ stale, post[p].phase = "signed",
                        NEW v \in held, v = ring.secret \/ promised[v] > 0
                 PROVE  constructEvent(p)
      BY DEF GraceHonoured
    <2>1. Serves(p) /\ v \in Versions
      BY DEF SecretsInv, SecretsTyped
    <2>2. QED
      BY <2>1 DEF Serves, constructEvent
  <1>2. QED
    BY <1>1, InitSecretsInv, NextSecretsInv, PTL DEF SecretsSpec

-----------------------------------------------------------------------------
(* The API keys.                                                           *)

RollRequests ==
  {NotRolling} \cup [step : {"mint", "stamp"}, old : KeyIds, grace : KeyGraces]

KeysTyped ==
  /\ apiKey \in [KeyIds -> KeyRows] /\ swept \in BOOLEAN
  /\ rolling \in [Rolls -> RollRequests]

(* A key that lives is announced by the last sweep before it stops.        *)
LastSweepCounts(key) ==
  ~key.revoked /\ (key.left = 0 \/ (key.left = 1 /\ swept)) => "1h" \in key.notices

(* The inductive invariant.                                                *)
KeysInv == KeysTyped /\ \A k \in KeyIds : LastSweepCounts(apiKey[k])

-----------------------------------------------------------------------------

LEMMA InitKeysInv == KeysInit => KeysInv
  <1> SUFFICES ASSUME KeysInit PROVE KeysInv
    OBVIOUS
  <1>1. ASSUME NEW k \in KeyIds
        PROVE  apiKey[k] \in KeyRows /\ LastSweepCounts(apiKey[k])
    <2> DEFINE made == k = 1
    <2>1. made \in BOOLEAN /\ apiKey[k] = [Unmade EXCEPT !.made = made]
      BY DEF KeysInit
    <2> HIDE DEF made
    <2>2. apiKey[k] = [made |-> made, revoked |-> FALSE, left |-> NEVER, notices |-> {}]
      BY <2>1 DEF Unmade
    <2>3. NEVER \in {NEVER} \cup Nat /\ NEVER # 0 /\ NEVER # 1
      BY DEF NEVER
    <2>4. apiKey[k] \in KeyRows
      <3>1. \A notices \in SUBSET {"24h", "1h"} :
              [made |-> made, revoked |-> FALSE, left |-> NEVER, notices |-> notices] \in KeyRows
        BY <2>1, <2>3 DEF KeyRows
      <3>2. {} \in SUBSET {"24h", "1h"}
        OBVIOUS
      <3>3. QED
        BY <2>2, <3>1, <3>2
    <2>5. apiKey[k].left = NEVER
      BY <2>2
    <2>6. LastSweepCounts(apiKey[k])
      BY <2>3, <2>5 DEF LastSweepCounts
    <2>7. QED
      BY <2>4, <2>6
  <1>2. KeysTyped
    BY <1>1 DEF KeysInit, KeysTyped, RollRequests
  <1>3. QED
    BY <1>1, <1>2 DEF KeysInv

(* A step that changes one key as a request does.                          *)
LEMMA OneKeyChanges ==
  ASSUME KeysInv, NEW k \in KeyIds, UNCHANGED swept, rolling' \in [Rolls -> RollRequests],
         \/ apiKey' = [apiKey EXCEPT ![k].made = TRUE]
         \/ apiKey' = [apiKey EXCEPT ![k].revoked = TRUE]
         \/ \E grace \in KeyGraces \ {0} : apiKey' = [apiKey EXCEPT ![k].left = grace]
  PROVE  KeysInv'
  <1>1. apiKey \in [KeyIds -> KeyRows] /\ apiKey[k] \in KeyRows /\ LastSweepCounts(apiKey[k])
    BY DEF KeysInv, KeysTyped
  <1>2. /\ apiKey' = [apiKey EXCEPT ![k] = apiKey'[k]]
        /\ \/ apiKey'[k] = [apiKey[k] EXCEPT !.made = TRUE]
           \/ apiKey'[k] = [apiKey[k] EXCEPT !.revoked = TRUE]
           \/ \E grace \in KeyGraces \ {0} : apiKey'[k] = [apiKey[k] EXCEPT !.left = grace]
    BY <1>1
  <1>3. apiKey'[k] \in KeyRows /\ LastSweepCounts(apiKey[k])'
    <2>1. CASE apiKey'[k] = [apiKey[k] EXCEPT !.made = TRUE]
      BY <1>1, <2>1 DEF KeyRows, LastSweepCounts
    <2>2. CASE apiKey'[k] = [apiKey[k] EXCEPT !.revoked = TRUE]
      BY <1>1, <2>2 DEF KeyRows, LastSweepCounts
    <2>3. ASSUME NEW grace \in KeyGraces \ {0}, apiKey'[k] = [apiKey[k] EXCEPT !.left = grace]
          PROVE  apiKey'[k] \in KeyRows /\ LastSweepCounts(apiKey[k])'
      <3>1. grace \in Nat /\ grace # 0 /\ grace # 1
        BY KeysAssumption
      <3>2. QED
        BY <1>1, <2>3, <3>1 DEF KeyRows, LastSweepCounts
    <2>4. QED
      BY <1>2, <2>1, <2>2, <2>3
  <1>4. KeysTyped'
    BY <1>1, <1>2, <1>3 DEF KeysInv, KeysTyped
  <1>5. ASSUME NEW i \in KeyIds PROVE LastSweepCounts(apiKey[i])'
    <2>1. CASE i = k
      BY <1>3, <2>1
    <2>2. CASE i # k
      BY <1>1, <1>2, <2>2 DEF KeysInv, LastSweepCounts
    <2>3. QED
      BY <2>1, <2>2
  <1>6. QED
    BY <1>4, <1>5 DEF KeysInv

(* The requests, a roll by its steps.                                      *)
LEMMA RequestsKeysInv ==
  ASSUME KeysInv,
         \/ Create \/ \E k \in KeyIds : revokeApiKey(k)
         \/ \E r \in Rolls :
              \/ \E k \in KeyIds, g \in KeyGraces : RollReads(r, k, g)
              \/ RollMints(r) \/ RollStamps(r) \/ RollCut(r)
  PROVE  KeysInv'
  <1>1. rolling \in [Rolls -> RollRequests]
    BY DEF KeysInv, KeysTyped
  <1>2. CASE Create \/ \E k \in KeyIds : revokeApiKey(k)
    BY <1>1, <1>2, OneKeyChanges DEF Create, createApiKey, revokeApiKey
  <1>3. ASSUME NEW r \in Rolls, NEW k \in KeyIds, NEW g \in KeyGraces, RollReads(r, k, g)
        PROVE  KeysInv'
    <2>1. rolling' \in [Rolls -> RollRequests] /\ UNCHANGED <<apiKey, swept>>
      BY <1>1, <1>3 DEF RollReads, RollRequests
    <2>2. QED
      BY <2>1 DEF KeysInv, KeysTyped, LastSweepCounts
  <1>4. ASSUME NEW r \in Rolls, RollMints(r)
        PROVE  KeysInv'
    <2>1. rolling[r] \in [step : {"mint", "stamp"}, old : KeyIds, grace : KeyGraces]
      BY <1>1, <1>4 DEF RollMints, RollRequests, NotRolling
    <2>2. rolling' \in [Rolls -> RollRequests] /\ UNCHANGED swept
      <3>1. [rolling[r] EXCEPT !.step = "stamp"] \in RollRequests
        BY <2>1 DEF RollRequests
      <3>2. rolling' = [rolling EXCEPT ![r] = [rolling[r] EXCEPT !.step = "stamp"]]
        BY <1>1, <1>4 DEF RollMints
      <3>3. QED
        BY <1>1, <1>4, <3>1, <3>2 DEF RollMints
    <2>3. QED
      BY <1>4, <2>2, OneKeyChanges DEF RollMints, createApiKey
  <1>5. ASSUME NEW r \in Rolls, RollStamps(r)
        PROVE  KeysInv'
    <2>1. rolling[r].old \in KeyIds /\ rolling[r].grace \in KeyGraces
      BY <1>1, <1>5 DEF RollStamps, RollRequests, NotRolling
    <2>2. rolling' \in [Rolls -> RollRequests] /\ UNCHANGED swept
      BY <1>1, <1>5 DEF RollStamps, RollRequests
    <2>3. CASE rolling[r].grace = 0
      BY <1>5, <2>1, <2>2, <2>3, OneKeyChanges DEF RollStamps
    <2>4. CASE rolling[r].grace # 0
      BY <1>5, <2>1, <2>2, <2>4, OneKeyChanges DEF RollStamps
    <2>5. QED
      BY <2>3, <2>4
  <1>6. ASSUME NEW r \in Rolls, RollCut(r)
        PROVE  KeysInv'
    <2>1. rolling' \in [Rolls -> RollRequests] /\ UNCHANGED <<apiKey, swept>>
      BY <1>1, <1>6 DEF RollCut, RollRequests
    <2>2. QED
      BY <2>1 DEF KeysInv, KeysTyped, LastSweepCounts
  <1>7. QED
    BY <1>2, <1>3, <1>4, <1>5, <1>6

(* The sweep announces whatever stops within the hour.                     *)
LEMMA SweepKeysInv ==
  ASSUME KeysInv, expirySweep
  PROVE  KeysInv'
  <1>1. ASSUME NEW k \in KeyIds
        PROVE  apiKey'[k] \in KeyRows /\ LastSweepCounts(apiKey[k])'
    <2>1. apiKey[k] \in KeyRows /\ LastSweepCounts(apiKey[k])
      BY DEF KeysInv, KeysTyped
    <2>2. CASE apiKey[k].revoked
      BY <2>1, <2>2 DEF expirySweep, LastSweepCounts
    <2>3. CASE ~apiKey[k].revoked
      <3> DEFINE notices == writeNotice(k, Bands(apiKey[k].left))
      <3>1. /\ notices \in SUBSET {"24h", "1h"} /\ apiKey[k].notices \subseteq notices
            /\ apiKey[k].left = 1 => "1h" \in notices
        BY <2>1, KeysAssumption DEF writeNotice, Bands, KeyRows
      <3>2. apiKey'[k] = [apiKey[k] EXCEPT !.notices = notices]
        BY <2>3 DEF expirySweep
      <3> HIDE DEF notices
      <3>3. QED
        BY <2>1, <3>1, <3>2 DEF KeyRows, LastSweepCounts
    <2>4. QED
      BY <2>2, <2>3
  <1>2. QED
    BY <1>1 DEF KeysInv, KeysTyped, expirySweep

(* Time passes only once it has.                                           *)
LEMMA TimeKeysInv ==
  ASSUME KeysInv, TimePasses
  PROVE  KeysInv'
  <1>1. ASSUME NEW k \in KeyIds
        PROVE  apiKey'[k] \in KeyRows /\ LastSweepCounts(apiKey[k])'
    <2> DEFINE left == IF apiKey[k].left > 0 THEN apiKey[k].left - 1 ELSE apiKey[k].left
    <2>1. apiKey[k] \in KeyRows /\ LastSweepCounts(apiKey[k]) /\ swept /\ swept' = FALSE
      BY DEF KeysInv, KeysTyped, TimePasses
    <2>2. /\ left \in {NEVER} \cup Nat
          /\ left = 0 => apiKey[k].left \in {0, 1}
      BY <2>1 DEF KeyRows, NEVER
    <2>3. apiKey'[k] = [apiKey[k] EXCEPT !.left = left]
      BY DEF TimePasses
    <2> HIDE DEF left
    <2>4. QED
      BY <2>1, <2>2, <2>3 DEF KeyRows, LastSweepCounts
  <1>2. QED
    BY <1>1 DEF KeysInv, KeysTyped, TimePasses

LEMMA NextKeysInv == KeysInv /\ [KeysNext]_keysVars => KeysInv'
  <1> SUFFICES ASSUME KeysInv, [KeysNext]_keysVars
               PROVE  KeysInv'
    OBVIOUS
  <1>1. CASE UNCHANGED keysVars
    BY <1>1 DEF keysVars, KeysInv, KeysTyped, LastSweepCounts
  <1>2. CASE KeysNext
    BY <1>2, RequestsKeysInv, SweepKeysInv, TimeKeysInv DEF KeysNext
  <1>3. QED
    BY <1>1, <1>2

-----------------------------------------------------------------------------
(* The theorem.                                                            *)

(* No key stops by itself without a notice of its last hour, however many  *)
(* rolls stamp it, in whatever order.                                      *)
THEOREM StopsAreAnnounced == KeysSpec => []StopsAnnounced
  <1>1. KeysInv => StopsAnnounced
    BY DEF KeysInv, LastSweepCounts, StopsAnnounced
  <1>2. QED
    BY <1>1, InitKeysInv, NextKeysInv, PTL DEF KeysSpec

-----------------------------------------------------------------------------
(* The faucet. A limit is on the drops of a group of requests.             *)

Limits == {"wallet", "merchant", "ip", "day"}

Limit(kind) ==
  CASE kind = "wallet" -> PerWallet [] kind = "merchant" -> PerMerchant
    [] kind = "ip" -> PerIp [] kind = "day" -> PerDay

Limited(kind, r) ==
  /\ kind = "merchant" => r.via = "dashboard"
  /\ kind = "ip" => r.ip # "none"

Group(kind, r) ==
  CASE kind = "wallet"   -> {d \in Requests : d.wallet = r.wallet}
    [] kind = "merchant" -> {d \in Requests : d.via = "dashboard" /\ d.merchant = r.merchant}
    [] kind = "ip"       -> {d \in Requests : d.ip = r.ip}
    [] kind = "day"      -> Requests

GroupCount(set, kind, r) == Cardinality(set \cap Group(kind, r))

(* What the limits are kept for: the drops recorded and the one that was   *)
(* sent and is about to be.                                                *)
Counted == drops \cup {r \in Requests : at[r] = "sent"}

(* Drops that were sent and never recorded.                                *)
Unrecorded == {r \in sent \ drops : at[r] # "sent"}

(* Only the first in line is past the count, and it was within the limits. *)
OneServed ==
  \A r \in Requests :
    /\ at[r] \in {"allowed", "sent"} => line # << >> /\ Head(line) = r
    /\ at[r] = "allowed" => Within(drops, r)
    /\ at[r] = "sent" => r \in sent

(* The inductive invariant.                                                *)
FaucetInv ==
  /\ FaucetTypeOK /\ line \in Seq(Requests) /\ IsFiniteSet(sent) /\ OneServed
  /\ \A kind \in Limits, r \in Requests :
       Limited(kind, r) => GroupCount(Counted, kind, r) <= Limit(kind)
  /\ Cardinality(Unrecorded) <= cuts

LEMMA LimitTypes == ASSUME NEW kind \in Limits PROVE Limit(kind) \in Nat
  BY FaucetAssumption DEF Limits, Limit

(* Within, group by group.                                                 *)
LEMMA WithinGroups ==
  ASSUME NEW S \in SUBSET Requests, NEW r
  PROVE  /\ Within(S, r) <=>
              \A kind \in Limits : Limited(kind, r) => GroupCount(S, kind, r) < Limit(kind)
         /\ Of(S, "wallet", r) = GroupCount(S, "wallet", r)
         /\ Of(Dashboard(S), "merchant", r) = GroupCount(S, "merchant", r)
         /\ Of(S, "ip", r) = GroupCount(S, "ip", r)
         /\ Cardinality(S) = GroupCount(S, "day", r)
  <1>1. {d \in S : d["wallet"] = r["wallet"]} = S \cap Group("wallet", r)
    BY DEF Group
  <1>2. {d \in Dashboard(S) : d["merchant"] = r["merchant"]} = S \cap Group("merchant", r)
    BY DEF Group, Dashboard
  <1>3. {d \in S : d["ip"] = r["ip"]} = S \cap Group("ip", r)
    BY DEF Group
  <1>4. S = S \cap Group("day", r)
    BY DEF Group
  <1>5. /\ Of(S, "wallet", r) = GroupCount(S, "wallet", r)
        /\ Of(Dashboard(S), "merchant", r) = GroupCount(S, "merchant", r)
        /\ Of(S, "ip", r) = GroupCount(S, "ip", r)
        /\ Cardinality(S) = GroupCount(S, "day", r)
    BY <1>1, <1>2, <1>3, <1>4 DEF Of, GroupCount
  <1>6. (\A kind \in Limits : Limited(kind, r) => GroupCount(S, kind, r) < Limit(kind)) <=>
          /\ GroupCount(S, "wallet", r) < PerWallet
          /\ r.via = "dashboard" => GroupCount(S, "merchant", r) < PerMerchant
          /\ r.ip # "none" => GroupCount(S, "ip", r) < PerIp
          /\ GroupCount(S, "day", r) < PerDay
    BY DEF Limits, Limited, Limit
  <1>7. QED
    BY <1>5, <1>6 DEF Within

(* A smaller set has a smaller count; a set with one more, at most one     *)
(* more.                                                                   *)
LEMMA GroupCountSubset ==
  ASSUME NEW S, IsFiniteSet(S), NEW T, T \subseteq S, NEW kind, NEW r
  PROVE  /\ GroupCount(S, kind, r) \in Nat /\ GroupCount(T, kind, r) \in Nat
         /\ GroupCount(T, kind, r) <= GroupCount(S, kind, r)
  <1> DEFINE G == Group(kind, r)
  <1>1. IsFiniteSet(S \cap G) /\ T \cap G \subseteq S \cap G
    BY FS_Subset, S \cap G \subseteq S
  <1>2. IsFiniteSet(T \cap G) /\ Cardinality(T \cap G) <= Cardinality(S \cap G)
    BY <1>1, FS_Subset
  <1>3. QED
    BY <1>1, <1>2, FS_CardinalityType DEF GroupCount

LEMMA OneMore ==
  ASSUME NEW S, IsFiniteSet(S), NEW q
  PROVE  /\ IsFiniteSet(S \cup {q})
         /\ Cardinality(S) \in Nat /\ Cardinality(S \cup {q}) \in Nat
         /\ Cardinality(S \cup {q}) <= Cardinality(S) + 1
  <1>1. Cardinality(S) \in Nat
    BY FS_CardinalityType
  <1>2. IsFiniteSet(S \cup {q}) /\
          Cardinality(S \cup {q}) = IF q \in S THEN Cardinality(S) ELSE Cardinality(S) + 1
    BY FS_AddElement
  <1>3. QED
    BY <1>1, <1>2

LEMMA GroupCountAdd ==
  ASSUME NEW S \in SUBSET Requests, IsFiniteSet(S), NEW q \in Requests, NEW kind \in Limits,
         NEW r \in Requests, Limited(kind, r), GroupCount(S, kind, r) <= Limit(kind),
         Within(S, q)
  PROVE  GroupCount(S \cup {q}, kind, r) <= Limit(kind)
  <1>1. CASE q \notin Group(kind, r)
    <2>1. (S \cup {q}) \cap Group(kind, r) = S \cap Group(kind, r)
      BY <1>1
    <2>2. QED
      BY <2>1 DEF GroupCount
  <1>2. CASE q \in Group(kind, r)
    <2>1. Group(kind, q) = Group(kind, r) /\ Limited(kind, q)
      <3>1. CASE kind = "wallet"
        BY <1>2, <3>1 DEF Group, Limited
      <3>2. CASE kind = "merchant"
        BY <1>2, <3>2 DEF Group, Limited
      <3>3. CASE kind = "ip"
        BY <1>2, <3>3 DEF Group, Limited
      <3>4. CASE kind = "day"
        BY <3>4 DEF Group, Limited
      <3>5. QED
        BY <3>1, <3>2, <3>3, <3>4 DEF Limits
    <2>2. GroupCount(S, kind, r) < Limit(kind)
      <3>1. \A k \in Limits : Limited(k, q) => GroupCount(S, k, q) < Limit(k)
        BY WithinGroups
      <3>2. GroupCount(S, kind, q) < Limit(kind)
        BY <3>1, <2>1
      <3>3. QED
        BY <3>2, <2>1 DEF GroupCount
    <2>3. (S \cup {q}) \cap Group(kind, r) = (S \cap Group(kind, r)) \cup {q}
      BY <1>2
    <2>4. IsFiniteSet(S \cap Group(kind, r))
      BY FS_Subset, S \cap Group(kind, r) \subseteq S
    <2>5. IsFiniteSet(S \cap Group(kind, r)) =>
            Cardinality((S \cap Group(kind, r)) \cup {q}) <= GroupCount(S, kind, r) + 1
      BY <2>4, OneMore DEF GroupCount
    <2>6. GroupCount(S \cup {q}, kind, r) <= GroupCount(S, kind, r) + 1
      BY <2>3, <2>4, <2>5 DEF GroupCount
    <2>7. GroupCount(S \cup {q}, kind, r) \in Nat /\ GroupCount(S, kind, r) \in Nat
      <3>1. IsFiniteSet(S \cup {q})
        BY FS_AddElement
      <3>2. S \subseteq S \cup {q} /\ S \cup {q} \subseteq S \cup {q}
        OBVIOUS
      <3>3. QED
        BY <3>1, <3>2, GroupCountSubset
    <2>8. QED
      BY <2>2, <2>6, <2>7, LimitTypes
  <1>3. QED
    BY <1>1, <1>2

LEMMA InitFaucetInv == FaucetInit => FaucetInv
  <1> SUFFICES ASSUME FaucetInit PROVE FaucetInv
    OBVIOUS
  <1>1. Range(line) = {}
    BY DEF FaucetInit, Range
  <1>2. FaucetTypeOK /\ line \in Seq(Requests) /\ OneServed
    BY <1>1, FaucetAssumption DEF FaucetInit, FaucetTypeOK, OneServed
  <1>3. Counted = {} /\ Unrecorded = {} /\ sent = {} /\ cuts = 0
    BY DEF FaucetInit, Counted, Unrecorded
  <1>4. ASSUME NEW kind \in Limits, NEW r \in Requests
        PROVE  GroupCount(Counted, kind, r) <= Limit(kind)
    <2>1. Counted \cap Group(kind, r) = {}
      BY <1>3
    <2>2. QED
      BY <2>1, FS_EmptySet, LimitTypes DEF GroupCount
  <1>5. QED
    BY <1>2, <1>3, <1>4, FS_EmptySet DEF FaucetInv

LEMMA CountedFinite ==
  ASSUME FaucetInv
  PROVE  /\ Counted \subseteq sent /\ IsFiniteSet(Counted) /\ Counted \in SUBSET Requests
         /\ Unrecorded \subseteq sent /\ IsFiniteSet(Unrecorded)
         /\ sent \subseteq Counted \cup Unrecorded
         /\ drops \in SUBSET Requests /\ IsFiniteSet(drops)
  <1>1. /\ Counted \subseteq sent /\ Unrecorded \subseteq sent /\ drops \subseteq sent
        /\ sent \subseteq Requests
    BY DEF FaucetInv, FaucetTypeOK, OneServed, Counted, Unrecorded
  <1>2. sent \subseteq Counted \cup Unrecorded
    BY <1>1 DEF Counted, Unrecorded
  <1>3. IsFiniteSet(sent)
    BY DEF FaucetInv
  <1>4. IsFiniteSet(Counted) /\ IsFiniteSet(Unrecorded) /\ IsFiniteSet(drops)
    BY <1>1, <1>3, FS_Subset
  <1>5. QED
    BY <1>1, <1>2, <1>4

(* What a step has to show: the drops that count stay, shrink or grow by   *)
(* one that was within the limits, and those never recorded grow by one    *)
(* only when something was cut off.                                        *)
LEMMA FaucetStep ==
  ASSUME FaucetInv, (FaucetTypeOK /\ OneServed)', line' \in Seq(Requests), IsFiniteSet(sent'),
         \/ Counted' \subseteq Counted
         \/ \E r \in Requests : Counted' \subseteq Counted \cup {r} /\ Within(Counted, r),
         \/ Unrecorded' \subseteq Unrecorded /\ cuts' = cuts
         \/ \E r : Unrecorded' \subseteq Unrecorded \cup {r} /\ cuts' = cuts + 1
  PROVE  FaucetInv'
  <1>1. /\ IsFiniteSet(Counted) /\ Counted \in SUBSET Requests /\ IsFiniteSet(Unrecorded)
        /\ Cardinality(Unrecorded) <= cuts /\ cuts \in Nat
    BY CountedFinite DEF FaucetInv, FaucetTypeOK
  <1>2. ASSUME NEW kind \in Limits, NEW q \in Requests, Limited(kind, q)
        PROVE  GroupCount(Counted', kind, q) <= Limit(kind)
    <2>1. GroupCount(Counted, kind, q) <= Limit(kind)
      BY <1>2 DEF FaucetInv
    <2>2. CASE Counted' \subseteq Counted
      <3>1. /\ GroupCount(Counted, kind, q) \in Nat /\ GroupCount(Counted', kind, q) \in Nat
            /\ GroupCount(Counted', kind, q) <= GroupCount(Counted, kind, q)
        BY <1>1, <2>2, GroupCountSubset
      <3>2. QED
        BY <2>1, <3>1, LimitTypes
    <2>3. CASE \E r \in Requests : Counted' \subseteq Counted \cup {r} /\ Within(Counted, r)
      <3>1. PICK r \in Requests : Counted' \subseteq Counted \cup {r} /\ Within(Counted, r)
        BY <2>3
      <3>2. GroupCount(Counted \cup {r}, kind, q) <= Limit(kind)
        BY <1>1, <1>2, <2>1, <3>1, GroupCountAdd
      <3>3. IsFiniteSet(Counted \cup {r})
        BY <1>1, OneMore
      <3>4. /\ GroupCount(Counted \cup {r}, kind, q) \in Nat
            /\ GroupCount(Counted', kind, q) \in Nat
            /\ GroupCount(Counted', kind, q) <= GroupCount(Counted \cup {r}, kind, q)
        BY <3>1, <3>3, GroupCountSubset
      <3>5. QED
        BY <3>2, <3>4, LimitTypes
    <2>4. QED
      BY <2>2, <2>3
  <1>3. Cardinality(Unrecorded') <= cuts'
    <2>1. CASE Unrecorded' \subseteq Unrecorded /\ cuts' = cuts
      <3>1. /\ Cardinality(Unrecorded') <= Cardinality(Unrecorded)
            /\ IsFiniteSet(Unrecorded')
        BY <1>1, <2>1, FS_Subset
      <3>2. Cardinality(Unrecorded') \in Nat /\ Cardinality(Unrecorded) \in Nat
        BY <1>1, <3>1, FS_CardinalityType
      <3>3. QED
        BY <1>1, <2>1, <3>1, <3>2
    <2>2. CASE \E r : Unrecorded' \subseteq Unrecorded \cup {r} /\ cuts' = cuts + 1
      <3>1. PICK r : Unrecorded' \subseteq Unrecorded \cup {r} /\ cuts' = cuts + 1
        BY <2>2
      <3>2. /\ IsFiniteSet(Unrecorded \cup {r}) /\ Cardinality(Unrecorded) \in Nat
            /\ Cardinality(Unrecorded \cup {r}) \in Nat
            /\ Cardinality(Unrecorded \cup {r}) <= Cardinality(Unrecorded) + 1
        BY <1>1, OneMore
      <3>3. /\ Cardinality(Unrecorded') <= Cardinality(Unrecorded \cup {r})
            /\ IsFiniteSet(Unrecorded')
        BY <3>1, <3>2, FS_Subset
      <3>4. Cardinality(Unrecorded') \in Nat
        BY <3>3, FS_CardinalityType
      <3>5. QED
        BY <1>1, <3>1, <3>2, <3>3, <3>4
    <2>3. QED
      BY <2>1, <2>2
  <1>4. QED
    BY <1>2, <1>3 DEF FaucetInv

(* Nobody but r is past the count while r is first.                        *)
LEMMA ServedAlone ==
  ASSUME FaucetInv, NEW r, Turn(r), NEW q \in Requests, at[q] \in {"allowed", "sent"}
  PROVE  q = r
  BY DEF FaucetInv, OneServed, Turn

LEMMA LineTypes ==
  ASSUME line \in Seq(Requests), NEW r \in Requests
  PROVE  /\ Append(line, r) \in Seq(Requests)
         /\ Range(Append(line, r)) \subseteq Requests
         /\ line # << >> => /\ Head(Append(line, r)) = Head(line)
                            /\ Head(line) \in Range(line) /\ Head(line) \in Requests
                            /\ Tail(line) \in Seq(Requests)
                            /\ Range(Tail(line)) \subseteq Requests
  <1>1. ASSUME NEW s \in Seq(Requests) PROVE Range(s) \subseteq Requests
    BY DEF Range
  <1>2. Append(line, r) \in Seq(Requests) /\ Append(line, r) # << >>
    BY AppendProperties
  <1>3. line # << >> => /\ Head(Append(line, r)) = Head(line) /\ Head(line) = line[1]
                        /\ 1 \in DOMAIN line /\ Tail(line) \in Seq(Requests)
                        /\ Head(line) \in Requests
    OBVIOUS
  <1>4. QED
    BY <1>1, <1>2, <1>3 DEF Range

LEMMA DropFaucetInv ==
  ASSUME FaucetInv, NEW r \in Requests, dropFaucet(r)
  PROVE  FaucetInv'
  <1>1. /\ Append(line, r) \in Seq(Requests) /\ Range(Append(line, r)) \subseteq Requests
        /\ line # << >> => Head(Append(line, r)) = Head(line)
    BY LineTypes DEF FaucetInv
  <1>2. /\ at \in [Requests -> {"new", "queued", "allowed", "sent", "answered"}]
        /\ at[r] = "new" /\ at' = [at EXCEPT ![r] = "queued"] /\ line' = Append(line, r)
        /\ UNCHANGED <<drops, sent, funded, cuts>>
    BY DEF FaucetInv, FaucetTypeOK, dropFaucet
  <1>3. FaucetTypeOK'
    BY <1>1, <1>2 DEF FaucetInv, FaucetTypeOK
  <1>4. \A q \in Requests : at'[q] \in {"allowed", "sent"} => at'[q] = at[q]
    BY <1>2
  <1>5. line' # << >> /\ line' \in Seq(Requests)
    BY <1>1, <1>2, AppendProperties DEF FaucetInv
  <1>6. OneServed'
    BY <1>1, <1>2, <1>4, <1>5 DEF FaucetInv, OneServed, Within
  <1>7. Counted' = Counted /\ Unrecorded' = Unrecorded
    BY <1>2 DEF Counted, Unrecorded
  <1>8. QED
    BY <1>2, <1>3, <1>5, <1>6, <1>7, FaucetStep DEF FaucetInv

(* The first has been answered: nobody is past the count.                  *)
LEMMA AnsweredQueue ==
  ASSUME FaucetInv, NEW r \in Requests, Turn(r), Answered(r)
  PROVE  /\ at' \in [Requests -> {"new", "queued", "allowed", "sent", "answered"}]
         /\ line' \in Seq(Requests) /\ Range(line') \subseteq Requests
         /\ \A q \in Requests : at'[q] \notin {"allowed", "sent"}
         /\ \A q \in Requests : at[q] = "sent" => q = r
         /\ OneServed'
  <1>1. /\ at \in [Requests -> {"new", "queued", "allowed", "sent", "answered"}]
        /\ line \in Seq(Requests) /\ line # << >>
        /\ at' = [at EXCEPT ![r] = "answered"] /\ line' = Tail(line)
    BY DEF FaucetInv, FaucetTypeOK, Turn, Answered
  <1>2. Tail(line) \in Seq(Requests) /\ Range(Tail(line)) \subseteq Requests
    BY <1>1, LineTypes
  <1>3. \A q \in Requests : at[q] \in {"allowed", "sent"} => q = r
    BY ServedAlone
  <1>4. \A q \in Requests : at'[q] \notin {"allowed", "sent"}
    BY <1>1, <1>3
  <1>5. OneServed'
    BY <1>4 DEF OneServed
  <1>6. QED
    BY <1>1, <1>2, <1>3, <1>4, <1>5

(* While the first is not sent, what counts is what is recorded.           *)
LEMMA CountedIsRecorded ==
  ASSUME FaucetInv, NEW r \in Requests, Turn(r), at[r] # "sent"
  PROVE  Counted = drops /\ Unrecorded = sent \ drops
  <1>1. \A q \in Requests : at[q] # "sent"
    BY ServedAlone
  <1>2. sent \subseteq Requests
    BY DEF FaucetInv, FaucetTypeOK
  <1>3. QED
    BY <1>1, <1>2 DEF Counted, Unrecorded

LEMMA AnsweredUnsent ==
  ASSUME FaucetInv, NEW r \in Requests, Turn(r), at[r] # "sent", Answered(r),
         UNCHANGED <<drops, sent, funded, cuts>>
  PROVE  FaucetInv'
  <1>1. /\ OneServed' /\ line' \in Seq(Requests) /\ Range(line') \subseteq Requests
        /\ at' \in [Requests -> {"new", "queued", "allowed", "sent", "answered"}]
        /\ \A q \in Requests : at'[q] # "sent"
    BY AnsweredQueue
  <1>2. FaucetTypeOK'
    BY <1>1 DEF FaucetInv, FaucetTypeOK
  <1>3. Counted' = drops /\ Unrecorded' = sent \ drops
    BY <1>1 DEF Counted, Unrecorded, FaucetInv, FaucetTypeOK
  <1>4. Counted' = Counted /\ Unrecorded' = Unrecorded
    BY <1>3, CountedIsRecorded
  <1>5. IsFiniteSet(sent')
    BY DEF FaucetInv
  <1>6. QED
    BY <1>1, <1>2, <1>4, <1>5, FaucetStep

LEMMA CountFaucetInv ==
  ASSUME FaucetInv, NEW r \in Requests, Count(r)
  PROVE  FaucetInv'
  <1>1. Turn(r) /\ at[r] = "queued" /\ UNCHANGED <<drops, sent, funded, cuts>>
    BY DEF Count
  <1>2. CASE Within(drops, r) /\ r.wallet \notin funded
    <2>1. /\ at' = [at EXCEPT ![r] = "allowed"] /\ line' = line
          /\ at \in [Requests -> {"new", "queued", "allowed", "sent", "answered"}]
      BY <1>2 DEF Count, FaucetInv, FaucetTypeOK
    <2>2. FaucetTypeOK'
      BY <1>1, <2>1 DEF FaucetInv, FaucetTypeOK
    <2>3. \A q \in Requests : at'[q] = IF q = r THEN "allowed" ELSE at[q]
      BY <2>1
    <2>4. Within(drops, r)'
      BY <1>1, <1>2 DEF Within
    <2>5. OneServed'
      BY <1>1, <2>1, <2>3, <2>4, ServedAlone DEF FaucetInv, OneServed, Turn, Within
    <2>6. Counted' = Counted /\ Unrecorded' = Unrecorded
      BY <1>1, <2>3 DEF Counted, Unrecorded, FaucetInv, FaucetTypeOK
    <2>7. line' \in Seq(Requests) /\ IsFiniteSet(sent') /\ cuts' = cuts
      BY <1>1, <2>1 DEF FaucetInv
    <2>8. QED
      BY <2>2, <2>5, <2>6, <2>7, FaucetStep
  <1>3. CASE ~(Within(drops, r) /\ r.wallet \notin funded)
    <2>1. Answered(r)
      BY <1>3 DEF Count
    <2>2. QED
      BY <1>1, <2>1, AnsweredUnsent
  <1>4. QED
    BY <1>2, <1>3

LEMMA TransferFaucetInv ==
  ASSUME FaucetInv, NEW r \in Requests, Transfer(r)
  PROVE  FaucetInv'
  <1>1. Turn(r) /\ at[r] = "allowed" /\ UNCHANGED <<drops, funded, cuts>>
    BY DEF Transfer
  <1>2. CASE at' = [at EXCEPT ![r] = "sent"] /\ sent' = sent \cup {r} /\ line' = line
    <2>1. at \in [Requests -> {"new", "queued", "allowed", "sent", "answered"}]
      BY DEF FaucetInv, FaucetTypeOK
    <2>2. FaucetTypeOK'
      BY <1>1, <1>2, <2>1 DEF FaucetInv, FaucetTypeOK
    <2>3. \A q \in Requests : at'[q] = IF q = r THEN "sent" ELSE at[q]
      BY <1>2, <2>1
    <2>4. OneServed'
      BY <1>1, <1>2, <2>3, ServedAlone DEF FaucetInv, OneServed, Turn, Within
    <2>5. Counted = drops /\ Unrecorded = sent \ drops
      BY <1>1, CountedIsRecorded
    <2>6. \A q \in Requests : at'[q] = "sent" => q = r
      BY <1>1, <2>3, ServedAlone
    <2>7. Counted' \subseteq Counted \cup {r}
      BY <1>1, <2>5, <2>6 DEF Counted
    <2>8. Within(Counted, r)
      BY <1>1, <2>5 DEF FaucetInv, OneServed
    <2>9. Unrecorded' \subseteq Unrecorded
      BY <1>1, <1>2, <2>3, <2>5 DEF Unrecorded
    <2>10. line' \in Seq(Requests) /\ IsFiniteSet(sent') /\ cuts' = cuts
      BY <1>1, <1>2, OneMore DEF FaucetInv
    <2>11. QED
      BY <2>2, <2>4, <2>7, <2>8, <2>9, <2>10, FaucetStep
  <1>3. CASE Answered(r) /\ sent' = sent
    BY <1>1, <1>3, AnsweredUnsent
  <1>4. QED
    BY <1>2, <1>3 DEF Transfer

LEMMA RecordFaucetInv ==
  ASSUME FaucetInv, NEW r \in Requests, recordDrop(r)
  PROVE  FaucetInv'
  <1>1. /\ Turn(r) /\ at[r] = "sent" /\ Answered(r) /\ UNCHANGED <<sent, funded>>
        /\ r \in sent
    BY DEF recordDrop, FaucetInv, OneServed
  <1>2. /\ OneServed' /\ line' \in Seq(Requests) /\ Range(line') \subseteq Requests
        /\ at' \in [Requests -> {"new", "queued", "allowed", "sent", "answered"}]
        /\ \A q \in Requests : at'[q] # "sent"
        /\ \A q \in Requests : at[q] = "sent" => q = r
    BY <1>1, AnsweredQueue
  <1>3. Counted = drops \cup {r} /\ Unrecorded = (sent \ drops) \ {r}
    BY <1>1, <1>2 DEF Counted, Unrecorded, FaucetInv, FaucetTypeOK
  <1>4. Counted' = drops' /\ Unrecorded' = sent \ drops'
    BY <1>1, <1>2 DEF Counted, Unrecorded, FaucetInv, FaucetTypeOK
  <1>5. IsFiniteSet(sent')
    BY <1>1 DEF FaucetInv
  <1>6. CASE drops' = drops \cup {r} /\ cuts' = cuts
    <2>1. FaucetTypeOK'
      BY <1>1, <1>2, <1>6 DEF FaucetInv, FaucetTypeOK
    <2>2. Counted' = Counted /\ Unrecorded' = Unrecorded
      BY <1>3, <1>4, <1>6
    <2>3. QED
      BY <1>2, <1>5, <1>6, <2>1, <2>2, FaucetStep
  <1>7. CASE drops' = drops /\ Cut
    <2>1. cuts' = cuts + 1 /\ cuts' \in 0 .. MaxCuts
      BY <1>7, FaucetAssumption DEF Cut, FaucetInv, FaucetTypeOK
    <2>2. FaucetTypeOK'
      BY <1>1, <1>2, <1>7, <2>1 DEF FaucetInv, FaucetTypeOK
    <2>3. Counted' \subseteq Counted /\ Unrecorded' \subseteq Unrecorded \cup {r}
      BY <1>3, <1>4, <1>7
    <2>4. QED
      BY <1>2, <1>5, <2>1, <2>2, <2>3, FaucetStep
  <1>8. QED
    BY <1>6, <1>7 DEF recordDrop

LEMMA WalletFaucetInv ==
  ASSUME FaucetInv, NEW r \in Requests, WalletReceives(r) \/ WalletSpends(r.wallet)
  PROVE  FaucetInv'
  <1>1. UNCHANGED <<at, line, drops, sent, cuts>>
    BY DEF WalletReceives, WalletSpends
  <1>2. funded' \subseteq funded \cup {r.wallet}
    BY DEF WalletReceives, WalletSpends
  <1>3. FaucetTypeOK'
    BY <1>1, <1>2 DEF FaucetInv, FaucetTypeOK
  <1>4. OneServed' /\ Counted' = Counted /\ Unrecorded' = Unrecorded
    BY <1>1 DEF FaucetInv, OneServed, Within, Counted, Unrecorded
  <1>5. line' \in Seq(Requests) /\ IsFiniteSet(sent')
    BY <1>1 DEF FaucetInv
  <1>6. QED
    BY <1>1, <1>3, <1>4, <1>5, FaucetStep

LEMMA WithinSmaller ==
  ASSUME NEW S \in SUBSET Requests, IsFiniteSet(S), NEW T \in SUBSET S, NEW r, Within(S, r)
  PROVE  Within(T, r)
  <1>1. \A kind \in Limits : Limited(kind, r) => GroupCount(S, kind, r) < Limit(kind)
    BY WithinGroups
  <1>2. ASSUME NEW kind \in Limits, Limited(kind, r) PROVE GroupCount(T, kind, r) < Limit(kind)
    <2>1. GroupCount(S, kind, r) < Limit(kind)
      BY <1>1, <1>2
    <2>2. /\ GroupCount(S, kind, r) \in Nat /\ GroupCount(T, kind, r) \in Nat
          /\ GroupCount(T, kind, r) <= GroupCount(S, kind, r)
      BY GroupCountSubset
    <2>3. QED
      BY <2>1, <2>2, LimitTypes
  <1>3. T \in SUBSET Requests
    OBVIOUS
  <1>4. QED
    BY <1>2, <1>3, WithinGroups

LEMMA DayFaucetInv ==
  ASSUME FaucetInv, NEW r \in Requests, DayPasses(r)
  PROVE  FaucetInv'
  <1>1. /\ r \in sent /\ at[r] # "sent"
        /\ sent' = sent \ {r} /\ drops' = drops \ {r}
        /\ UNCHANGED <<at, line, funded, cuts>>
    BY DEF DayPasses
  <1>2. FaucetTypeOK'
    BY <1>1 DEF FaucetInv, FaucetTypeOK
  <1>3. drops \in SUBSET Requests /\ IsFiniteSet(drops) /\ drops' \in SUBSET drops
    BY <1>1, CountedFinite
  <1>4. ASSUME NEW q \in Requests, at[q] = "allowed" PROVE Within(drops', q)
    <2>1. Within(drops, q)
      BY <1>4 DEF FaucetInv, OneServed
    <2>2. QED
      BY <1>3, <2>1, WithinSmaller
  <1>5. OneServed'
    BY <1>1, <1>4 DEF FaucetInv, OneServed, Within
  <1>6. Counted' \subseteq Counted /\ Unrecorded' \subseteq Unrecorded
    BY <1>1 DEF Counted, Unrecorded
  <1>7. line' \in Seq(Requests) /\ IsFiniteSet(sent')
    BY <1>1, FS_Subset DEF FaucetInv
  <1>8. QED
    BY <1>1, <1>2, <1>5, <1>6, <1>7, FaucetStep

LEMMA RestartFaucetInv ==
  ASSUME FaucetInv, ApiRestarts
  PROVE  FaucetInv'
  <1>1. /\ line # << >> /\ line' = << >> /\ UNCHANGED <<drops, sent, funded>>
        /\ at' = [r \in Requests |-> IF r \in Range(line) THEN "answered" ELSE at[r]]
        /\ cuts' = cuts + 1 /\ cuts' \in 0 .. MaxCuts
    BY FaucetAssumption DEF ApiRestarts, Cut, FaucetInv, FaucetTypeOK
  <1>2. Head(line) \in Range(line) /\ Head(line) \in Requests
    BY <1>1, LineTypes DEF FaucetInv
  <1>3. \A q \in Requests : at[q] \in {"allowed", "sent"} => q = Head(line)
    BY DEF FaucetInv, OneServed
  <1>4. \A q \in Requests : at'[q] \notin {"allowed", "sent"}
    BY <1>1, <1>2, <1>3
  <1>5. OneServed'
    BY <1>4 DEF OneServed
  <1>6. Range(line') = {} /\ line' \in Seq(Requests)
    BY <1>1 DEF Range
  <1>7. FaucetTypeOK'
    BY <1>1, <1>6 DEF FaucetInv, FaucetTypeOK
  <1>8. Counted' \subseteq Counted
    BY <1>1, <1>4 DEF Counted
  <1>9. Unrecorded' \subseteq Unrecorded \cup {Head(line)}
    BY <1>1, <1>3 DEF Unrecorded, FaucetInv, FaucetTypeOK
  <1>10. IsFiniteSet(sent')
    BY <1>1 DEF FaucetInv
  <1>11. QED
    BY <1>1, <1>5, <1>6, <1>7, <1>8, <1>9, <1>10, FaucetStep

LEMMA NextFaucetInv == FaucetInv /\ [FaucetNext]_faucetVars => FaucetInv'
  <1> SUFFICES ASSUME FaucetInv, [FaucetNext]_faucetVars PROVE FaucetInv'
    OBVIOUS
  <1>1. ASSUME NEW r \in Requests,
               dropFaucet(r) \/ Count(r) \/ Transfer(r) \/ recordDrop(r)
        PROVE  FaucetInv'
    BY <1>1, DropFaucetInv, CountFaucetInv, TransferFaucetInv, RecordFaucetInv
  <1>2. ASSUME NEW r \in Requests,
               WalletReceives(r) \/ DayPasses(r) \/ WalletSpends(r.wallet)
        PROVE  FaucetInv'
    BY <1>2, WalletFaucetInv, DayFaucetInv
  <1>3. CASE ApiRestarts
    BY <1>3, RestartFaucetInv
  <1>4. CASE UNCHANGED faucetVars
    <2>1. UNCHANGED <<at, line, drops, sent, funded, cuts>>
      BY <1>4 DEF faucetVars
    <2>2. QED
      BY <2>1 DEF FaucetInv, FaucetTypeOK, OneServed, Within, Counted, Unrecorded
  <1>5. QED
    BY <1>1, <1>2, <1>3, <1>4 DEF FaucetNext

(* What was sent is what counts and what was never recorded.               *)
LEMMA InvDropsWithinLimits == FaucetInv => DropsWithinLimits
  <1> SUFFICES ASSUME FaucetInv, NEW r \in sent
               PROVE  /\ Of(sent, "wallet", r) <= PerWallet + cuts
                      /\ (r.via = "dashboard" =>
                            Of(Dashboard(sent), "merchant", r) <= PerMerchant + cuts)
                      /\ (r.ip # "none" => Of(sent, "ip", r) <= PerIp + cuts)
                      /\ Cardinality(sent) <= PerDay + cuts
    BY DEF DropsWithinLimits
  <1>1. r \in Requests /\ sent \in SUBSET Requests /\ cuts \in Nat
    BY DEF FaucetInv, FaucetTypeOK
  <1>2. ASSUME NEW kind \in Limits, Limited(kind, r)
        PROVE  GroupCount(sent, kind, r) <= Limit(kind) + cuts
    <2> DEFINE G == Group(kind, r)
    <2>1. GroupCount(Counted, kind, r) <= Limit(kind) /\ Cardinality(Unrecorded) <= cuts
      BY <1>1, <1>2 DEF FaucetInv
    <2>2. /\ IsFiniteSet(Counted) /\ IsFiniteSet(Unrecorded)
          /\ sent \subseteq Counted \cup Unrecorded
      BY CountedFinite
    <2>3. IsFiniteSet(Counted \cap G) /\ Cardinality(Counted \cap G) \in Nat
      BY <2>2, FS_Subset, FS_CardinalityType, Counted \cap G \subseteq Counted
    <2>4. /\ IsFiniteSet((Counted \cap G) \cup Unrecorded)
          /\ Cardinality((Counted \cap G) \cup Unrecorded) <=
               Cardinality(Counted \cap G) + Cardinality(Unrecorded)
      <3>1. IsFiniteSet((Counted \cap G) \cap Unrecorded)
        BY <2>2, FS_Subset, (Counted \cap G) \cap Unrecorded \subseteq Unrecorded
      <3>2. Cardinality((Counted \cap G) \cap Unrecorded) \in Nat /\ Cardinality(Unrecorded) \in Nat
        BY <2>2, <3>1, FS_CardinalityType
      <3>3. /\ IsFiniteSet((Counted \cap G) \cup Unrecorded)
            /\ Cardinality((Counted \cap G) \cup Unrecorded) =
                 Cardinality(Counted \cap G) + Cardinality(Unrecorded)
                   - Cardinality((Counted \cap G) \cap Unrecorded)
        BY <2>2, <2>3, FS_Union
      <3> HIDE DEF G
      <3>4. QED
        BY <2>3, <3>2, <3>3
    <2>5. sent \cap G \subseteq (Counted \cap G) \cup Unrecorded
      BY <2>2
    <2>6. /\ IsFiniteSet(sent \cap G)
          /\ Cardinality(sent \cap G) <= Cardinality((Counted \cap G) \cup Unrecorded)
      BY <2>4, <2>5, FS_Subset
    <2>7. /\ Cardinality(sent \cap G) \in Nat /\ Cardinality(Unrecorded) \in Nat
          /\ Cardinality((Counted \cap G) \cup Unrecorded) \in Nat
      BY <2>2, <2>4, <2>6, FS_CardinalityType
    <2>8. Cardinality(Counted \cap G) <= Limit(kind)
      BY <2>1 DEF GroupCount
    <2>9. Cardinality(sent \cap G) <= Limit(kind) + cuts
      <3> HIDE DEF G
      <3>1. QED
        BY <1>1, <2>1, <2>3, <2>4, <2>6, <2>7, <2>8, LimitTypes
    <2>10. QED
      BY <2>9 DEF GroupCount
  <1>3. /\ Of(sent, "wallet", r) = GroupCount(sent, "wallet", r)
        /\ Of(Dashboard(sent), "merchant", r) = GroupCount(sent, "merchant", r)
        /\ Of(sent, "ip", r) = GroupCount(sent, "ip", r)
        /\ Cardinality(sent) = GroupCount(sent, "day", r)
    BY <1>1, WithinGroups
  <1>4. /\ GroupCount(sent, "wallet", r) <= PerWallet + cuts
        /\ r.via = "dashboard" => GroupCount(sent, "merchant", r) <= PerMerchant + cuts
        /\ r.ip # "none" => GroupCount(sent, "ip", r) <= PerIp + cuts
        /\ GroupCount(sent, "day", r) <= PerDay + cuts
    BY <1>2 DEF Limits, Limited, Limit
  <1>5. QED
    BY <1>3, <1>4

(* Whoever asks at once, whatever the order of counts, transfers, inserts  *)
(* and restarts, and however drops leave the window: no wallet, address,   *)
(* merchant or day gets more than its limit, but for one drop with every   *)
(* recording that was cut off.                                             *)
THEOREM DropsStayWithinLimits == FaucetSpec => []DropsWithinLimits
  BY InitFaucetInv, NextFaucetInv, InvDropsWithinLimits, PTL DEF FaucetSpec

-----------------------------------------------------------------------------
(* Types. The two parts whose type invariant says more than the invariants *)
(* above: what has time left is there, and the server holds some secret.   *)

SecretsHeld ==
  /\ SecretsTyped /\ (ring.left > 0 => ring.previous # 0)
  /\ held # {} /\ stale \subseteq Posters

LEMMA InitSecretsHeld == SecretsInit => SecretsHeld
  <1> SUFFICES ASSUME SecretsInit PROVE SecretsHeld
    OBVIOUS
  <1>1. SecretsTyped
    BY InitSecretsInv DEF SecretsInv
  <1>2. QED
    BY <1>1 DEF SecretsInit, SecretsHeld

LEMMA NextSecretsHeld ==
  SecretsInv /\ SecretsHeld /\ [SecretsNext]_secretsVars => SecretsHeld'
  <1> SUFFICES ASSUME SecretsInv, SecretsHeld, [SecretsNext]_secretsVars
               PROVE  SecretsHeld'
    OBVIOUS
  <1>1. SecretsTyped'
    BY NextSecretsInv DEF SecretsInv
  <1>2. ring \in Rings
    BY DEF SecretsInv, SecretsTyped
  <1>3. ASSUME NEW grace \in Graces, rollWebhookSecret(grace)
        PROVE  SecretsHeld'
    <2>1. /\ ring'.left = grace /\ ring'.previous = IF grace > 0 THEN ring.secret ELSE 0
          /\ ring.secret \in Nat /\ ring.secret # 0
          /\ held' = held /\ stale' \subseteq Posters
      BY <1>2, <1>3, SecretsAssumption DEF rollWebhookSecret, Rings, Versions
    <2>2. QED
      BY <1>1, <2>1 DEF SecretsHeld
  <1>4. CASE Adopt \/ Retire
    <2>1. held' # {} /\ UNCHANGED <<ring, stale>>
      BY <1>4 DEF Adopt, Retire
    <2>2. QED
      BY <1>1, <2>1 DEF SecretsHeld
  <1>5. CASE HourPasses
    <2>1. /\ ring'.left = Sooner(ring.left) /\ ring'.previous = ring.previous
          /\ ring.left \in Nat /\ UNCHANGED <<held, stale>>
      BY <1>2, <1>5 DEF HourPasses, Rings
    <2>2. QED
      BY <1>1, <2>1 DEF SecretsHeld, Sooner
  <1>6. ASSUME NEW p \in Posters, ClaimSecrets(p) \/ PostEnds(p)
        PROVE  SecretsHeld'
    <2>1. UNCHANGED <<ring, held>> /\ stale' \subseteq stale
      BY <1>6 DEF ClaimSecrets, PostEnds
    <2>2. QED
      BY <1>1, <2>1 DEF SecretsHeld
  <1>7. ASSUME NEW p \in Posters, Sign(p)
        PROVE  SecretsHeld'
    <2>1. UNCHANGED <<held, stale>> /\ DropExpired(post[p].read)
      BY <1>7 DEF Sign
    <2>2. ring' = ring \/ (ring.left = 0 /\ ring' = [ring EXCEPT !.previous = 0])
      BY <2>1 DEF DropExpired
    <2>3. ring'.left > 0 => ring'.previous # 0
      BY <1>2, <2>2 DEF SecretsHeld, Rings
    <2>4. QED
      BY <1>1, <2>1, <2>3 DEF SecretsHeld
  <1>8. CASE UNCHANGED secretsVars
    BY <1>1, <1>8 DEF secretsVars, SecretsHeld
  <1>9. QED
    BY <1>3, <1>4, <1>5, <1>6, <1>7, <1>8 DEF SecretsNext

LEMMA SecretsTypeCorrect == SecretsSpec => []SecretsTypeOK
  <1>1. SecretsHeld => SecretsTypeOK
    BY DEF SecretsHeld, SecretsTyped, SecretsTypeOK, Rings
  <1>2. QED
    BY <1>1, InitSecretsInv, InitSecretsHeld, NextSecretsInv, NextSecretsHeld, PTL
    DEF SecretsSpec

LEMMA KeysTypeCorrect == KeysSpec => []KeysTypeOK
  <1>1. KeysInit => cutOff \in 0 .. MaxCutOff
    BY KeysAssumption DEF KeysInit
  <1>2. cutOff \in 0 .. MaxCutOff /\ [KeysNext]_keysVars => (cutOff \in 0 .. MaxCutOff)'
    <2> SUFFICES ASSUME cutOff \in 0 .. MaxCutOff, [KeysNext]_keysVars
                 PROVE  cutOff' \in 0 .. MaxCutOff
      OBVIOUS
    <2>1. ASSUME NEW r \in Rolls, RollCut(r)
          PROVE  cutOff' \in 0 .. MaxCutOff
      <3>1. cutOff < MaxCutOff /\ cutOff' = cutOff + 1
        BY <2>1 DEF RollCut
      <3>2. QED
        BY <3>1, KeysAssumption
    <2>2. ASSUME NEW r \in Rolls, NEW k \in KeyIds, NEW g \in KeyGraces, RollReads(r, k, g)
          PROVE  cutOff' = cutOff
      BY <2>2 DEF RollReads
    <2>3. ASSUME NEW r \in Rolls, RollMints(r) \/ RollStamps(r)
          PROVE  cutOff' = cutOff
      BY <2>3 DEF RollMints, RollStamps
    <2>4. ASSUME NEW k \in KeyIds, revokeApiKey(k)
          PROVE  cutOff' = cutOff
      BY <2>4 DEF revokeApiKey
    <2>5. CASE Create \/ expirySweep \/ TimePasses \/ UNCHANGED keysVars
      BY <2>5 DEF Create, expirySweep, TimePasses, keysVars
    <2>6. QED
      BY <2>1, <2>2, <2>3, <2>4, <2>5 DEF KeysNext
  <1>3. KeysInv /\ cutOff \in 0 .. MaxCutOff => KeysTypeOK
    BY DEF KeysInv, KeysTyped, KeysTypeOK, RollRequests, NotRolling
  <1>4. QED
    BY <1>1, <1>2, <1>3, InitKeysInv, NextKeysInv, PTL DEF KeysSpec

LEMMA FaucetTypeCorrect == FaucetSpec => []FaucetTypeOK
  <1>1. FaucetInv => FaucetTypeOK
    BY DEF FaucetInv
  <1>2. QED
    BY <1>1, InitFaucetInv, NextFaucetInv, PTL DEF FaucetSpec

-----------------------------------------------------------------------------
(* The parts together: every step of the run is a step of one part.        *)

LEMMA EachPart ==
  RulesSpec => DeliveriesSpec /\ SecretsSpec /\ KeysSpec /\ FaucetSpec
  <1>1. RulesInit => DeliveriesInit /\ SecretsInit /\ KeysInit /\ FaucetInit
    BY DEF RulesInit
  <1>2. [RulesNext]_<<part, queueVars, secretsVars, keysVars, faucetVars>> =>
          /\ [DeliveriesNext]_queueVars /\ [SecretsNext]_secretsVars
          /\ [KeysNext]_keysVars /\ [FaucetNext]_faucetVars
    BY DEF RulesNext
  <1>3. QED
    BY <1>1, <1>2, PTL DEF RulesSpec, DeliveriesSpec, SecretsSpec, KeysSpec, FaucetSpec

(* The type invariant of the run, for every value of its constants.        *)
THEOREM RulesTypeCorrect == RulesSpec => []RulesTypeOK
  <1>1. DeliveriesTypeOK /\ SecretsTypeOK /\ KeysTypeOK /\ FaucetTypeOK => RulesTypeOK
    BY DEF RulesTypeOK
  <1>2. QED
    BY <1>1, EachPart, QueueTypeCorrect, SecretsTypeCorrect, KeysTypeCorrect,
       FaucetTypeCorrect, PTL
=============================================================================
