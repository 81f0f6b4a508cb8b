-------------------------------- MODULE Keys --------------------------------
(***************************************************************************)
(* The secret API keys of a merchant (api/src/db/api-keys.ts): created,    *)
(* revoked, and rolled in three steps that share no transaction; and the   *)
(* worker's sweep that tells the merchant which of them are about to stop  *)
(* (api/src/worker/notify.ts).                                             *)
(***************************************************************************)
EXTENDS Integers

CONSTANTS
  MaxKeys,    (* Bound on keys.                                            *)
  Rolls,      (* Requests to roll a key,                                   *)
  KeyGraces,  (* and the graces they ask for.                              *)
  HOUR, DAY,  (* The thresholds of the sweep.                              *)
  MaxCutOff   (* Bound on requests cut off by a crash.                     *)

(* No grace is so short that it ends before a sweep.                       *)
ASSUME KeysAssumption ==
  /\ MaxKeys \in Nat \ {0} /\ KeyGraces \subseteq Nat \ {1} /\ MaxCutOff \in Nat
  /\ HOUR \in Nat \ {0} /\ DAY \in Nat /\ HOUR < DAY

VARIABLES
  apiKey,     (* The rows of api_keys and the notices of each.             *)
  rolling,    (* The requests, with what they have read.                   *)
  swept,      (* The sweep has looked at them since time last passed.      *)
  cutOff

keysVars == <<apiKey, rolling, swept, cutOff>>

KeyIds == 1 .. MaxKeys

NEVER == -1

Unmade == [made |-> FALSE, revoked |-> FALSE, left |-> NEVER, notices |-> {}]

NotRolling == [step |-> "none"]

KeysInit ==
  /\ apiKey = [k \in KeyIds |-> [Unmade EXCEPT !.made = (k = 1)]]
  /\ rolling = [r \in Rolls |-> NotRolling]
  /\ swept = FALSE /\ cutOff = 0

authenticateKey(k) == apiKey[k].made /\ ~apiKey[k].revoked /\ apiKey[k].left # 0

-----------------------------------------------------------------------------

createApiKey ==
  \E k \in KeyIds : /\ ~apiKey[k].made /\ \A i \in 1 .. k - 1 : apiKey[i].made
                 /\ apiKey' = [apiKey EXCEPT ![k].made = TRUE]

Create == createApiKey /\ UNCHANGED <<rolling, swept, cutOff>>

revokeApiKey(k) ==
  /\ apiKey[k].made
  /\ apiKey' = [apiKey EXCEPT ![k].revoked = TRUE]
  /\ UNCHANGED <<rolling, swept, cutOff>>

RollReads(r, k, grace) ==
  /\ rolling[r] = NotRolling /\ authenticateKey(k)
  /\ rolling' = [rolling EXCEPT ![r] = [step |-> "mint", old |-> k, grace |-> grace]]
  /\ UNCHANGED <<apiKey, swept, cutOff>>

RollMints(r) ==
  /\ rolling[r].step = "mint"
  /\ createApiKey
  /\ rolling' = [rolling EXCEPT ![r].step = "stamp"]
  /\ UNCHANGED <<swept, cutOff>>

(* The grace of the last to stamp, whatever another roll has set.          *)
RollStamps(r) ==
  /\ rolling[r].step = "stamp"
  /\ LET k == rolling[r].old
     IN  apiKey' = IF rolling[r].grace = 0 THEN [apiKey EXCEPT ![k].revoked = TRUE]
                   ELSE [apiKey EXCEPT ![k].left = rolling[r].grace]
  /\ rolling' = [rolling EXCEPT ![r] = NotRolling]
  /\ UNCHANGED <<swept, cutOff>>

RollCut(r) ==
  /\ rolling[r] # NotRolling
  /\ cutOff < MaxCutOff /\ cutOff' = cutOff + 1
  /\ rolling' = [rolling EXCEPT ![r] = NotRolling]
  /\ UNCHANGED <<apiKey, swept>>

-----------------------------------------------------------------------------
(* Time and the sweep.                                                     *)

(* Each band excludes the tighter one.                                     *)
Bands(left) == IF left \in 1 .. HOUR THEN {"1h"} ELSE IF left \in HOUR + 1 .. DAY THEN {"24h"} ELSE {}

(* Wrong: one notice of a key, whatever the threshold.                     *)
NoticeOnce(k, bands) == IF apiKey[k].notices = {} THEN bands ELSE apiKey[k].notices

(* The dedupe key is of the key and the threshold.                         *)
writeNotice(k, bands) == apiKey[k].notices \cup bands

expirySweep ==
  /\ swept' = TRUE
  /\ apiKey' = [k \in KeyIds |->
       IF apiKey[k].revoked THEN apiKey[k]
       ELSE [apiKey[k] EXCEPT !.notices = writeNotice(k, Bands(apiKey[k].left))]]
  /\ UNCHANGED <<rolling, cutOff>>

(* The worker is up: it sweeps every minute, far more often than time      *)
(* passes here.                                                            *)
TimePasses ==
  /\ swept /\ swept' = FALSE
  /\ apiKey' = [k \in KeyIds |-> [apiKey[k] EXCEPT !.left = IF @ > 0 THEN @ - 1 ELSE @]]
  /\ UNCHANGED <<rolling, cutOff>>

KeysNext ==
  \/ Create
  \/ \E k \in KeyIds : revokeApiKey(k)
  \/ \E r \in Rolls :
       \/ \E k \in KeyIds, g \in KeyGraces : RollReads(r, k, g)
       \/ RollMints(r) \/ RollStamps(r) \/ RollCut(r)
  \/ expirySweep \/ TimePasses

KeysSpec == KeysInit /\ [][KeysNext]_keysVars

-----------------------------------------------------------------------------
(* Properties.                                                             *)

KeyRows == [made : BOOLEAN, revoked : BOOLEAN, left : {NEVER} \cup Nat,
            notices : SUBSET {"24h", "1h"}]

KeysTypeOK ==
  /\ apiKey \in [KeyIds -> KeyRows]
  /\ \A r \in Rolls : rolling[r].step \in {"none", "mint", "stamp"}
  /\ swept \in BOOLEAN /\ cutOff \in 0 .. MaxCutOff

(* A key that stops by itself was announced within its last hour, in       *)
(* whatever order rolls have shortened, extended or repeated its grace; an *)
(* announcement of a grace that was extended afterwards counts, since it   *)
(* is not repeated (FR-WRK-042).                                           *)
StopsAnnounced ==
  \A k \in KeyIds : apiKey[k].left = 0 /\ ~apiKey[k].revoked => "1h" \in apiKey[k].notices
=============================================================================
