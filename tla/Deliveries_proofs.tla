-------------------------- MODULE Deliveries_proofs --------------------------
(***************************************************************************)
(* Proofs about the webhook queue, for every set of deliveries and of      *)
(* slots, schedule, lock and attempt time and bound on resends and         *)
(* crashes.                                                                *)
(***************************************************************************)
EXTENDS Deliveries, TLAPS

(* Who holds a delivery: the lock has run down by no more than the time it *)
(* has been held, so nobody else can claim it; it was sent no longer ago   *)
(* than claimed, and an automatic attempt is the next one of a delivery    *)
(* that has not ended.                                                     *)
Holds ==
  \A s \in Busy :
    /\ delivery[job[s].id].lock # NULL
    /\ delivery[job[s].id].lock + job[s].held >= LockTime
    /\ job[s].sent <= job[s].held
    /\ ~job[s].manual => /\ delivery[job[s].id].status \in {"queued", "retrying"}
                         /\ job[s].n = delivery[job[s].id].attempt + 1

(* Only the last failure ends a delivery that had attempts left.           *)
TriesLeft ==
  \A d \in Ids : delivery[d].status \notin Final => delivery[d].attempt < MaxAttempts

Posting(s, d) == s \in Busy /\ job[s].id = d /\ job[s].phase = "posted" /\ ~job[s].manual

(* A POST is counted by the attempt it belongs to, being answered, or lost *)
(* to a crash.                                                             *)
PostsCounted ==
  /\ \A d \in Ids :
       /\ delivery[d].attempt <= posts[d]
       /\ posts[d] <= delivery[d].attempt + crashes + 1
       /\ posts[d] <= delivery[d].attempt + crashes \/ \E s \in Slots : Posting(s, d)
       /\ delivery[d].status = "exhausted" => delivery[d].attempt = MaxAttempts
  /\ \A s \in Slots, d \in Ids : Posting(s, d) => delivery[d].attempt + 1 <= posts[d]

(* A streak of failures is no older than the silence, but for an attempt.  *)
StreakInSilence ==
  endpoint.failing # NULL => \/ endpoint.failing <= quiet + AttemptTime
                             \/ quiet >= DisableAfter + AttemptTime

(* The inductive invariant.                                                *)
QueueInv ==
  /\ DeliveriesTypeOK /\ DOMAIN job = Slots
  /\ OneHolder /\ Holds /\ TriesLeft /\ PostsCounted /\ StreakInSilence

-----------------------------------------------------------------------------

(* An idle slot is told from a busy one by its phase.                      *)
LEMMA BusyJobs ==
  ASSUME NEW j \in Jobs
  PROVE  j # Idle
  BY DEF Jobs, Idle

LEMMA InitQueueInv == DeliveriesInit => QueueInv
  <1> SUFFICES ASSUME DeliveriesInit PROVE QueueInv
    OBVIOUS
  <1>1. Busy = {}
    BY DEF DeliveriesInit, Busy
  <1>2. DeliveriesTypeOK /\ DOMAIN job = Slots
    BY <1>1, DeliveriesAssumption DEF DeliveriesInit, DeliveriesTypeOK, DeliveryRows,
       Endpoints, NULL, Final
  <1>3. OneHolder /\ Holds
    BY <1>1 DEF OneHolder, Holds
  <1>4. TriesLeft /\ PostsCounted
    BY <1>1, DeliveriesAssumption DEF DeliveriesInit, TriesLeft, PostsCounted, Posting
  <1>5. StreakInSilence
    BY DEF DeliveriesInit, StreakInSilence
  <1>6. QED
    BY <1>2, <1>3, <1>4, <1>5 DEF QueueInv

(* A step that leaves the slots alone and of the rows changes only what    *)
(* says whether they are due keeps the invariant.                          *)
LEMMA RowsKeepQueueInv ==
  ASSUME QueueInv, DeliveriesTypeOK', UNCHANGED <<job, posts, crashes>>, StreakInSilence',
         \A d \in Ids : /\ delivery'[d].lock = delivery[d].lock
                        /\ delivery'[d].attempt = delivery[d].attempt
                        /\ \/ delivery'[d].status = delivery[d].status
                           \/ delivery[d].status = "none" /\ delivery'[d].status = "queued"
  PROVE  QueueInv'
  <1>1. Busy' = Busy /\ \A s \in Busy : job[s].id \in Ids
    BY DEF Busy, QueueInv, DeliveriesTypeOK, Jobs
  <1>2. (OneHolder /\ DOMAIN job = Slots)'
    BY <1>1 DEF QueueInv, OneHolder
  <1>3. Holds'
    BY <1>1 DEF QueueInv, Holds
  <1>4. TriesLeft'
    BY DEF QueueInv, TriesLeft, Final
  <1>5. PostsCounted'
    BY <1>1 DEF QueueInv, PostsCounted, Posting
  <1>6. QED
    BY <1>2, <1>3, <1>4, <1>5 DEF QueueInv

LEMMA CreateEventQueueInv ==
  ASSUME QueueInv, NEW d \in Ids, CreateEvent(d)
  PROVE  QueueInv'
  <1>1. DeliveriesTypeOK'
    <2>1. DeliveriesTypeOK
      BY DEF QueueInv
    <2>2. delivery' \in [Ids -> DeliveryRows]
      BY <2>1 DEF DeliveriesTypeOK, CreateEvent, DeliveryRows
    <2>3. QED
      BY <2>1, <2>2 DEF DeliveriesTypeOK, CreateEvent, Busy
  <1>2. StreakInSilence'
    BY DEF QueueInv, StreakInSilence, CreateEvent
  <1>3. QED
    BY <1>1, <1>2, RowsKeepQueueInv DEF QueueInv, DeliveriesTypeOK, CreateEvent

LEMMA RequestResendQueueInv ==
  ASSUME QueueInv, NEW d \in Ids, RequestResend(d)
  PROVE  QueueInv'
  <1>1. DeliveriesTypeOK'
    <2>1. DeliveriesTypeOK
      BY DEF QueueInv
    <2>2. delivery' \in [Ids -> DeliveryRows]
      BY <2>1 DEF DeliveriesTypeOK, RequestResend, DeliveryRows
    <2>3. resends' \in 0 .. MaxResends
      BY <2>1, DeliveriesAssumption DEF DeliveriesTypeOK, RequestResend
    <2>4. QED
      BY <2>1, <2>2, <2>3 DEF DeliveriesTypeOK, RequestResend, Busy
  <1>2. StreakInSilence'
    BY DEF QueueInv, StreakInSilence, RequestResend
  <1>3. QED
    BY <1>1, <1>2, RowsKeepQueueInv DEF QueueInv, DeliveriesTypeOK, RequestResend

LEMMA SwitchQueueInv ==
  ASSUME QueueInv, Disable \/ Enable
  PROVE  QueueInv'
  <1>1. DeliveriesTypeOK'
    <2>1. DeliveriesTypeOK
      BY DEF QueueInv
    <2>2. endpoint' \in Endpoints
      BY <2>1 DEF DeliveriesTypeOK, Disable, Enable, Endpoints
    <2>3. QED
      BY <2>1, <2>2 DEF DeliveriesTypeOK, Disable, Enable, Busy
  <1>2. StreakInSilence'
    BY DEF QueueInv, DeliveriesTypeOK, Endpoints, StreakInSilence, Disable, Enable
  <1>3. QED
    BY <1>1, <1>2, RowsKeepQueueInv DEF QueueInv, Disable, Enable

(* What is known of the delivery a slot holds.                             *)
LEMMA HeldRow ==
  ASSUME QueueInv, NEW s \in Busy
  PROVE  /\ s \in Slots /\ job[s] \in Jobs /\ job[s].id \in Ids
         /\ delivery[job[s].id] \in DeliveryRows
         /\ \A t \in Busy : t # s => job[t].id # job[s].id
         /\ ~job[s].manual => /\ job[s].n = delivery[job[s].id].attempt + 1
                              /\ job[s].n \in 1 .. MaxAttempts
                              /\ delivery[job[s].id].status \notin Final
  <1>1. s \in Slots /\ job[s] \in Jobs /\ job[s].id \in Ids
    BY DEF QueueInv, DeliveriesTypeOK, Busy, Jobs
  <1>2. delivery[job[s].id] \in DeliveryRows
    BY <1>1 DEF QueueInv, DeliveriesTypeOK
  <1>3. \A t \in Busy : t # s => job[t].id # job[s].id
    BY DEF QueueInv, OneHolder
  <1>4. ASSUME ~job[s].manual
        PROVE  /\ job[s].n = delivery[job[s].id].attempt + 1
               /\ job[s].n \in 1 .. MaxAttempts
               /\ delivery[job[s].id].status \notin Final
    <2>1. job[s].n = delivery[job[s].id].attempt + 1 /\ delivery[job[s].id].status \notin Final
      BY <1>4 DEF QueueInv, Holds, Final
    <2>2. delivery[job[s].id].attempt < MaxAttempts
      BY <1>1, <2>1 DEF QueueInv, TriesLeft
    <2>3. QED
      BY <1>2, <2>1, <2>2, DeliveriesAssumption DEF DeliveryRows
  <1>5. QED
    BY <1>1, <1>2, <1>3, <1>4

(* A slot that lets go of its delivery leaves the others as they were.     *)
LEMMA ReleaseKeepsHolders ==
  ASSUME QueueInv, NEW s \in Busy, job' = [job EXCEPT ![s] = Idle],
         \A d \in Ids : d # job[s].id => delivery'[d] = delivery[d]
  PROVE  /\ (DOMAIN job = Slots)' /\ Busy' = Busy \ {s}
         /\ \A t \in Busy' : job'[t] = job[t] /\ job[t].id \in Ids /\ job[t].id # job[s].id
         /\ (\A t \in Busy : job[t] \in Jobs)'
         /\ OneHolder' /\ Holds'
  <1>1. /\ DOMAIN job' = Slots /\ Busy' = Busy \ {s}
        /\ \A t \in Busy' : job'[t] = job[t]
    BY DEF QueueInv, Busy
  <1>2. \A t \in Busy' : job[t] \in Jobs /\ job[t].id \in Ids /\ job[t].id # job[s].id
    BY <1>1, HeldRow
  <1>3. OneHolder'
    BY <1>1 DEF QueueInv, OneHolder
  <1>4. Holds'
    BY <1>1, <1>2 DEF QueueInv, Holds
  <1>5. QED
    BY <1>1, <1>2, <1>3, <1>4

(* Nor does it disturb their POSTs, if its own is answered or lost.        *)
LEMMA ReleaseKeepsPosts ==
  ASSUME QueueInv, NEW s \in Busy, job' = [job EXCEPT ![s] = Idle],
         \A d \in Ids : d # job[s].id => delivery'[d] = delivery[d],
         UNCHANGED posts, crashes' \in {crashes, crashes + 1},
         delivery'[job[s].id].attempt <= posts[job[s].id],
         posts[job[s].id] <= delivery'[job[s].id].attempt + crashes',
         delivery'[job[s].id].attempt \in Nat,
         delivery'[job[s].id].status = "exhausted" => delivery'[job[s].id].attempt = MaxAttempts
  PROVE  PostsCounted'
  <1>1. /\ Busy' = Busy \ {s}
        /\ \A t \in Busy' : job'[t] = job[t] /\ job[t].id # job[s].id
    BY ReleaseKeepsHolders
  <1>2. \A t \in Slots, d \in Ids :
          /\ Posting(t, d)' => Posting(t, d) /\ d # job[s].id
          /\ Posting(t, d) /\ d # job[s].id => Posting(t, d)'
    BY <1>1 DEF Posting
  <1>3. /\ crashes \in Nat /\ crashes' \in Nat /\ crashes <= crashes'
        /\ posts \in [Ids -> Nat]
        /\ \A d \in Ids : delivery[d].attempt \in Nat
    BY DeliveriesAssumption DEF QueueInv, DeliveriesTypeOK, DeliveryRows
  <1>4. ASSUME NEW d \in Ids
        PROVE  /\ delivery'[d].attempt <= posts'[d]
               /\ posts'[d] <= delivery'[d].attempt + crashes' + 1
               /\ posts'[d] <= delivery'[d].attempt + crashes' \/ \E t \in Slots : Posting(t, d)'
               /\ delivery'[d].status = "exhausted" => delivery'[d].attempt = MaxAttempts
    <2>1. CASE d = job[s].id
      BY <1>3, <2>1
    <2>2. CASE d # job[s].id
      <3>1. delivery'[d] = delivery[d] /\ posts'[d] = posts[d]
        BY <2>2
      <3>2. /\ delivery[d].attempt <= posts[d]
            /\ posts[d] <= delivery[d].attempt + crashes + 1
            /\ posts[d] <= delivery[d].attempt + crashes \/ \E t \in Slots : Posting(t, d)
            /\ delivery[d].status = "exhausted" => delivery[d].attempt = MaxAttempts
        BY DEF QueueInv, PostsCounted
      <3>3. posts[d] <= delivery[d].attempt + crashes' \/ \E t \in Slots : Posting(t, d)'
        BY <1>2, <1>3, <2>2, <3>2
      <3>4. QED
        BY <1>3, <3>1, <3>2, <3>3
    <2>3. QED
      BY <2>1, <2>2
  <1>5. \A t \in Slots, d \in Ids : Posting(t, d)' => delivery'[d].attempt + 1 <= posts'[d]
    BY <1>2 DEF QueueInv, PostsCounted
  <1>6. QED
    BY <1>4, <1>5 DEF PostsCounted

(* The two together, for the steps that end an attempt.                    *)
LEMMA ReleaseQueueInv ==
  ASSUME QueueInv, NEW s \in Busy, job' = [job EXCEPT ![s] = Idle],
         \A d \in Ids : d # job[s].id => delivery'[d] = delivery[d],
         UNCHANGED <<posts, resent, resends>>, crashes' \in {crashes, crashes + 1},
         delivery'[job[s].id].attempt <= posts[job[s].id],
         posts[job[s].id] <= delivery'[job[s].id].attempt + crashes',
         delivery'[job[s].id].status = "exhausted" => delivery'[job[s].id].attempt = MaxAttempts,
         delivery'[job[s].id].status \notin Final => delivery'[job[s].id].attempt < MaxAttempts,
         delivery' \in [Ids -> DeliveryRows], endpoint' \in Endpoints, rows' \in [Ids -> Nat],
         quiet' \in Nat, crashes' \in 0 .. MaxCrashes, StreakInSilence'
  PROVE  QueueInv'
  <1>1. delivery'[job[s].id].attempt \in Nat
    BY HeldRow DEF DeliveryRows
  <1>2. PostsCounted'
    BY <1>1, ReleaseKeepsPosts
  <1>3. /\ (DOMAIN job = Slots)' /\ OneHolder' /\ Holds'
        /\ (\A t \in Busy : job[t] \in Jobs)'
    BY ReleaseKeepsHolders
  <1>4. DeliveriesTypeOK'
    BY <1>3 DEF QueueInv, DeliveriesTypeOK
  <1>5. TriesLeft'
    BY DEF QueueInv, TriesLeft
  <1>6. QED
    BY <1>2, <1>3, <1>4, <1>5 DEF QueueInv

(* The POSTs of a delivery whose holder has none out.                      *)
LEMMA NonePosting ==
  ASSUME QueueInv, NEW s \in Busy, job[s].manual \/ job[s].phase = "claimed"
  PROVE  /\ delivery[job[s].id].attempt <= posts[job[s].id]
         /\ posts[job[s].id] <= delivery[job[s].id].attempt + crashes
  <1>1. \A t \in Slots : ~Posting(t, job[s].id)
    BY HeldRow DEF Posting
  <1>2. QED
    BY <1>1, HeldRow DEF QueueInv, PostsCounted

LEMMA SkipQueueInv ==
  ASSUME QueueInv, NEW s \in Slots, Skip(s)
  PROVE  QueueInv'
  <1> DEFINE d == job[s].id
  <1>1. s \in Busy /\ job[s].phase = "claimed"
    BY DEF Skip, Busy, Idle
  <1>2. d \in Ids /\ delivery[d] \in DeliveryRows /\ job[s] \in Jobs
    BY <1>1, HeldRow
  <1>3. /\ delivery' = [delivery EXCEPT ![d] = [@ EXCEPT !.status = "skipped", !.lock = NULL]]
        /\ job' = [job EXCEPT ![s] = Idle]
        /\ rows' = [rows EXCEPT ![d] = @ + LogReclaimed(job[s])]
        /\ UNCHANGED <<endpoint, posts, resent, quiet, resends, crashes>>
    BY <1>2 DEF Skip, QueueInv, DeliveriesTypeOK
  <1>4. /\ delivery'[d] = [delivery[d] EXCEPT !.status = "skipped", !.lock = NULL]
        /\ \A e \in Ids : e # d => delivery'[e] = delivery[e]
    BY <1>2, <1>3 DEF QueueInv, DeliveriesTypeOK
  <1>5. /\ delivery'[d] \in DeliveryRows /\ delivery'[d].status = "skipped"
        /\ delivery'[d].attempt = delivery[d].attempt
    BY <1>2, <1>4 DEF DeliveryRows, Final, NULL
  <1>6. delivery' \in [Ids -> DeliveryRows] /\ rows' \in [Ids -> Nat]
    BY <1>2, <1>3, <1>4, <1>5 DEF QueueInv, DeliveriesTypeOK, LogReclaimed
  <1>7. StreakInSilence'
    BY <1>3 DEF QueueInv, StreakInSilence
  <1>8. QED
    BY <1>1, <1>3, <1>4, <1>5, <1>6, <1>7, NonePosting, ReleaseQueueInv
       DEF QueueInv, DeliveriesTypeOK, Final

LEMMA FinishResendQueueInv ==
  ASSUME QueueInv, NEW s \in Slots, FinishResend(s)
  PROVE  QueueInv'
  <1> DEFINE d == job[s].id
  <1>1. s \in Busy /\ job[s].manual
    BY DEF FinishResend, Busy, Idle
  <1>2. d \in Ids /\ delivery[d] \in DeliveryRows /\ job[s] \in Jobs
    BY <1>1, HeldRow
  <1>3. /\ delivery' = [delivery EXCEPT ![d] = [@ EXCEPT !.lock = NULL]]
        /\ job' = [job EXCEPT ![s] = Idle]
        /\ rows' = [rows EXCEPT ![d] = @ + 1]
        /\ UNCHANGED <<endpoint, posts, resent, quiet, resends, crashes>>
    BY <1>2 DEF FinishResend, QueueInv, DeliveriesTypeOK
  <1>4. /\ delivery'[d] = [delivery[d] EXCEPT !.lock = NULL]
        /\ \A e \in Ids : e # d => delivery'[e] = delivery[e]
    BY <1>2, <1>3 DEF QueueInv, DeliveriesTypeOK
  <1>5. /\ delivery'[d] \in DeliveryRows /\ delivery'[d].status = delivery[d].status
        /\ delivery'[d].attempt = delivery[d].attempt
    BY <1>2, <1>4 DEF DeliveryRows, NULL
  <1>6. delivery' \in [Ids -> DeliveryRows] /\ rows' \in [Ids -> Nat]
    BY <1>2, <1>3, <1>4, <1>5 DEF QueueInv, DeliveriesTypeOK
  <1>7. StreakInSilence'
    BY <1>3 DEF QueueInv, StreakInSilence
  <1>8. /\ delivery[d].status = "exhausted" => delivery[d].attempt = MaxAttempts
        /\ delivery[d].status \notin Final => delivery[d].attempt < MaxAttempts
    BY <1>2 DEF QueueInv, PostsCounted, TriesLeft
  <1>9. QED
    BY <1>1, <1>3, <1>4, <1>5, <1>6, <1>7, <1>8, NonePosting, ReleaseQueueInv
       DEF QueueInv, DeliveriesTypeOK

LEMMA CrashQueueInv ==
  ASSUME QueueInv, NEW s \in Slots, Crash(s)
  PROVE  QueueInv'
  <1> DEFINE d == job[s].id
  <1>1. s \in Busy /\ d \in Ids /\ delivery[d] \in DeliveryRows
    BY HeldRow DEF Crash
  <1>2. /\ crashes \in Nat /\ crashes' = crashes + 1 /\ crashes' \in 0 .. MaxCrashes
        /\ posts \in [Ids -> Nat] /\ delivery[d].attempt \in Nat
    BY <1>1, DeliveriesAssumption DEF Crash, QueueInv, DeliveriesTypeOK, DeliveryRows
  <1>3. /\ delivery[d].attempt <= posts[d]
        /\ posts[d] <= delivery[d].attempt + crashes'
        /\ delivery[d].status = "exhausted" => delivery[d].attempt = MaxAttempts
        /\ delivery[d].status \notin Final => delivery[d].attempt < MaxAttempts
    BY <1>1, <1>2 DEF QueueInv, PostsCounted, TriesLeft
  <1>4. StreakInSilence'
    BY DEF QueueInv, StreakInSilence, Crash
  <1>5. QED
    BY <1>1, <1>2, <1>3, <1>4, ReleaseQueueInv DEF Crash, QueueInv, DeliveriesTypeOK

(* What an automatic attempt that ends makes of the endpoint.              *)
LEMMA StreakKept ==
  ASSUME QueueInv, NEW s \in Busy, NEW ok \in BOOLEAN, job[s].ok = ok,
         endpoint' = IF ok THEN AfterSuccess(endpoint) ELSE AfterFailure(endpoint, job[s]),
         quiet' = IF ok THEN 0 ELSE quiet
  PROVE  /\ endpoint' \in Endpoints /\ quiet' \in Nat /\ StreakInSilence'
         /\ ~endpoint.auto /\ endpoint'.auto => quiet + AttemptTime >= DisableAfter
  <1>1. /\ endpoint \in Endpoints /\ quiet \in Nat /\ job[s] \in Jobs
    BY HeldRow DEF QueueInv, DeliveriesTypeOK
  <1>2. CASE ok
    BY <1>1, <1>2 DEF AfterSuccess, Endpoints, StreakInSilence
  <1>3. CASE ~ok
    <2> DEFINE j == job[s]
               since == IF endpoint.failing = NULL THEN j.sent ELSE endpoint.failing
               lastOne == IF Outcome(j) = "exhausted" THEN 1 ELSE 0
               failures == endpoint.failures + lastOne
               counted == [endpoint EXCEPT !.failing = since, !.failures = failures]
    <2>1. /\ since \in Nat /\ j.sent \in Nat /\ j.sent <= AttemptTime
          /\ since <= quiet + AttemptTime \/ quiet >= DisableAfter + AttemptTime
      BY <1>1, DeliveriesAssumption DEF Jobs, Endpoints, QueueInv, StreakInSilence
    <2>2. counted \in Endpoints /\ counted.failing = since /\ counted.auto = endpoint.auto
      <3>1. lastOne \in Nat /\ failures \in Nat
        BY <1>1 DEF Endpoints
      <3> HIDE DEF since, failures
      <3>2. QED
        BY <1>1, <2>1, <3>1 DEF Endpoints
    <2> HIDE DEF counted
    <2>3. endpoint' = IF endpoint.disabled THEN counted
                      ELSE IF since - j.sent >= DisableAfter
                           THEN [counted EXCEPT !.disabled = TRUE, !.auto = TRUE]
                      ELSE IF since - j.sent >= WarnAfter THEN [counted EXCEPT !.warned = TRUE]
                      ELSE counted
      BY <1>3 DEF AfterFailure, counted
    <2>4. endpoint' \in Endpoints /\ endpoint'.failing = since
      BY <2>2, <2>3 DEF Endpoints
    <2>5. ~endpoint.auto /\ endpoint'.auto => since - j.sent >= DisableAfter
      BY <2>2, <2>3 DEF Endpoints
    <2>6. QED
      BY <1>1, <1>3, <2>1, <2>4, <2>5, DeliveriesAssumption DEF StreakInSilence
  <1>4. QED
    BY <1>2, <1>3

LEMMA FinishAutomaticQueueInv ==
  ASSUME QueueInv, NEW s \in Slots, FinishAutomatic(s)
  PROVE  QueueInv'
  <1> DEFINE d == job[s].id
             j == job[s]
  <1>1. s \in Busy /\ ~j.manual /\ Posting(s, d)
    BY DEF FinishAutomatic, Busy, Idle, Posting
  <1>2. /\ d \in Ids /\ delivery[d] \in DeliveryRows /\ j \in Jobs
        /\ j.n = delivery[d].attempt + 1 /\ j.n \in 1 .. MaxAttempts
    BY <1>1, HeldRow
  <1>3. /\ delivery' = [delivery EXCEPT ![d] = [@ EXCEPT !.status = Outcome(j),
             !.attempt = j.n, !.lock = NULL, !.nextIn = NextIn(j, delivery[d].nextIn)]]
        /\ job' = [job EXCEPT ![s] = Idle]
        /\ rows' = [rows EXCEPT ![d] = @ + 1]
        /\ UNCHANGED <<posts, resent, resends, crashes>>
    BY <1>2 DEF FinishAutomatic, QueueInv, DeliveriesTypeOK, DeliveryRows
  <1>4. /\ delivery'[d] = [delivery[d] EXCEPT !.status = Outcome(j), !.attempt = j.n,
                             !.lock = NULL, !.nextIn = NextIn(j, delivery[d].nextIn)]
        /\ \A e \in Ids : e # d => delivery'[e] = delivery[e]
    BY <1>2, <1>3 DEF QueueInv, DeliveriesTypeOK
  <1>5. /\ Outcome(j) \in {"succeeded", "exhausted", "retrying"}
        /\ Outcome(j) = "exhausted" => j.n = MaxAttempts
        /\ Outcome(j) = "retrying" => j.n < MaxAttempts
    BY <1>2, DeliveriesAssumption DEF Outcome
  <1>6. NextIn(j, delivery[d].nextIn) \in Nat
    <2>1. delivery[d].nextIn \in Nat /\ j.sent \in Nat
      BY <1>2 DEF DeliveryRows, Jobs
    <2>2. RetryDelay(j.n) \in Nat
      BY <1>2, DeliveriesAssumption
    <2>3. QED
      BY <2>1, <2>2 DEF NextIn
  <1>7. /\ delivery'[d] \in DeliveryRows /\ delivery'[d].status = Outcome(j)
        /\ delivery'[d].attempt = j.n
    <2> DEFINE status == Outcome(j)
               next == NextIn(j, delivery[d].nextIn)
               n == j.n
    <2>1. /\ status \in {"none", "queued", "retrying"} \cup Final
          /\ next \in Nat /\ n \in 0 .. MaxAttempts
      BY <1>2, <1>5, <1>6, DeliveriesAssumption DEF Final
    <2>2. delivery'[d] = [delivery[d] EXCEPT !.status = status, !.attempt = n,
                                             !.lock = NULL, !.nextIn = next]
      BY <1>4
    <2> HIDE DEF status, next, n
    <2>3. /\ delivery'[d] \in DeliveryRows
          /\ delivery'[d].status = status /\ delivery'[d].attempt = n
      BY <1>2, <2>1, <2>2 DEF DeliveryRows
    <2>4. QED
      BY <2>3 DEF status, n
  <1>8. delivery' \in [Ids -> DeliveryRows] /\ rows' \in [Ids -> Nat]
    BY <1>2, <1>3, <1>4, <1>7 DEF QueueInv, DeliveriesTypeOK
  <1>9. endpoint' \in Endpoints /\ quiet' \in Nat /\ StreakInSilence'
    BY <1>1, <1>2, StreakKept DEF FinishAutomatic, Jobs
  <1>10. j.n <= posts[d] /\ posts[d] <= j.n + crashes
    BY <1>1, <1>2 DEF QueueInv, PostsCounted, DeliveriesTypeOK, DeliveryRows
  <1>11. delivery'[d].status \notin Final => delivery'[d].attempt < MaxAttempts
    BY <1>5, <1>7 DEF Final
  <1>12. QED
    BY <1>1, <1>3, <1>4, <1>5, <1>7, <1>8, <1>9, <1>10, <1>11, ReleaseQueueInv
       DEF QueueInv, DeliveriesTypeOK

(* An age stays one, and grows by one at most.                             *)
LEMMA OlderAge ==
  ASSUME NEW age \in {NULL} \cup Nat
  PROVE  /\ Older(age) \in {NULL} \cup Nat /\ (Older(age) = NULL <=> age = NULL)
         /\ age # NULL => /\ Older(age) \in Nat /\ Older(age) <= age + 1
                          /\ Older(age) = age => age >= DisableAfter + AttemptTime
                          /\ Older(age) # age => Older(age) = age + 1
  <1>1. CASE age = NULL
    BY <1>1 DEF Older
  <1>2. CASE age \in Nat
    BY <1>2, DeliveriesAssumption DEF Older, NULL
  <1>3. QED
    BY <1>1, <1>2

(* Nobody is on a delivery that is due: its lock would still run.          *)
LEMMA DueIsFree ==
  ASSUME QueueInv, NEW d \in Ids, Due(d), NEW s \in Busy
  PROVE  job[s].id # d
  <1> SUFFICES ASSUME job[s].id = d PROVE FALSE
    OBVIOUS
  <1>1. job[s].held \in 0 .. AttemptTime /\ delivery[d] \in DeliveryRows
    BY HeldRow DEF Jobs
  <1>2. delivery[d].lock # NULL /\ delivery[d].lock + job[s].held >= LockTime
    BY DEF QueueInv, Holds
  <1>3. delivery[d].lock = 0
    BY <1>2 DEF Due
  <1>4. QED
    BY <1>1, <1>2, <1>3, DeliveriesAssumption

LEMMA ClaimQueueInv ==
  ASSUME QueueInv, NEW s \in Slots, NEW d \in Ids, Claim(s, d)
  PROVE  QueueInv'
  <1> DEFINE manual == delivery[d].resend
             n == delivery[d].attempt + 1
             reclaimed == delivery[d].lock # NULL
             j == [phase |-> "claimed", id |-> d, n |-> n, manual |-> manual,
                   reclaimed |-> reclaimed, off |-> endpoint.disabled,
                   held |-> 0, sent |-> 0, ok |-> FALSE]
  <1>1. /\ s \notin Busy /\ Due(d)
        /\ job' = [job EXCEPT ![s] = j]
        /\ delivery' = [delivery EXCEPT ![d] = [@ EXCEPT !.lock = LockTime, !.resend = FALSE]]
        /\ UNCHANGED <<endpoint, posts, resent, rows, quiet, resends, crashes>>
    BY DEF Claim, NextAttempt, QueueInv, DeliveriesTypeOK
  <1>2. delivery[d] \in DeliveryRows /\ endpoint \in Endpoints
    BY DEF QueueInv, DeliveriesTypeOK
  <1>3. j \in Jobs
    <2>1. n \in 1 .. MaxAttempts + 1 /\ manual \in BOOLEAN /\ reclaimed \in BOOLEAN
      BY <1>2, DeliveriesAssumption DEF DeliveryRows
    <2>2. endpoint.disabled \in BOOLEAN /\ 0 \in 0 .. AttemptTime
      BY <1>2, DeliveriesAssumption DEF Endpoints
    <2> HIDE DEF n, manual, reclaimed
    <2>3. QED
      BY <2>1, <2>2 DEF Jobs
  <1>4. /\ j.id = d /\ j.held = 0 /\ j.sent = 0 /\ j.phase = "claimed"
        /\ j.manual = manual /\ j.n = n /\ j # Idle
    BY <1>3, BusyJobs
  <1> HIDE DEF j
  <1>5. /\ DOMAIN job' = Slots /\ Busy' = Busy \cup {s} /\ job'[s] = j
        /\ \A t \in Busy : job'[t] = job[t] /\ job[t].id # d /\ job[t].id \in Ids /\ t # s
    BY <1>1, <1>4, DueIsFree, HeldRow DEF QueueInv, Busy
  <1>6. /\ delivery'[d] = [delivery[d] EXCEPT !.lock = LockTime, !.resend = FALSE]
        /\ \A e \in Ids : e # d => delivery'[e] = delivery[e]
    BY <1>1 DEF QueueInv, DeliveriesTypeOK
  <1>7. /\ delivery'[d] \in DeliveryRows /\ delivery'[d].lock = LockTime
        /\ delivery'[d].status = delivery[d].status
        /\ delivery'[d].attempt = delivery[d].attempt
    <2>1. LockTime \in 0 .. LockTime
      BY DeliveriesAssumption
    <2>2. QED
      BY <1>2, <1>6, <2>1 DEF DeliveryRows
  <1>8. DeliveriesTypeOK'
    <2>1. delivery' \in [Ids -> DeliveryRows]
      BY <1>1, <1>7 DEF QueueInv, DeliveriesTypeOK
    <2>2. \A t \in Busy' : job'[t] \in Jobs
      BY <1>3, <1>5 DEF QueueInv, DeliveriesTypeOK
    <2>3. QED
      BY <1>1, <2>1, <2>2 DEF QueueInv, DeliveriesTypeOK
  <1>9. OneHolder'
    BY <1>4, <1>5 DEF QueueInv, OneHolder
  <1>10. Holds'
    <2>1. ASSUME NEW t \in Busy
          PROVE  delivery'[job'[t].id] = delivery[job[t].id] /\ job'[t] = job[t]
      BY <1>5, <1>6
    <2>2. LockTime # NULL /\ LockTime + 0 >= LockTime
      BY DeliveriesAssumption DEF NULL
    <2>3. ~manual => delivery[d].status \in {"queued", "retrying"}
      BY <1>1 DEF Due, Waiting
    <2>4. /\ delivery'[job'[s].id].lock # NULL
          /\ delivery'[job'[s].id].lock + job'[s].held >= LockTime
          /\ job'[s].sent <= job'[s].held
          /\ ~job'[s].manual => /\ delivery'[job'[s].id].status \in {"queued", "retrying"}
                                /\ job'[s].n = delivery'[job'[s].id].attempt + 1
      BY <1>4, <1>5, <1>7, <2>2, <2>3
    <2>5. QED
      BY <1>5, <2>1, <2>4 DEF QueueInv, Holds
  <1>11. TriesLeft'
    BY <1>6, <1>7 DEF QueueInv, TriesLeft
  <1>12. PostsCounted'
    <2>1. \A t \in Slots, e \in Ids : Posting(t, e)' <=> Posting(t, e)
      BY <1>1, <1>4, <1>5 DEF Posting
    <2>2. \A e \in Ids : /\ delivery'[e].attempt = delivery[e].attempt
                         /\ delivery'[e].status = delivery[e].status
      BY <1>6, <1>7
    <2>3. QED
      BY <1>1, <2>1, <2>2 DEF QueueInv, PostsCounted
  <1>13. StreakInSilence'
    BY <1>1 DEF QueueInv, StreakInSilence
  <1>14. QED
    BY <1>5, <1>8, <1>9, <1>10, <1>11, <1>12, <1>13 DEF QueueInv

LEMMA SendQueueInv ==
  ASSUME QueueInv, NEW s \in Slots, NEW ok \in BOOLEAN, Send(s, ok)
  PROVE  QueueInv'
  <1> DEFINE j == [job[s] EXCEPT !.phase = "posted", !.ok = ok]
  <1>1. s \in Busy /\ job[s].phase = "claimed"
    BY DEF Send, Busy, Idle
  <1> PICK d \in Ids : d = job[s].id
    BY <1>1, HeldRow
  <1>2. /\ d \in Ids /\ job[s] \in Jobs
        /\ \A t \in Busy : t # s => job[t].id # d
    BY <1>1, HeldRow
  <1>3. /\ job' = [job EXCEPT ![s] = j]
        /\ posts' = [posts EXCEPT ![d] = @ + (IF job[s].manual THEN 0 ELSE 1)]
        /\ resent' = [resent EXCEPT ![d] = @ + (IF job[s].manual THEN 1 ELSE 0)]
        /\ rows' = [rows EXCEPT ![d] = @ + LogReclaimed(job[s])]
        /\ UNCHANGED <<delivery, endpoint, quiet, resends, crashes>>
    BY DEF Send, QueueInv
  <1>4. /\ j \in Jobs /\ j # Idle /\ j.id = d /\ j.n = job[s].n
        /\ j.held = job[s].held /\ j.sent = job[s].sent
        /\ j.manual = job[s].manual /\ j.phase = "posted"
    BY <1>2, BusyJobs DEF Jobs
  <1> HIDE DEF j
  <1>5. /\ DOMAIN job' = Slots /\ Busy' = Busy /\ job'[s] = j
        /\ \A t \in Busy : t # s => job'[t] = job[t]
    BY <1>1, <1>3, <1>4 DEF QueueInv, Busy
  <1>6. DeliveriesTypeOK'
    <2>1. posts' \in [Ids -> Nat] /\ resent' \in [Ids -> Nat] /\ rows' \in [Ids -> Nat]
      BY <1>2, <1>3 DEF QueueInv, DeliveriesTypeOK, LogReclaimed
    <2>2. \A t \in Busy' : job'[t] \in Jobs
      BY <1>4, <1>5 DEF QueueInv, DeliveriesTypeOK
    <2>3. QED
      BY <1>3, <2>1, <2>2 DEF QueueInv, DeliveriesTypeOK
  <1>7. OneHolder' /\ Holds' /\ TriesLeft' /\ StreakInSilence'
    BY <1>3, <1>4, <1>5 DEF QueueInv, OneHolder, Holds, TriesLeft, StreakInSilence
  <1>8. PostsCounted'
    <2>1. /\ delivery[d].attempt <= posts[d] /\ posts[d] <= delivery[d].attempt + crashes
          /\ delivery[d].attempt \in Nat /\ posts[d] \in Nat /\ crashes \in Nat
          /\ posts'[d] = posts[d] + (IF job[s].manual THEN 0 ELSE 1)
      BY <1>1, <1>2, <1>3, NonePosting, HeldRow, DeliveriesAssumption
         DEF QueueInv, DeliveriesTypeOK, DeliveryRows
    <2>2. /\ Posting(s, d)' <=> ~job[s].manual
          /\ \A t \in Slots : t # s => ~Posting(t, d)'
      BY <1>1, <1>2, <1>4, <1>5 DEF Posting
    <2>3. \A t \in Slots, e \in Ids : e # d => (Posting(t, e)' <=> Posting(t, e))
      BY <1>4, <1>5 DEF Posting
    <2>4. \A e \in Ids : e # d => posts'[e] = posts[e]
      BY <1>3 DEF QueueInv, DeliveriesTypeOK
    <2>5. ASSUME NEW e \in Ids
          PROVE  /\ delivery'[e].attempt <= posts'[e]
                 /\ posts'[e] <= delivery'[e].attempt + crashes' + 1
                 /\ \/ posts'[e] <= delivery'[e].attempt + crashes'
                    \/ \E t \in Slots : Posting(t, e)'
                 /\ delivery'[e].status = "exhausted" => delivery'[e].attempt = MaxAttempts
      <3>1. CASE e = d
        BY <1>3, <2>1, <2>2, <3>1 DEF QueueInv, PostsCounted
      <3>2. CASE e # d
        <4>1. /\ delivery[e].attempt <= posts[e]
              /\ posts[e] <= delivery[e].attempt + crashes + 1
              /\ posts[e] <= delivery[e].attempt + crashes \/ \E t \in Slots : Posting(t, e)
              /\ delivery[e].status = "exhausted" => delivery[e].attempt = MaxAttempts
          BY DEF QueueInv, PostsCounted
        <4>2. posts'[e] = posts[e] /\ delivery' = delivery /\ crashes' = crashes
          BY <1>3, <2>4, <3>2
        <4>3. (\E t \in Slots : Posting(t, e)) => \E t \in Slots : Posting(t, e)'
          BY <2>3, <3>2
        <4>4. QED
          BY <4>1, <4>2, <4>3
      <3>3. QED
        BY <3>1, <3>2
    <2>6. ASSUME NEW t \in Slots, NEW e \in Ids, Posting(t, e)'
          PROVE  delivery'[e].attempt + 1 <= posts'[e]
      <3>1. CASE e = d
        BY <1>3, <2>1, <2>2, <2>6, <3>1
      <3>2. CASE e # d
        <4>1. Posting(t, e)
          BY <2>3, <2>6, <3>2
        <4>2. delivery[e].attempt + 1 <= posts[e]
          BY <4>1 DEF QueueInv, PostsCounted
        <4>3. QED
          BY <1>3, <2>4, <3>2, <4>2
      <3>3. QED
        BY <3>1, <3>2
    <2>7. QED
      BY <2>5, <2>6 DEF PostsCounted
  <1>9. QED
    BY <1>5, <1>6, <1>7, <1>8 DEF QueueInv

LEMMA TickQueueInv ==
  ASSUME QueueInv, Tick
  PROVE  QueueInv'
  <1>1. /\ \A s \in Busy : job[s].held < AttemptTime
        /\ delivery' = [d \in Ids |-> [delivery[d] EXCEPT !.nextIn = Less(@), !.lock = Less(@)]]
        /\ endpoint' = [endpoint EXCEPT !.failing = Older(@)] /\ quiet' = Older(quiet)
        /\ UNCHANGED <<posts, resent, rows, resends, crashes>>
    BY DEF Tick
  <1>2. ASSUME NEW d \in Ids
        PROVE  /\ delivery'[d] \in DeliveryRows
               /\ delivery'[d].status = delivery[d].status
               /\ delivery'[d].attempt = delivery[d].attempt
               /\ delivery'[d].lock = Less(delivery[d].lock)
    <2> DEFINE lock == Less(delivery[d].lock)
               next == Less(delivery[d].nextIn)
    <2>1. delivery[d] \in DeliveryRows
      BY DEF QueueInv, DeliveriesTypeOK
    <2>2. lock \in {NULL} \cup 0 .. LockTime /\ next \in Nat
      BY <2>1, DeliveriesAssumption DEF Less, DeliveryRows, NULL
    <2>3. delivery'[d] = [delivery[d] EXCEPT !.nextIn = next, !.lock = lock]
      BY <1>1
    <2> HIDE DEF lock, next
    <2>4. /\ delivery'[d] \in DeliveryRows /\ delivery'[d].lock = lock
          /\ delivery'[d].status = delivery[d].status
          /\ delivery'[d].attempt = delivery[d].attempt
      BY <2>1, <2>2, <2>3 DEF DeliveryRows
    <2>5. QED
      BY <2>4 DEF lock
  <1>3. ASSUME NEW s \in Busy
        PROVE  /\ job'[s] \in Jobs /\ job'[s] # Idle
               /\ job'[s].id = job[s].id /\ job'[s].n = job[s].n
               /\ job'[s].manual = job[s].manual /\ job'[s].phase = job[s].phase
               /\ job'[s].held = job[s].held + 1 /\ job'[s].sent <= job'[s].held
    <2> DEFINE held == job[s].held + 1
               sent == IF job[s].phase = "posted" THEN job[s].sent + 1 ELSE job[s].sent
    <2>1. job[s] \in Jobs /\ job[s].held < AttemptTime /\ job[s].sent <= job[s].held
      BY <1>1, HeldRow DEF QueueInv, Holds
    <2>2. held \in 0 .. AttemptTime /\ sent \in 0 .. AttemptTime /\ sent <= held
      BY <2>1, DeliveriesAssumption DEF Jobs
    <2>3. job'[s] = [job[s] EXCEPT !.held = held, !.sent = sent]
      BY HeldRow DEF Tick
    <2> HIDE DEF held, sent
    <2>4. /\ job'[s] \in Jobs
          /\ job'[s].id = job[s].id /\ job'[s].n = job[s].n
          /\ job'[s].manual = job[s].manual /\ job'[s].phase = job[s].phase
          /\ job'[s].held = held /\ job'[s].sent = sent
      BY <2>1, <2>2, <2>3 DEF Jobs
    <2>5. QED
      BY <2>2, <2>4, BusyJobs DEF held
  <1>4. DOMAIN job' = Slots /\ Busy' = Busy
    <2>1. DOMAIN job' = Slots /\ \A s \in Slots \ Busy : job'[s] = Idle
      BY DEF Tick
    <2>2. QED
      BY <1>3, <2>1 DEF Busy
  <1>5. /\ endpoint' \in Endpoints /\ quiet' \in Nat
        /\ StreakInSilence'
    <2> DEFINE failing == Older(endpoint.failing)
    <2>1. endpoint \in Endpoints /\ quiet \in Nat
      BY DEF QueueInv, DeliveriesTypeOK
    <2>2. /\ endpoint.failing \in {NULL} \cup Nat /\ failing \in {NULL} \cup Nat
          /\ quiet \in {NULL} \cup Nat /\ quiet # NULL /\ quiet' \in Nat
      <3>1. endpoint.failing \in {NULL} \cup Nat
        BY <2>1 DEF Endpoints
      <3>2. quiet \in {NULL} \cup Nat /\ quiet # NULL
        BY <2>1 DEF NULL
      <3>3. failing \in {NULL} \cup Nat
        BY <3>1, OlderAge
      <3>4. quiet' \in Nat
        BY <1>1, <3>2, OlderAge
      <3>5. QED
        BY <3>1, <3>2, <3>3, <3>4
    <2>3. failing # NULL => \/ failing <= quiet' + AttemptTime
                            \/ quiet' >= DisableAfter + AttemptTime
      <3>1. SUFFICES ASSUME failing # NULL
                     PROVE  \/ failing <= quiet' + AttemptTime
                            \/ quiet' >= DisableAfter + AttemptTime
        OBVIOUS
      <3>2. /\ endpoint.failing \in Nat /\ AttemptTime \in Nat /\ DisableAfter \in Nat
            /\ \/ endpoint.failing <= quiet + AttemptTime
               \/ quiet >= DisableAfter + AttemptTime
        BY <2>2, <3>1, OlderAge, DeliveriesAssumption DEF QueueInv, StreakInSilence
      <3>3. /\ failing \in Nat /\ failing <= endpoint.failing + 1
            /\ quiet' = quiet => quiet >= DisableAfter + AttemptTime
            /\ quiet' # quiet => quiet' = quiet + 1
        BY <1>1, <2>2, <3>1, OlderAge
      <3> HIDE DEF failing
      <3>4. CASE quiet' = quiet
        BY <2>1, <3>2, <3>3, <3>4
      <3>5. CASE quiet' # quiet
        BY <2>1, <3>2, <3>3, <3>5
      <3>6. QED
        BY <3>4, <3>5
    <2>4. endpoint' = [endpoint EXCEPT !.failing = failing]
      BY <1>1
    <2> HIDE DEF failing
    <2>5. endpoint' \in Endpoints /\ endpoint'.failing = failing
      BY <2>1, <2>2, <2>4 DEF Endpoints
    <2>6. QED
      BY <2>2, <2>3, <2>5 DEF StreakInSilence
  <1>6. DeliveriesTypeOK'
    <2>1. delivery' \in [Ids -> DeliveryRows]
      BY <1>1, <1>2
    <2>2. QED
      BY <1>1, <1>3, <1>4, <1>5, <2>1 DEF QueueInv, DeliveriesTypeOK
  <1>7. OneHolder'
    BY <1>3, <1>4 DEF QueueInv, OneHolder
  <1>8. Holds'
    <2>1. ASSUME NEW s \in Busy
          PROVE  /\ delivery'[job[s].id].lock # NULL
                 /\ delivery'[job[s].id].lock + job'[s].held >= LockTime
      <3>1. /\ delivery[job[s].id].lock # NULL
            /\ delivery[job[s].id].lock + job[s].held >= LockTime
            /\ delivery[job[s].id] \in DeliveryRows /\ job[s] \in Jobs
            /\ delivery'[job[s].id].lock = Less(delivery[job[s].id].lock)
            /\ job'[s].held = job[s].held + 1 /\ job[s].held < AttemptTime
        BY <1>1, <1>2, <1>3, HeldRow DEF QueueInv, Holds
      <3>2. QED
        BY <3>1, DeliveriesAssumption DEF Less, DeliveryRows, Jobs, NULL
    <2>2. QED
      BY <1>2, <1>3, <1>4, <2>1, HeldRow DEF QueueInv, Holds
  <1>9. TriesLeft'
    BY <1>2 DEF QueueInv, TriesLeft
  <1>10. PostsCounted'
    <2>1. \A s \in Slots, d \in Ids : Posting(s, d)' <=> Posting(s, d)
      BY <1>3, <1>4 DEF Posting
    <2>2. QED
      BY <1>1, <1>2, <2>1 DEF QueueInv, PostsCounted
  <1>11. QED
    BY <1>4, <1>5, <1>6, <1>7, <1>8, <1>9, <1>10 DEF QueueInv

LEMMA NextQueueInv == QueueInv /\ [DeliveriesNext]_queueVars => QueueInv'
  <1> SUFFICES ASSUME QueueInv, [DeliveriesNext]_queueVars
               PROVE  QueueInv'
    OBVIOUS
  <1>1. CASE UNCHANGED queueVars
    BY <1>1, RowsKeepQueueInv
       DEF queueVars, QueueInv, DeliveriesTypeOK, Busy, StreakInSilence
  <1>2. CASE \E d \in Ids : CreateEvent(d) \/ RequestResend(d)
    BY <1>2, CreateEventQueueInv, RequestResendQueueInv
  <1>3. CASE Disable \/ Enable
    BY <1>3, SwitchQueueInv
  <1>4. CASE \E s \in Slots, d \in Ids : Claim(s, d)
    BY <1>4, ClaimQueueInv
  <1>5. CASE \E s \in Slots : Work(s) \/ Crash(s)
    BY <1>5, SkipQueueInv, SendQueueInv, FinishAutomaticQueueInv, FinishResendQueueInv,
       CrashQueueInv DEF Work
  <1>6. CASE Tick
    BY <1>6, TickQueueInv
  <1>7. QED
    BY <1>1, <1>2, <1>3, <1>4, <1>5, <1>6 DEF DeliveriesNext

(* No step touches the status of a delivery that has ended, nor sends one *)
(* of its automatic POSTs.                                                 *)
LEMMA FinalKept ==
  ASSUME QueueInv, DeliveriesNext, NEW d \in Ids, delivery[d].status \in Final
  PROVE  delivery'[d].status = delivery[d].status /\ posts'[d] = posts[d]
  <1>1. delivery \in [Ids -> DeliveryRows] /\ posts \in [Ids -> Nat]
    BY DEF QueueInv, DeliveriesTypeOK
  <1>2. ASSUME NEW e \in Ids, CreateEvent(e) \/ RequestResend(e)
        PROVE  delivery'[d].status = delivery[d].status /\ posts' = posts
    BY <1>1, <1>2 DEF CreateEvent, RequestResend, DeliveryRows, Final
  <1>3. CASE Disable \/ Enable
    BY <1>3 DEF Disable, Enable
  <1>4. ASSUME NEW s \in Slots, NEW e \in Ids, Claim(s, e)
        PROVE  delivery'[d].status = delivery[d].status /\ posts' = posts
    BY <1>1, <1>4 DEF Claim, DeliveryRows
  <1>5. ASSUME NEW s \in Slots, Skip(s) \/ FinishAutomatic(s)
        PROVE  delivery'[d].status = delivery[d].status /\ posts' = posts
    <2>1. s \in Busy /\ ~job[s].manual
      BY <1>5 DEF Skip, FinishAutomatic, Busy, Idle
    <2>2. job[s].id # d /\ job[s].id \in Ids
      BY <2>1, HeldRow
    <2>3. QED
      BY <1>1, <1>5, <2>2 DEF Skip, FinishAutomatic, DeliveryRows
  <1>6. ASSUME NEW s \in Slots, FinishResend(s)
        PROVE  delivery'[d].status = delivery[d].status /\ posts' = posts
    BY <1>1, <1>6 DEF FinishResend, DeliveryRows
  <1>7. ASSUME NEW s \in Slots, NEW ok \in BOOLEAN, Send(s, ok)
        PROVE  delivery'[d].status = delivery[d].status /\ posts'[d] = posts[d]
    <2>1. s \in Busy
      BY <1>7 DEF Send, Busy, Idle
    <2>2. job[s].manual \/ job[s].id # d
      BY <2>1, HeldRow
    <2>3. job[s].id \in Ids
      BY <2>1, HeldRow
    <2>4. posts'[d] = posts[d]
      BY <1>1, <1>7, <2>2, <2>3 DEF Send
    <2>5. QED
      BY <1>7, <2>4 DEF Send
  <1>8. ASSUME NEW s \in Slots, Crash(s)
        PROVE  delivery'[d].status = delivery[d].status /\ posts' = posts
    BY <1>8 DEF Crash
  <1>9. CASE Tick
    BY <1>1, <1>9 DEF Tick, DeliveryRows
  <1>10. QED
    BY <1>2, <1>3, <1>4, <1>5, <1>6, <1>7, <1>8, <1>9 DEF DeliveriesNext, Work

(* Only a failed attempt at the end of a long silence switches it off.     *)
LEMMA AutoKept ==
  ASSUME QueueInv, DeliveriesNext, ~endpoint.auto, endpoint'.auto
  PROVE  quiet + AttemptTime >= DisableAfter
  <1>1. endpoint \in Endpoints
    BY DEF QueueInv, DeliveriesTypeOK
  <1>2. PICK s \in Slots : FinishAutomatic(s)
    <2>1. SUFFICES ASSUME ~\E s \in Slots : FinishAutomatic(s)
                   PROVE  FALSE
      OBVIOUS
    <2>2. \/ endpoint' = endpoint
          \/ endpoint' = [endpoint EXCEPT !.disabled = TRUE]
          \/ endpoint' = [endpoint EXCEPT !.disabled = FALSE, !.auto = FALSE,
                                          !.failing = NULL, !.warned = FALSE]
          \/ endpoint' = [endpoint EXCEPT !.failing = Older(@)]
      BY <2>1 DEF DeliveriesNext, CreateEvent, RequestResend, Disable, Enable, Claim,
                  Work, Skip, Send, FinishResend, Crash, Tick
    <2>3. QED
      BY <1>1, <2>2 DEF Endpoints
  <1>3. s \in Busy /\ job[s].ok \in BOOLEAN
    BY <1>2, HeldRow DEF FinishAutomatic, Busy, Idle, Jobs
  <1>4. QED
    BY <1>2, <1>3, StreakKept DEF FinishAutomatic

-----------------------------------------------------------------------------
(* The theorems.                                                           *)

(* The invariant holds in every state.                                     *)
THEOREM QueueInvariant == DeliveriesSpec => []QueueInv
  BY InitQueueInv, NextQueueInv, PTL DEF DeliveriesSpec

(* Every variable of the queue keeps its type: no attempt is numbered past *)
(* MAX_ATTEMPTS and no lock is longer than LOCK_SECONDS.                   *)
THEOREM QueueTypeCorrect == DeliveriesSpec => []DeliveriesTypeOK
  <1>1. QueueInv => DeliveriesTypeOK
    BY DEF QueueInv
  <1>2. QED
    BY <1>1, QueueInvariant, PTL

(* However many processes claim, crash and take over, no two of them are   *)
(* on one delivery, as long as an attempt is shorter than its lock.        *)
THEOREM NoTwoHolders == DeliveriesSpec => []OneHolder
  <1>1. QueueInv => OneHolder
    BY DEF QueueInv
  <1>2. QED
    BY <1>1, QueueInvariant, PTL

(* Whatever the schedule, a delivery is given up only after MAX_ATTEMPTS   *)
(* POSTs that were answered, and each crash adds one POST at most.         *)
THEOREM TriesAreCounted == DeliveriesSpec => []TriesCounted
  <1>1. ASSUME QueueInv PROVE TriesCounted
    <2> SUFFICES ASSUME NEW d \in Ids
                 PROVE  /\ delivery[d].attempt <= posts[d] /\ posts[d] <= MaxAttempts + crashes
                        /\ delivery[d].status = "exhausted" => delivery[d].attempt = MaxAttempts
      BY DEF TriesCounted
    <2>1. /\ delivery[d].attempt <= posts[d]
          /\ delivery[d].status = "exhausted" => delivery[d].attempt = MaxAttempts
          /\ posts[d] <= delivery[d].attempt + crashes + 1
          /\ posts[d] <= delivery[d].attempt + crashes \/ \E s \in Slots : Posting(s, d)
      BY <1>1 DEF QueueInv, PostsCounted
    <2>2. /\ delivery[d].attempt \in 0 .. MaxAttempts /\ posts[d] \in Nat /\ crashes \in Nat
      BY <1>1, DeliveriesAssumption DEF QueueInv, DeliveriesTypeOK, DeliveryRows
    <2>3. (\E s \in Slots : Posting(s, d)) => delivery[d].attempt + 1 <= MaxAttempts
      BY <1>1, <2>2, HeldRow, DeliveriesAssumption DEF Posting
    <2>4. QED
      BY <2>1, <2>2, <2>3, DeliveriesAssumption
  <1>2. QED
    BY <1>1, QueueInvariant, PTL

(* A delivery that ended is not posted again but by a resend, and no late *)
(* finish, other claim or resend takes away what it ended as.              *)
THEOREM FinalStays == DeliveriesSpec => FinalIsFinal
  <1>1. QueueInv /\ DeliveriesNext =>
          \A d \in Ids : delivery[d].status \in Final =>
            delivery'[d].status = delivery[d].status /\ posts'[d] = posts[d]
    BY FinalKept
  <1>2. QueueInv /\ [DeliveriesNext]_queueVars =>
          [\A d \in Ids : delivery[d].status \in Final =>
             /\ posts'[d] = posts[d]
             /\ \/ delivery'[d].status = delivery[d].status
                \/ /\ delivery[d].status = "exhausted" /\ delivery'[d].status = "succeeded"
                   /\ \E s \in Busy : job[s].id = d /\ job[s].manual /\ job[s].ok]_queueVars
    BY <1>1, Zenon
  <1>3. QED
    BY <1>2, QueueInvariant, PTL DEF DeliveriesSpec, FinalIsFinal

(* The worker switches no endpoint off within DISABLE_AFTER of a 2xx that  *)
(* an automatic attempt got, or of its being switched on, but for the      *)
(* length of an attempt. A 2xx to a resend is not one of these.            *)
THEOREM DisabledOnlyAfterFailures == DeliveriesSpec => DisabledAfterFailures
  <1>1. QueueInv /\ [DeliveriesNext]_queueVars =>
          [~endpoint.auto /\ endpoint'.auto => quiet + AttemptTime >= DisableAfter]_queueVars
    BY AutoKept
  <1>2. QED
    BY <1>1, QueueInvariant, PTL DEF DeliveriesSpec, DisabledAfterFailures
=============================================================================
