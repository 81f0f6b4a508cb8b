----------------------------- MODULE Deliveries -----------------------------
(***************************************************************************)
(* The webhook queue: deliveries of one endpoint in Postgres and the       *)
(* worker slots that claim, post and finish them (api/src/worker/queue.ts, *)
(* run.ts, deliver.ts, schedule.ts), with the merchant's Resend            *)
(* (api/src/db/deliveries.ts) and its hand on the endpoint                 *)
(* (api/src/db/webhook-endpoints.ts).                                      *)
(*                                                                         *)
(* Instants the code stores are kept as the time left until them, or       *)
(* passed since them, so the clock has no bound; NULL is -1.               *)
(***************************************************************************)
EXTENDS Integers

CONSTANTS
  Ids,             (* The deliveries.                                      *)
  Slots,           (* Attempts that run at once, over all the processes.   *)
  MaxAttempts,     (* MAX_ATTEMPTS.                                        *)
  RetryDelay(_),   (* RETRY_DELAYS_S, by failed attempt.                   *)
  LockTime,        (* LOCK_SECONDS.                                        *)
  AttemptTime,     (* The longest from a claim to its last write.          *)
  WarnAfter, DisableAfter,   (* Age of a failure streak.                   *)
  MaxResends,      (* Bound on the merchant's resends.                     *)
  MaxCrashes       (* Bound on attempts that crash.                        *)

ASSUME DeliveriesAssumption ==
  /\ MaxAttempts \in Nat \ {0} /\ \A n \in 1 .. MaxAttempts : RetryDelay(n) \in Nat
  /\ LockTime \in Nat /\ AttemptTime \in Nat /\ AttemptTime < LockTime
  /\ WarnAfter \in Nat /\ DisableAfter \in Nat
  /\ MaxResends \in Nat /\ MaxCrashes \in Nat

VARIABLES
  delivery,   (* The deliveries rows.                                      *)
  endpoint,   (* The webhook_endpoints row.                                *)
  job,        (* What each slot is doing.                                  *)
  posts,      (* Automatic POSTs sent, by delivery,                        *)
  resent,     (* manual ones,                                              *)
  rows,       (* and rows of delivery_attempts.                            *)
  quiet,      (* Time since an automatic attempt was last answered 2xx, or *)
              (* the endpoint was switched on.                             *)
  resends, crashes

queueVars == <<delivery, endpoint, job, posts, resent, rows, quiet, resends, crashes>>

NULL == -1

Final == {"succeeded", "exhausted", "skipped"}

Idle == [phase |-> "idle"]

Busy == {s \in Slots : job[s] # Idle}

DeliveriesInit ==
  /\ delivery = [d \in Ids |-> [status |-> "none", attempt |-> 0, nextIn |-> 0,
                                lock |-> NULL, resend |-> FALSE]]
  /\ endpoint = [disabled |-> FALSE, auto |-> FALSE, failing |-> NULL, warned |-> FALSE,
                 failures |-> 0]
  /\ job = [s \in Slots |-> Idle]
  /\ posts = [d \in Ids |-> 0] /\ resent = [d \in Ids |-> 0] /\ rows = [d \in Ids |-> 0]
  /\ quiet = 0 /\ resends = 0 /\ crashes = 0

-----------------------------------------------------------------------------
(* The platform and the merchant.                                          *)

(* An event, or the test event, which a disabled endpoint gets as well.    *)
CreateEvent(d) ==
  /\ delivery[d].status = "none"
  /\ delivery' = [delivery EXCEPT ![d].status = "queued"]
  /\ UNCHANGED <<endpoint, job, posts, resent, rows, quiet, resends, crashes>>

RequestResend(d) ==
  /\ delivery[d].status # "none" /\ ~endpoint.disabled
  /\ resends < MaxResends /\ resends' = resends + 1
  /\ delivery' = [delivery EXCEPT ![d].resend = TRUE]
  /\ UNCHANGED <<endpoint, job, posts, resent, rows, quiet, crashes>>

Disable ==
  /\ endpoint' = [endpoint EXCEPT !.disabled = TRUE]
  /\ UNCHANGED <<delivery, job, posts, resent, rows, quiet, resends, crashes>>

Enable ==
  /\ endpoint' = [endpoint EXCEPT !.disabled = FALSE, !.auto = FALSE, !.failing = NULL,
                                  !.warned = FALSE]
  /\ quiet' = 0
  /\ UNCHANGED <<delivery, job, posts, resent, rows, resends, crashes>>

-----------------------------------------------------------------------------
(* The worker: claim, post, finish. Processes may die in between.          *)

Waiting(d) == delivery[d].status \in {"queued", "retrying"} /\ delivery[d].nextIn = 0

(* Wrong: the lock is not looked at.                                       *)
DueThoughLocked(d) == Waiting(d) \/ delivery[d].resend

(* Wrong: a lock that ran out is never taken over.                         *)
DueIfReleased(d) == (Waiting(d) \/ delivery[d].resend) /\ delivery[d].lock = NULL

Due(d) == (Waiting(d) \/ delivery[d].resend) /\ delivery[d].lock \in {NULL, 0}

(* Wrong: the crashed attempt uses up one of the attempts.                 *)
NextAttemptAfterCrash(d) ==
  IF delivery[d].lock = NULL \/ delivery[d].attempt + 2 > MaxAttempts
  THEN delivery[d].attempt + 1 ELSE delivery[d].attempt + 2

NextAttempt(d) == delivery[d].attempt + 1

Claim(s, d) ==
  /\ s \notin Busy /\ Due(d)
  /\ job' = [job EXCEPT ![s] =
       [phase |-> "claimed", id |-> d, n |-> NextAttempt(d), manual |-> delivery[d].resend,
        reclaimed |-> delivery[d].lock # NULL, off |-> endpoint.disabled,
        held |-> 0, sent |-> 0, ok |-> FALSE]]
  /\ delivery' = [delivery EXCEPT ![d].lock = LockTime, ![d].resend = FALSE]
  /\ UNCHANGED <<endpoint, posts, resent, rows, quiet, resends, crashes>>

(* The row lock_expired, for an automatic attempt that took a job over.    *)
LogReclaimed(j) == IF j.reclaimed /\ ~j.manual THEN 1 ELSE 0

Skip(s) ==
  LET j == job[s]
  IN  /\ j.phase = "claimed" /\ j.off /\ ~j.manual
      /\ rows' = [rows EXCEPT ![j.id] = @ + LogReclaimed(j)]
      /\ delivery' = [delivery EXCEPT ![j.id].status = "skipped", ![j.id].lock = NULL]
      /\ job' = [job EXCEPT ![s] = Idle]
      /\ UNCHANGED <<endpoint, posts, resent, quiet, resends, crashes>>

(* ok is what comes back within the time limit: a 2xx or anything else.    *)
Send(s, ok) ==
  LET j == job[s]
  IN  /\ j.phase = "claimed" /\ (j.manual \/ ~j.off)
      /\ rows' = [rows EXCEPT ![j.id] = @ + LogReclaimed(j)]
      /\ posts' = [posts EXCEPT ![j.id] = @ + (IF j.manual THEN 0 ELSE 1)]
      /\ resent' = [resent EXCEPT ![j.id] = @ + (IF j.manual THEN 1 ELSE 0)]
      /\ job' = [job EXCEPT ![s].phase = "posted", ![s].ok = ok]
      /\ UNCHANGED <<delivery, endpoint, quiet, resends, crashes>>

(* Wrong: the attempt after the last one is scheduled.                     *)
OutcomeOneMore(j) ==
  IF j.ok THEN "succeeded" ELSE IF j.n > MaxAttempts THEN "exhausted" ELSE "retrying"

Outcome(j) ==
  IF j.ok THEN "succeeded" ELSE IF j.n >= MaxAttempts THEN "exhausted" ELSE "retrying"

NextIn(j, before) ==
  IF Outcome(j) # "retrying" THEN before
  ELSE IF RetryDelay(j.n) > j.sent THEN RetryDelay(j.n) - j.sent ELSE 0

(* Wrong: a 2xx leaves the streak as it is.                                *)
AfterSuccessKeepingStreak(e) == [e EXCEPT !.warned = FALSE, !.failures = 0]

AfterSuccess(e) == [e EXCEPT !.failing = NULL, !.warned = FALSE, !.failures = 0]

(* The streak starts with the attempt that failed, sent a while ago.       *)
AfterFailure(e, j) ==
  LET since   == IF e.failing = NULL THEN j.sent ELSE e.failing
      streak  == since - j.sent
      counted == [e EXCEPT !.failing = since,
                           !.failures = @ + (IF Outcome(j) = "exhausted" THEN 1 ELSE 0)]
  IN  IF e.disabled THEN counted
      ELSE IF streak >= DisableAfter THEN [counted EXCEPT !.disabled = TRUE, !.auto = TRUE]
      ELSE IF streak >= WarnAfter THEN [counted EXCEPT !.warned = TRUE]
      ELSE counted

FinishAutomatic(s) ==
  LET j == job[s]
  IN  /\ j.phase = "posted" /\ ~j.manual
      /\ rows' = [rows EXCEPT ![j.id] = @ + 1]
      /\ delivery' = [delivery EXCEPT ![j.id].status = Outcome(j), ![j.id].attempt = j.n,
                                      ![j.id].lock = NULL, ![j.id].nextIn = NextIn(j, @)]
      /\ endpoint' = IF j.ok THEN AfterSuccess(endpoint) ELSE AfterFailure(endpoint, j)
      /\ quiet' = IF j.ok THEN 0 ELSE quiet
      /\ job' = [job EXCEPT ![s] = Idle]
      /\ UNCHANGED <<posts, resent, resends, crashes>>

(* Wrong: a resend that failed is scheduled again like any other attempt.  *)
FinishResendRescheduling(s) ==
  LET j == job[s]
  IN  /\ j.phase = "posted" /\ j.manual
      /\ rows' = [rows EXCEPT ![j.id] = @ + 1]
      /\ delivery' = [delivery EXCEPT ![j.id].lock = NULL,
                                      ![j.id].status = IF j.ok THEN @ ELSE "retrying"]
      /\ job' = [job EXCEPT ![s] = Idle]
      /\ UNCHANGED <<endpoint, posts, resent, quiet, resends, crashes>>

(* Status, schedule and streak stay as they are.                           *)
FinishResend(s) ==
  LET j == job[s]
  IN  /\ j.phase = "posted" /\ j.manual
      /\ rows' = [rows EXCEPT ![j.id] = @ + 1]
      /\ delivery' = [delivery EXCEPT ![j.id].lock = NULL]
      /\ job' = [job EXCEPT ![s] = Idle]
      /\ UNCHANGED <<endpoint, posts, resent, quiet, resends, crashes>>

(* The process dies, or a write throws: the lock stays.                    *)
Crash(s) ==
  /\ s \in Busy
  /\ crashes < MaxCrashes /\ crashes' = crashes + 1
  /\ job' = [job EXCEPT ![s] = Idle]
  /\ UNCHANGED <<delivery, endpoint, posts, resent, rows, quiet, resends>>

-----------------------------------------------------------------------------
(* Time. Ages stop growing where the code no longer tells them apart.      *)

Less(n) == IF n > 0 THEN n - 1 ELSE n

Older(age) == IF age = NULL \/ age >= DisableAfter + AttemptTime THEN age ELSE age + 1

Tick ==
  /\ \A s \in Busy : job[s].held < AttemptTime
  /\ delivery' = [d \in Ids |-> [delivery[d] EXCEPT !.nextIn = Less(@), !.lock = Less(@)]]
  /\ job' = [s \in Slots |->
       IF s \notin Busy THEN Idle
       ELSE [job[s] EXCEPT !.held = @ + 1,
                           !.sent = IF job[s].phase = "posted" THEN @ + 1 ELSE @]]
  /\ endpoint' = [endpoint EXCEPT !.failing = Older(@)]
  /\ quiet' = Older(quiet)
  /\ UNCHANGED <<posts, resent, rows, resends, crashes>>

-----------------------------------------------------------------------------

Work(s) == Skip(s) \/ (\E ok \in BOOLEAN : Send(s, ok)) \/ FinishAutomatic(s) \/ FinishResend(s)

DeliveriesNext ==
  \/ \E d \in Ids : CreateEvent(d) \/ RequestResend(d)
  \/ Disable \/ Enable
  \/ \E s \in Slots, d \in Ids : Claim(s, d)
  \/ \E s \in Slots : Work(s) \/ Crash(s)
  \/ Tick

DeliveriesSpec == DeliveriesInit /\ [][DeliveriesNext]_queueVars

-----------------------------------------------------------------------------
(* Properties.                                                             *)

DeliveryRows == [status : {"none", "queued", "retrying"} \cup Final,
                 attempt : 0 .. MaxAttempts, nextIn : Nat,
                 lock : {NULL} \cup 0 .. LockTime, resend : BOOLEAN]

Endpoints == [disabled : BOOLEAN, auto : BOOLEAN, warned : BOOLEAN,
              failing : {NULL} \cup Nat, failures : Nat]

Jobs == [phase : {"claimed", "posted"}, id : Ids, n : 1 .. MaxAttempts + 1,
         manual : BOOLEAN, reclaimed : BOOLEAN, off : BOOLEAN,
         held : 0 .. AttemptTime, sent : 0 .. AttemptTime, ok : BOOLEAN]

(* Every variable keeps its type; no delivery has more attempts than the   *)
(* schedule allows and no lock is longer than LOCK_SECONDS.                *)
DeliveriesTypeOK ==
  /\ delivery \in [Ids -> DeliveryRows] /\ endpoint \in Endpoints
  /\ \A s \in Busy : job[s] \in Jobs
  /\ posts \in [Ids -> Nat] /\ resent \in [Ids -> Nat] /\ rows \in [Ids -> Nat]
  /\ quiet \in Nat /\ resends \in 0 .. MaxResends /\ crashes \in 0 .. MaxCrashes

(* No two slots hold a delivery at once, through crashes, take-overs and   *)
(* resends (FR-WRK-010): the lock outlasts the attempt.                    *)
OneHolder ==
  \A s, t \in Busy : s # t => job[s].id # job[t].id

(* A delivery is given up only after MAX_ATTEMPTS real POSTs, a crashed    *)
(* attempt never uses one up, and only a crash can add a POST beyond the   *)
(* cap (FR-WRK-013, FR-WRK-015).                                           *)
TriesCounted ==
  \A d \in Ids :
    /\ delivery[d].attempt <= posts[d] /\ posts[d] <= MaxAttempts + crashes
    /\ delivery[d].status = "exhausted" => delivery[d].attempt = MaxAttempts

(* A delivery that ended is posted no more by itself, whatever comes back  *)
(* late, and stays what it is, however its resends go (FR-WRK-030, 032).   *)
(* Only an exhausted one may still become succeeded, by a resend that was  *)
(* answered 2xx: FR-WRK-030 asks for that, manualAttempt leaves it out.    *)
FinalIsFinal ==
  [][\A d \in Ids : delivery[d].status \in Final =>
       /\ posts'[d] = posts[d]
       /\ \/ delivery'[d].status = delivery[d].status
          \/ /\ delivery[d].status = "exhausted" /\ delivery'[d].status = "succeeded"
             /\ \E s \in Busy : job[s].id = d /\ job[s].manual /\ job[s].ok]_queueVars

(* The worker switches an endpoint off only when no automatic attempt was  *)
(* answered 2xx for the whole time, give or take an attempt, since it was  *)
(* last switched on, in whatever order overlapping attempts come back. A   *)
(* resend's 2xx does not count here: FR-WRK-050 has any 2xx clear the      *)
(* streak, manualAttempt leaves the streak alone.                          *)
DisabledAfterFailures ==
  [][~endpoint.auto /\ endpoint'.auto => quiet + AttemptTime >= DisableAfter]_queueVars

(* Every delivery ends: no crash, resend or endpoint leaves one hanging    *)
(* (FR-WRK-015, BR-WRK-004).                                               *)
EveryDeliveryEnds ==
  \A d \in Ids : []<>(delivery[d].status \in {"none"} \cup Final)

(* Every POST has its row once nobody holds the delivery: "Every attempt   *)
(* writes delivery_attempts" and "the crashed attempt is recorded as       *)
(* lock_expired" (FR-WRK-014, FR-WRK-015, docs/specs/worker-frd.md:36-37). *)
EveryPostLogged ==
  \A d \in Ids : delivery[d].lock = NULL => posts[d] + resent[d] <= rows[d]

(* "A disabled endpoint receives nothing, Resend included"                 *)
(* (api/src/routes/deliveries.ts:37).                                      *)
DisabledReceivesNothing ==
  \A s \in Busy : job[s].phase = "posted" => ~job[s].off
=============================================================================
