--------------------------- MODULE CapabilityJobs ---------------------------
(***************************************************************************)
(* The capability tests of one channel (handlers/capability_test_*.go):    *)
(* the job store, the goroutine that runs a job, its cancellation and the  *)
(* retest of one model.  Every access to a job is one locked update, after *)
(* which the states of the protocols and of the job are computed again     *)
(* from those of the models.                                               *)
(***************************************************************************)
EXTENDS Naturals, Sequences, FiniteSets, SequencesExt

CONSTANTS
  Protocols, Models, \* what a job may be asked to test
  MaxJobs,           \* bound: jobs created
  Retries            \* retest requests that may be under way at a time

ASSUME CapabilityAssumption ==
  MaxJobs \in Nat /\ IsFiniteSet(Protocols) /\ IsFiniteSet(Models)

JobIds == 1..MaxJobs
NoJob == 0

VARIABLES
  requested,    \* the models every start asks for
  jobs,         \* the job store: life cycle of the job, its protocols and its models
  context,      \* the cancellable context of the runner
  runner,       \* the goroutine of the job and what it has found
  created,      \* how many jobs there are
  executionKey, \* the job bound to the execution key, the same for every start
  replacing,    \* starts that found a cancelled job and will replace it
  cancelling,   \* cancellations between the context and the job
  retry,        \* retests under way
  disturbed     \* history: jobs cancelled before their context existed or retested while running

capabilityVars ==
  <<requested, jobs, context, runner, created, executionKey, replacing, cancelling, retry, disturbed>>

(* Every model is tested over every protocol.                               *)
Pairs == Protocols \X requested

Of(protocol) == {protocol} \X requested

Terminal == {"done", "cancelled"}

Idle == [stage |-> "idle", job |-> NoJob, item |-> << >>]

-----------------------------------------------------------------------------
(* The model results of a job and what is computed from them *)

LifeOf(status) ==
  CASE status = "queued" -> "pending" [] status = "running" -> "active" [] OTHER -> "done"

WithModel(job, item, status) ==
  [job EXCEPT !.models[item] = [status |-> status, life |-> LifeOf(status)]]

(* When every model was skipped without having run, nothing of the last     *)
(* cases holds and the protocol is pending.                                 *)
RecomputeProtocol(job, protocol) ==
  LET results  == {job.models[<<protocol, model>>] : model \in requested}
      lives    == {r.life : r \in results}
      statuses == {r.status : r \in results}
  IN  IF job.tests[protocol] = "cancelled" \/ lives = {"cancelled"} THEN "cancelled"
      ELSE IF "active" \in lives THEN "active"
      ELSE IF "pending" \in lives THEN "pending"
      ELSE IF statuses \cap {"success", "failed"} # {} THEN "done"
      ELSE IF "cancelled" \in lives THEN "cancelled"
      ELSE "pending"

RecomputeLife(job, tests) ==
  LET lives == {tests[protocol] : protocol \in Protocols}
  IN  IF "active" \in lives \/ \E i \in Pairs : job.models[i].status = "running" THEN "active"
      ELSE IF "pending" \in lives THEN "pending"
      ELSE IF lives = {"cancelled"} THEN "cancelled"
      ELSE "done"

(* Mutant: a cancelled job is computed again like any other.                *)
RecomputeAlways(job) ==
  LET tests == [protocol \in Protocols |-> RecomputeProtocol(job, protocol)]
  IN  [job EXCEPT !.tests = tests, !.life = RecomputeLife(job, tests)]

(* A cancelled job stays as it is; only its models may still change.        *)
Recompute(job) ==
  IF job.life = "cancelled" THEN job
  ELSE LET tests == [protocol \in Protocols |-> RecomputeProtocol(job, protocol)]
       IN  [job EXCEPT !.tests = tests, !.life = RecomputeLife(job, tests)]

UpdateJob(j, job) == jobs' = [jobs EXCEPT ![j] = Recompute(job)]

NewJob ==
  [life |-> "pending", tests |-> [protocol \in Protocols |-> "pending"],
   models |-> [i \in Pairs |-> [status |-> "queued", life |-> "pending"]]]

Successes(j) == {i \in Pairs : jobs[j].models[i].status = "success"}

CapabilityInit ==
  /\ requested \in SUBSET Models \ {{}}
  /\ jobs = [j \in JobIds |-> NewJob]
  /\ context = [j \in JobIds |-> "none"]
  /\ runner = [j \in JobIds |-> [at |-> "none", todo |-> << >>, doing |-> << >>,
                                 found |-> [i \in Pairs |-> "untested"]]]
  /\ created = 0 /\ executionKey = NoJob /\ replacing = 0
  /\ cancelling = {}
  /\ retry = [w \in Retries |-> Idle]
  /\ disturbed = {}

-----------------------------------------------------------------------------
(* TestChannelCapability *)

(* The new job takes over what an earlier job, named in the request, found. *)
CreateJob ==
  /\ created < MaxJobs
  /\ created' = created + 1
  /\ \E reused \in {{}} \cup {Successes(j) : j \in 1..created} :
       runner' = [runner EXCEPT ![created'] =
                    [@ EXCEPT !.at = "spawned",
                              !.found = [i \in Pairs |-> IF i \in reused THEN "success" ELSE "untested"]]]

(* getOrCreateByLookupKey; a job that is found and not cancelled is reused. *)
Start ==
  /\ executionKey = NoJob
  /\ CreateJob
  /\ executionKey' = created'
  /\ UNCHANGED <<requested, jobs, context, replacing, cancelling, retry, disturbed>>

StartOnCancelled ==
  /\ executionKey # NoJob /\ jobs[executionKey].life = "cancelled"
  /\ replacing = 0
  /\ replacing' = 1
  /\ UNCHANGED <<requested, jobs, context, runner, created, executionKey, cancelling, retry, disturbed>>

(* The job that takes the place of a cancelled one is bound to no key.      *)
ReplaceCancelled ==
  /\ replacing = 1
  /\ replacing' = 0
  /\ CreateJob
  /\ executionKey' = NoJob
  /\ UNCHANGED <<requested, jobs, context, cancelling, retry, disturbed>>

-----------------------------------------------------------------------------
(* The runner of a job *)

At(j, place) == runner' = [runner EXCEPT ![j].at = place]

SetCancelFunc(j) ==
  /\ runner[j].at = "spawned"
  /\ context' = [context EXCEPT ![j] = "live"]
  /\ At(j, "activating")
  /\ UNCHANGED <<requested, jobs, created, executionKey, replacing, cancelling, retry, disturbed>>

Activate(j) ==
  /\ runner[j].at = "activating"
  /\ IF context[j] = "cancelled" \/ jobs[j].life = "cancelled"
     THEN At(j, "over") /\ executionKey' = NoJob /\ UNCHANGED jobs
     ELSE /\ UpdateJob(j, [jobs[j] EXCEPT !.life = "active"])
          /\ At(j, "starting")
          /\ UNCHANGED executionKey
  /\ UNCHANGED <<requested, context, created, replacing, cancelling, retry, disturbed>>

(* All models are queued again, cancelled or not, then those that an        *)
(* earlier job found are done; the others are taken in round-robin order.   *)
InitializeTests(j) ==
  /\ runner[j].at = "starting"
  /\ LET reused == {i \in Pairs : runner[j].found[i] = "success"}
     IN /\ UpdateJob(j, [jobs[j] EXCEPT
                       !.tests = [protocol \in Protocols |-> "pending"],
                       !.models = [i \in Pairs |->
                          IF i \in reused THEN [status |-> "success", life |-> "done"]
                                          ELSE [status |-> "queued", life |-> "pending"]]])
        /\ \E order \in SetToSeqs(Pairs \ reused) :
             runner' = [runner EXCEPT ![j].at = "testing", ![j].todo = order]
  /\ UNCHANGED <<requested, context, created, executionKey, replacing, cancelling, retry, disturbed>>

AcquireSendSlot(j) ==
  /\ runner[j].at = "testing" /\ runner[j].todo # << >> /\ context[j] = "live"
  /\ runner' = [runner EXCEPT ![j].at = "granted", ![j].doing = Head(runner[j].todo),
                              ![j].todo = Tail(runner[j].todo)]
  /\ UNCHANGED <<requested, jobs, context, created, executionKey, replacing, cancelling, retry, disturbed>>

(* The queue is empty, the job is cancelled, the time for all models is     *)
(* over, or the dispatcher refuses the slot.                                *)
StopTesting(j) ==
  /\ runner[j].at = "testing"
  /\ runner' = [runner EXCEPT ![j].at = "closing", ![j].todo = << >>]
  /\ UNCHANGED <<requested, jobs, context, created, executionKey, replacing, cancelling, retry, disturbed>>

Finds(j, item, result) ==
  runner' = [runner EXCEPT ![j].at = "testing", ![j].doing = << >>, ![j].found[item] = result]

(* executeModelTest: the request is built and sent.                         *)
SendTest(j) ==
  LET item == runner[j].doing IN
  /\ runner[j].at = "granted"
  /\ \/ /\ IF jobs[j].life = "cancelled" THEN UNCHANGED jobs
                                         ELSE UpdateJob(j, WithModel(jobs[j], item, "running"))
        /\ At(j, "sent")
     \/ UpdateJob(j, WithModel(jobs[j], item, "failed")) /\ Finds(j, item, "failed")
  /\ UNCHANGED <<requested, context, created, executionKey, replacing, cancelling, retry, disturbed>>

FinishTest(j) ==
  LET item == runner[j].doing IN
  /\ runner[j].at = "sent"
  /\ \/ UpdateJob(j, WithModel(jobs[j], item, "success")) /\ Finds(j, item, "success")
     \/ /\ IF jobs[j].life = "cancelled" THEN UNCHANGED jobs
                                         ELSE UpdateJob(j, WithModel(jobs[j], item, "failed"))
        /\ Finds(j, item, "failed")
  /\ UNCHANGED <<requested, context, created, executionKey, replacing, cancelling, retry, disturbed>>

(* Mutant: the models that were not reached keep their state.               *)
CloseProtocolOnly(j, protocol) ==
  /\ runner[j].at = "closing"
  /\ \E i \in Of(protocol) : runner[j].found[i] # "closed"
  /\ runner' = [runner EXCEPT ![j].found =
                  [i \in Pairs |-> IF i \in Of(protocol) THEN "closed" ELSE @[i]]]
  /\ UpdateJob(j, jobs[j])
  /\ UNCHANGED <<requested, context, created, executionKey, replacing, cancelling, retry, disturbed>>

(* What was not reached is skipped; when nothing of the protocol succeeded, *)
(* a model still queued or running only gets the status of a skipped one.   *)
CloseProtocol(j, protocol) ==
  /\ runner[j].at = "closing"
  /\ \E i \in Of(protocol) : runner[j].found[i] # "closed"
  /\ LET found   == runner[j].found
         failed  == \A i \in Of(protocol) : found[i] # "success"
         skipped == [i \in Pairs |->
                       IF i \in Of(protocol) /\ found[i] = "untested"
                       THEN [status |-> "skipped", life |-> "done"]
                       ELSE IF i \in Of(protocol) /\ failed
                               /\ jobs[j].models[i].status \in {"queued", "running"}
                       THEN [jobs[j].models[i] EXCEPT !.status = "skipped"]
                       ELSE jobs[j].models[i]]
     IN /\ UpdateJob(j, [jobs[j] EXCEPT !.models = skipped])
        /\ runner' = [runner EXCEPT ![j].found =
                        [i \in Pairs |-> IF i \in Of(protocol) THEN "closed" ELSE @[i]]]
  /\ UNCHANGED <<requested, context, created, executionKey, replacing, cancelling, retry, disturbed>>

(* The last update, after which a job that was not cancelled gives up its   *)
(* key.                                                                     *)
FinishJob(j) ==
  /\ runner[j].at = "closing"
  /\ \A i \in Pairs : runner[j].found[i] = "closed"
  /\ UpdateJob(j, jobs[j])
  /\ At(j, "over")
  /\ executionKey' = IF context[j] = "live" THEN NoJob ELSE executionKey
  /\ UNCHANGED <<requested, context, created, replacing, cancelling, retry, disturbed>>

-----------------------------------------------------------------------------
(* CancelCapabilityTestJob: the context first, then the job *)

CancelContext(j) ==
  /\ j <= created /\ j \notin cancelling /\ jobs[j].life \notin Terminal
  /\ cancelling' = cancelling \cup {j}
  /\ context' = [context EXCEPT ![j] = IF @ = "live" THEN "cancelled" ELSE @]
  /\ disturbed' = IF context[j] = "none" THEN disturbed \cup {j} ELSE disturbed
  /\ UNCHANGED <<requested, jobs, runner, created, executionKey, replacing, retry>>

CancelJob(j) ==
  /\ j \in cancelling
  /\ cancelling' = cancelling \ {j}
  /\ LET Cancelled(result) ==
           CASE result.status = "queued"  -> [status |-> "skipped", life |-> "done"]
             [] result.status = "running" -> [status |-> "skipped", life |-> "cancelled"]
             [] OTHER                     -> result
     IN UpdateJob(j, [life |-> "cancelled", tests |-> [protocol \in Protocols |-> "cancelled"],
                   models |-> [i \in Pairs |-> Cancelled(jobs[j].models[i])]])
  /\ UNCHANGED <<requested, context, runner, created, executionKey, replacing, retry, disturbed>>

-----------------------------------------------------------------------------
(* RetryCapabilityTestModel: the job is read, then updated; a goroutine of  *)
(* its own, which no cancellation reaches, does the test.                   *)

Retest(w, stage) == retry' = [retry EXCEPT ![w].stage = stage]

CheckRetry(w, j, item) ==
  /\ retry[w].stage = "idle" /\ j <= created
  /\ jobs[j].life \in Terminal
  /\ LET result == jobs[j].models[item]
     IN result.status \in {"failed", "skipped"} \/ result.life = "cancelled"
  /\ retry' = [retry EXCEPT ![w] = [stage |-> "checked", job |-> j, item |-> item]]
  /\ UNCHANGED <<requested, jobs, context, runner, created, executionKey, replacing, cancelling, disturbed>>

AcceptRetry(w) ==
  LET j == retry[w].job IN
  /\ retry[w].stage = "checked"
  /\ UpdateJob(j, [WithModel(jobs[j], retry[w].item, "running") EXCEPT
                  !.tests[retry[w].item[1]] = "active", !.life = "active"])
  /\ Retest(w, "queued")
  /\ disturbed' = IF runner[j].at = "over" THEN disturbed ELSE disturbed \cup {j}
  /\ UNCHANGED <<requested, context, runner, created, executionKey, replacing, cancelling>>

(* The request is built and sent after a priority slot; without a slot or a *)
(* request the model has failed.                                            *)
SendRetry(w) ==
  LET j == retry[w].job IN
  /\ retry[w].stage = "queued"
  /\ \/ /\ IF jobs[j].life = "cancelled" THEN UNCHANGED jobs
           ELSE UpdateJob(j, WithModel(jobs[j], retry[w].item, "running"))
        /\ Retest(w, "sent")
     \/ /\ UpdateJob(j, WithModel(jobs[j], retry[w].item, "failed"))
        /\ retry' = [retry EXCEPT ![w] = Idle]
  /\ UNCHANGED <<requested, context, runner, created, executionKey, replacing, cancelling, disturbed>>

FinishRetry(w) ==
  LET j == retry[w].job IN
  /\ retry[w].stage = "sent"
  /\ \/ UpdateJob(j, WithModel(jobs[j], retry[w].item, "success"))
     \/ IF jobs[j].life = "cancelled" THEN UNCHANGED jobs
        ELSE UpdateJob(j, WithModel(jobs[j], retry[w].item, "failed"))
  /\ retry' = [retry EXCEPT ![w] = Idle]
  /\ UNCHANGED <<requested, context, runner, created, executionKey, replacing, cancelling, disturbed>>

-----------------------------------------------------------------------------
Run(j) ==
  \/ SetCancelFunc(j) \/ Activate(j) \/ InitializeTests(j)
  \/ AcquireSendSlot(j) \/ StopTesting(j) \/ SendTest(j) \/ FinishTest(j)
  \/ \E protocol \in Protocols : CloseProtocol(j, protocol)
  \/ FinishJob(j)

RetryStep(w) ==
  \/ \E j \in JobIds, item \in Pairs : CheckRetry(w, j, item)
  \/ AcceptRetry(w) \/ SendRetry(w) \/ FinishRetry(w)

CapabilityNext ==
  \/ Start \/ StartOnCancelled \/ ReplaceCancelled
  \/ \E j \in JobIds : Run(j) \/ CancelContext(j) \/ CancelJob(j)
  \/ \E w \in Retries : RetryStep(w)

CapabilitySpec == CapabilityInit /\ [][CapabilityNext]_capabilityVars

-----------------------------------------------------------------------------
(* Properties *)

(* Nobody works on the job any more.                                        *)
AtRest(j) ==
  /\ runner[j].at = "over" /\ j \notin cancelling
  /\ \A w \in Retries : retry[w].job # j

(* Results that come in after a job was cancelled, from its runner or from  *)
(* a retest, do not bring it back; only a new retest of one of its models   *)
(* does.                                                                    *)
CancelledStays ==
  [][\A j \in JobIds :
       jobs[j].life = "cancelled" =>
         \/ jobs'[j].life = "cancelled"
         \/ \E w \in Retries :
              retry[w].stage = "checked" /\ retry'[w].stage = "queued"]_capabilityVars

(* A job that was neither cancelled before its runner had registered the    *)
(* context (runner.go:68) nor retested while its runner was at work leaves  *)
(* no model queued or running when nobody works on it any more: however it  *)
(* ends, tested to the end, cut short by its timeout or cancelled, and      *)
(* whatever is retested afterwards.  In the two cases left out the runner   *)
(* goes on in a job that counts as cancelled, or beside the retest: it      *)
(* queues the models again, and what it finds of them is not written.       *)
NoModelLeftOpenUndisturbed ==
  \A j \in JobIds \ disturbed :
    AtRest(j) => \A i \in Pairs : jobs[j].models[i].life \in Terminal

=============================================================================
