-------------------------- MODULE VerificationJobs --------------------------
(* How samples are verified: FacePhotoPlugin.run_verification queues one   *)
(* job per sample, WorkerInterface keeps the callback under a fresh code,  *)
(* the jobs run concurrently in the worker and gather their results in     *)
(* Redis (face_photo_jobs), and the notification that the result was set   *)
(* makes the server call the plugin's callback.                            *)
(*                                                                         *)
(* Every action of a job is one Redis call; jobs are greenlets of one      *)
(* worker and switch between calls.  A run is one verification with its    *)
(* callback code.  The key that marks a run as failed lives 300 s, longer  *)
(* than its jobs, and does not expire here.                                *)
EXTENDS Integers, FiniteSets

CONSTANTS Phones,       \* probe ids
          Runs,         \* callback codes
          Samples,      \* samples of a verification, one job each
          MaxAttempts,  \* _max_verification_attempts
          MaxRestarts,  \* restarts of the worker and jobs that break off
          None

ASSUME JobConstants ==
  /\ IsFiniteSet(Samples) /\ Samples # {}
  /\ MaxAttempts \in Nat \ {0} /\ MaxRestarts \in Nat
  /\ None \notin Phones \cup Runs

Jobs == Runs \X Samples
N    == Cardinality(Samples)

VARIABLES
  phone,       \* the probe a run verifies, None before it is asked for
  job,         \* the jobs: next call, result of the algorithm, verdict
  counter,     \* results still missing of a run; None if the key is absent
  partial,     \* results gathered of a run: how many, and how many positive
  errors,      \* runs marked as failed
  result,      \* verdict stored for a run, None if the key is absent
  news,        \* notifications of a stored verdict not handled yet
  subscribed,  \* runs whose code has a callback in the server
  callback,    \* run whose callback the plugin holds
  retries,     \* attempts a probe has left; None if the key is absent
  asking,      \* run the server is about to queue, and the retries to store
  answer,      \* history: run and verdict a run's callback was called with
  restarts     \* restarts and broken jobs still to come

runVars    == <<phone, subscribed, callback, asking>>
serverVars == <<runVars, answer>>
storeVars  == <<counter, partial, errors, result, news, retries>>
vars == <<serverVars, storeVars, job, restarts>>

Outcomes == {"yes", "no", "error"}
Verdicts == Outcomes \cup {"max"}
Stages == {"none", "queued", "ended", "append", "count", "gather", "report",
           "retry", "forget", "clear", "drop", "publish", "done", "lost"}

ASSUME NoneIsNoValue ==
  None \notin Int \cup Verdicts \cup (Runs \X Verdicts) \cup (Runs \X BOOLEAN)

JobsTypeOK ==
  /\ phone \in [Runs -> Phones \cup {None}]
  /\ job \in [Jobs -> [at : Stages, saw : Outcomes \cup {None},
                       says : Verdicts \cup {None}]]
  /\ counter \in [Runs -> Int \cup {None}]
  /\ partial \in [Runs -> [all : 0..N, yes : 0..N]]
  /\ errors \subseteq Runs /\ subscribed \subseteq Runs
  /\ result \in [Runs -> Verdicts \cup {None}]
  /\ news \in [Runs -> Nat]
  /\ callback \in Runs \cup {None}
  /\ retries \in [Phones -> Int \cup {None}]
  /\ asking \in (Runs \X BOOLEAN) \cup {None}
  /\ answer \in [Runs -> (Runs \X Verdicts) \cup {None}]
  /\ restarts \in 0..MaxRestarts

\* The list of results, as far as it matters.
Empty == [all |-> 0, yes |-> 0]

Init ==
  /\ phone = [v \in Runs |-> None]
  /\ job = [j \in Jobs |-> [at |-> "none", saw |-> None, says |-> None]]
  /\ counter = [v \in Runs |-> None]
  /\ partial = [v \in Runs |-> Empty]
  /\ errors = {} /\ subscribed = {}
  /\ result = [v \in Runs |-> None]
  /\ news = [v \in Runs |-> 0]
  /\ callback = None
  /\ retries = [p \in Phones |-> None]
  /\ asking = None
  /\ answer = [v \in Runs |-> None]
  /\ restarts = MaxRestarts

-----------------------------------------------------------------------------
(* The server.  Its thread runs one handler at a time; the workers' calls  *)
(* come between the two calls by which it keeps the retry counter.         *)

\* run_verification for the samples of probe p.
Ask(p, v) ==
  /\ asking = None /\ phone[v] = None
  /\ phone' = [phone EXCEPT ![v] = p]
  /\ callback' = v
  /\ asking' = <<v, retries[p] = None>>
  /\ UNCHANGED <<subscribed, answer, storeVars, job, restarts>>

\* run_verification and run_job go on: the retry counter is stored if it was
\* absent, then the jobs are queued.
Enqueue ==
  /\ asking # None
  /\ LET v == asking[1] IN
     /\ retries' = IF asking[2] THEN [retries EXCEPT ![phone[v]] = MaxAttempts]
                                ELSE retries
     /\ subscribed' = subscribed \cup {v}
     /\ counter' = [counter EXCEPT ![v] = N]
     /\ job' = [j \in Jobs |-> IF j[1] = v THEN [job[j] EXCEPT !.at = "queued"]
                                           ELSE job[j]]
  /\ asking' = None
  /\ UNCHANGED <<phone, callback, partial, errors, result, news, answer, restarts>>

\* What a callback gets: an absent result is taken for False.
Told(v) == IF result[v] = None THEN "no" ELSE result[v]

\* _process_probe_results: the code's callback is the plugin's
\* _probe_callback, which calls the callback the plugin holds now; a flow
\* takes the first call only.
Handle(v) ==
  /\ asking = None /\ news[v] > 0
  /\ news' = [news EXCEPT ![v] = @ - 1]
  /\ answer' = IF v \in subscribed /\ answer[callback] = None
               THEN [answer EXCEPT ![callback] = <<v, Told(v)>>] ELSE answer
  /\ result' = [result EXCEPT ![v] = None]
  /\ subscribed' = subscribed \ {v}
  /\ UNCHANGED <<phone, callback, asking, counter, partial, errors, retries, job,
                 restarts>>

\* BiomioProtocol.cancel_auth forgets the retries of a probe.
Cancel(p) ==
  /\ asking = None /\ retries[p] # None
  /\ retries' = [retries EXCEPT ![p] = None]
  /\ UNCHANGED <<serverVars, counter, partial, errors, result, news, job, restarts>>

-----------------------------------------------------------------------------
(* The jobs.                                                               *)

At(j, s)   == job[j].at = s
Goes(j, s) == job' = [job EXCEPT ![j].at = s]

\* verification_job up to its finally block: it ends at once if the run is
\* marked as failed; otherwise the algorithm answers, or cannot process the
\* sample (an "Internal algorithm" error; any other failure counts as no).
Verify(j, o) ==
  /\ At(j, "queued")
  /\ job' = IF j[1] \in errors THEN [job EXCEPT ![j].at = "done"]
            ELSE [job EXCEPT ![j].at = "ended", ![j].saw = o]
  /\ UNCHANGED <<serverVars, storeVars, restarts>>

\* The templates cannot be read or the temporary directory cannot be made:
\* outside of the try block, so the job ends without counting down.
Break(j) ==
  /\ At(j, "queued") /\ j[1] \notin errors
  /\ restarts > 0 /\ restarts' = restarts - 1
  /\ Goes(j, "lost")
  /\ UNCHANGED <<serverVars, storeVars>>

\* Mutant: an error is only logged.
AfterCheckSilent(j) == IF j[1] \in errors \/ job[j].saw = "error" THEN "done"
                       ELSE "append"
\* The first test of the finally block.
AfterCheck(j) == IF j[1] \in errors THEN "done"
                 ELSE IF job[j].saw = "error" THEN "report" ELSE "append"
Check(j) ==
  /\ At(j, "ended")
  /\ Goes(j, AfterCheck(j))
  /\ UNCHANGED <<serverVars, storeVars, restarts>>

\* Mutant: the result is appended twice.
GatheredTwice(b, o) == [all |-> b.all + 2, yes |-> b.yes]
Gathered(b, o) ==
  [all |-> b.all + 1, yes |-> IF o = "yes" THEN b.yes + 1 ELSE b.yes]

AppendResult(j) ==
  /\ At(j, "append")
  /\ partial' = [partial EXCEPT ![j[1]] = Gathered(@, job[j].saw)]
  /\ Goes(j, "count")
  /\ UNCHANGED <<serverVars, counter, errors, result, news, retries, restarts>>

\* Mutant: the last result is not waited for.
AfterCountEarly(n) == IF n > 1 THEN "done" ELSE IF n < 0 THEN "forget" ELSE "gather"
\* decrement_int_value on an absent key gives -1; a negative counter is
\* answered with a refusal.
AfterCount(n) == IF n > 0 THEN "done" ELSE IF n < 0 THEN "forget" ELSE "gather"
Decremented(n) == (IF n = None THEN 0 ELSE n) - 1

Count(j) ==
  LET n == Decremented(counter[j[1]]) IN
  /\ At(j, "count")
  /\ counter' = [counter EXCEPT ![j[1]] = n]
  /\ job' = [job EXCEPT ![j].at = AfterCount(n),
                        ![j].says = IF n < 0 THEN "no" ELSE @]
  /\ UNCHANGED <<serverVars, partial, errors, result, news, retries, restarts>>

\* Mutant: all results must be positive.
PositiveAll(b) == b.yes = b.all
\* At least half of the results must be positive.
Positive(b) == 2 * b.yes >= b.all
Gather(j) ==
  /\ At(j, "gather")
  /\ job' = [job EXCEPT ![j].at = "forget",
                        ![j].says = IF Positive(partial[j[1]]) THEN "yes" ELSE "no"]
  /\ UNCHANGED <<serverVars, storeVars, restarts>>

\* The run is marked as failed.
Report(j) ==
  /\ At(j, "report")
  /\ errors' = errors \cup {j[1]}
  /\ Goes(j, "retry")
  /\ UNCHANGED <<serverVars, counter, partial, result, news, retries, restarts>>

\* store_verification_results of an error: one attempt less.
Retry(j) ==
  LET p == phone[j[1]]
      n == Decremented(retries[p]) IN
  /\ At(j, "retry")
  /\ retries' = [retries EXCEPT ![p] = n]
  /\ job' = [job EXCEPT ![j].at = IF n = 0 THEN "forget" ELSE "clear",
                        ![j].says = IF n = 0 THEN "max" ELSE "error"]
  /\ UNCHANGED <<serverVars, counter, partial, errors, result, news, restarts>>

\* The retries are forgotten after an answer and after the last attempt.
Forget(j) ==
  /\ At(j, "forget")
  /\ retries' = [retries EXCEPT ![phone[j[1]]] = None]
  /\ Goes(j, "clear")
  /\ UNCHANGED <<serverVars, counter, partial, errors, result, news, restarts>>

Clear(j) ==
  /\ At(j, "clear")
  /\ counter' = [counter EXCEPT ![j[1]] = None]
  /\ Goes(j, "drop")
  /\ UNCHANGED <<serverVars, partial, errors, result, news, retries, restarts>>

\* Mutant: only a result that completes the run drops the list.
DroppedBy(j) == IF job[j].says = "yes" THEN Empty ELSE partial[j[1]]
Dropped(j) == Empty
Drop(j) ==
  /\ At(j, "drop")
  /\ partial' = [partial EXCEPT ![j[1]] = Dropped(j)]
  /\ Goes(j, "publish")
  /\ UNCHANGED <<serverVars, counter, errors, result, news, retries, restarts>>

\* The verdict replaces one that is stored; each store is notified.
Publish(j) ==
  /\ At(j, "publish")
  /\ result' = [result EXCEPT ![j[1]] = job[j].says]
  /\ news' = [news EXCEPT ![j[1]] = @ + 1]
  /\ Goes(j, "done")
  /\ UNCHANGED <<serverVars, counter, partial, errors, retries, restarts>>

\* A worker that starts throws away the jobs that wait (worker.py); those
\* that ran ended with the old one.
Restart ==
  /\ restarts > 0
  /\ restarts' = restarts - 1
  /\ job' = [j \in Jobs |-> IF job[j].at \in {"none", "done"} THEN job[j]
                            ELSE [job[j] EXCEPT !.at = "lost"]]
  /\ UNCHANGED <<serverVars, storeVars>>

\* The job's own steps.  The face verify plugin has a copy of verification_job
\* and of store_verification_results, and the openface plugin's result_handling
\* makes the same calls.
JobStep(j) ==
  \/ \E o \in Outcomes : Verify(j, o)
  \/ Break(j)
  \/ Check(j) \/ AppendResult(j) \/ Count(j) \/ Gather(j)
  \/ Report(j) \/ Retry(j) \/ Forget(j)
  \/ Clear(j) \/ Drop(j) \/ Publish(j)

Next ==
  \/ \E p \in Phones, v \in Runs : Ask(p, v)
  \/ Enqueue
  \/ \E v \in Runs : Handle(v)
  \/ \E p \in Phones : Cancel(p)
  \/ \E j \in Jobs : JobStep(j)
  \/ Restart

Spec == Init /\ [][Next]_vars

\* A worker runs, the server's loop turns and Redis notifies; nobody has to
\* ask, cancel or restart.
Fairness ==
  /\ WF_vars(Enqueue)
  /\ \A v \in Runs : WF_vars(Handle(v))
  /\ \A j \in Jobs : WF_vars(JobStep(j))

FairSpec == Spec /\ Fairness

-----------------------------------------------------------------------------
(* Properties.                                                             *)

\* Every sample of a run was processed and at least half were accepted.
Majority(v) ==
  /\ \A i \in Samples : job[<<v, i>>].saw \in {"yes", "no"}
  /\ 2 * Cardinality({i \in Samples : job[<<v, i>>].saw = "yes"}) >= N

\* A positive verdict, in the hands of a job, in the result key or handed to
\* a callback, was gathered from all results of its run: no order in which
\* jobs append, count down, fail and clear makes one from a part of them
\* (verification_job, store_verification_results).
VerdictIsEarned ==
  \A v \in Runs :
    (\/ result[v] = "yes"
     \/ \E i \in Samples : job[<<v, i>>].says = "yes"
     \/ \E w \in Runs : answer[w] = <<v, "yes">>) => Majority(v)

\* When the jobs of a run have ended and their news is handled, nothing of
\* the run is left in Redis or in the server, however the jobs that failed
\* and those that appended late cleared up after each other.
NothingLeft ==
  \A v \in Runs :
    (\A i \in Samples : At(<<v, i>>, "done")) /\ news[v] = 0 =>
      /\ counter[v] = None /\ partial[v] = Empty /\ result[v] = None
      /\ v \notin subscribed

\* A run is answered, whichever of its jobs report a failure, unless the
\* worker is restarted, a job breaks off or another run has taken the plugin's
\* callback.
RunAnswered ==
  \A v \in Runs :
    phone[v] # None ~> (answer[v] # None \/ callback # v \/ restarts < MaxRestarts)

\* What a comment says: the callback executed after a job is that of its run.
AnswersOwn == \A w \in Runs : answer[w] # None => answer[w][1] = w

\* A run is open from its start until its code's callback is called.
Phase(v) ==
  IF phone[v] = None THEN "new"
  ELSE IF v \in subscribed \/ (asking # None /\ asking[1] = v) THEN "open"
  ELSE "over"

V == INSTANCE Verification
     WITH stage <- [v \in Runs |-> Phase(v)], holder <- callback,
          vote <- [j \in Jobs |-> job[j].saw]

\* The jobs, their Redis keys and the notifications do what a verification
\* promises: whatever fails, is late or starts again, a run is told once at
\* most, with a verdict that its samples bear out, a refusal included, and no
\* sample is judged after that (run_verification, verification_job,
\* store_verification_results, _process_probe_results).
ImplementsVerification == V!Spec
=============================================================================
