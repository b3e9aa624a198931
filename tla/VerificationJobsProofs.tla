------------------------ MODULE VerificationJobsProofs ------------------------
(* Proofs about VerificationJobs, for any set of samples and any number of *)
(* phones, runs and restarts: a positive verdict is made from all results, *)
(* and nothing of an ended run is left.                                    *)
EXTENDS VerificationJobs, FiniteSetTheorems, TLAPS

-----------------------------------------------------------------------------
(* The invariant, one run at a time.                                       *)

Stage(v, i) == job[<<v, i>>].at
Saw(v, i)   == job[<<v, i>>].saw
Some(v, S)  == \E i \in Samples : Stage(v, i) \in S

\* Samples that were answered and appended, counted and accepted, as far as
\* one can tell: a job that was lost may have done all of it.
Was(v, i)   == Saw(v, i) \in {"yes", "no"} /\ Stage(v, i) \notin {"ended", "append"}
Appended(v) == {i \in Samples : Was(v, i)}
Counted(v)  == {i \in Appended(v) : Stage(v, i) # "count"}
Accepted(v) == {i \in Appended(v) : Saw(v, i) = "yes"}
Done(v)     == {i \in Samples : Stage(v, i) = "done"}
ToCount(v)  == {i \in Samples : Stage(v, i) = "count"}

\* A run that was not queued yet.
Fresh(v) ==
  /\ \A i \in Samples : Stage(v, i) = "none"
  /\ counter[v] = None /\ partial[v] = Empty /\ result[v] = None
  /\ v \notin errors /\ v \notin subscribed
Unasked(v) == phone[v] = None \/ (asking # None /\ asking[1] = v)

\* What a job has seen at a stage.
Sight(v) ==
  \A i \in Samples :
    /\ Stage(v, i) \in {"none", "queued"} => Saw(v, i) = None
    /\ Stage(v, i) = "ended" => Saw(v, i) # None
    /\ Stage(v, i) \in {"append", "count", "gather"} => Saw(v, i) \in {"yes", "no"}
    /\ Stage(v, i) \in {"report", "retry"} => Saw(v, i) = "error"

\* While the counter is not negative no job has cleared it: it is what the
\* jobs made it, at most one job has found it to be 0, and the jobs that are
\* to clear it are still there.
Counting(v) == counter[v] # None /\ counter[v] >= 0
Final(v, i) == /\ Saw(v, i) \in {"yes", "no"}
               /\ Stage(v, i) \in {"gather", "forget", "clear"}
CounterTrue(v) ==
  Counting(v) =>
    /\ counter[v] + Cardinality(Counted(v)) >= N
    /\ counter[v] + partial[v].all >= N + Cardinality(ToCount(v))
    /\ \A i, k \in Samples : Final(v, i) /\ Final(v, k) => i = k
    /\ ~Some(v, {"drop", "publish"})
    /\ v \notin errors => counter[v] + Cardinality(Done(v)) <= N
    /\ (\E i \in Samples : Final(v, i)) => counter[v] = 0
    /\ counter[v] = 0 => Some(v, {"gather", "forget", "clear", "lost"})
    /\ v \in errors => Some(v, {"retry", "forget", "clear", "lost"})

\* What is in Redis is going to be cleared.
ToClear(v) ==
  /\ Some(v, {"gather"}) => counter[v] = 0
  /\ counter[v] # None /\ counter[v] < 0 => Some(v, {"forget", "clear", "lost"})
  /\ partial[v] # Empty =>
       \/ counter[v] # None /\ counter[v] > 0
       \/ Some(v, {"count", "gather", "forget", "clear", "drop", "lost"})
  /\ result[v] # None => news[v] > 0

PartialTrue(v) ==
  /\ partial[v].yes <= Cardinality(Accepted(v))
  /\ partial[v].all <= Cardinality(Appended(v))

\* A run whose callback was not called yet is going to be answered.
ToAnswer(v) ==
  v \in subscribed /\ news[v] = 0 =>
    /\ Some(v, Stages \ {"done"})
    /\ v \in errors =>
         Some(v, {"retry", "forget", "clear", "drop", "publish", "lost"})

Earned(v) ==
  (\/ result[v] = "yes"
   \/ \E i \in Samples : job[<<v, i>>].says = "yes"
   \/ \E w \in Runs : answer[w] = <<v, "yes">>) => Majority(v)

RunInv(v) ==
  /\ Unasked(v) => Fresh(v)
  /\ Sight(v) /\ CounterTrue(v) /\ ToClear(v) /\ PartialTrue(v)
  /\ ToAnswer(v) /\ Earned(v)

IInv ==
  /\ JobsTypeOK
  /\ asking # None => phone[asking[1]] # None
  /\ \A v \in Runs : RunInv(v)

-----------------------------------------------------------------------------
(* Sets of samples.                                                        *)

One(b) == IF b THEN 1 ELSE 0

\* Sets of samples are finite, and a set of N samples has them all.
LEMMA SampleSets ==
  /\ N \in Nat \ {0}
  /\ \A S \in SUBSET Samples :
       /\ IsFiniteSet(S) /\ Cardinality(S) \in 0..N
       /\ Cardinality(S) = N => S = Samples
<1>1. N \in Nat /\ N # 0
  BY JobConstants, FS_CardinalityType, FS_EmptySet DEF N
<1>2. ASSUME NEW S \in SUBSET Samples
      PROVE  /\ IsFiniteSet(S) /\ Cardinality(S) \in 0..N
             /\ Cardinality(S) = N => S = Samples
  <2>1. IsFiniteSet(S) /\ Cardinality(S) <= N /\ (N = Cardinality(S) => S = Samples)
    BY JobConstants, FS_Subset DEF N
  <2>2. Cardinality(S) \in Nat
    BY <2>1, FS_CardinalityType
  <2> QED BY <1>1, <2>1, <2>2
<1> QED BY <1>1, <1>2

\* Two sets that differ at most in i.
LEMMA OneElement ==
  ASSUME NEW S \in SUBSET Samples, NEW T \in SUBSET Samples, NEW i,
         S \ {i} = T \ {i}
  PROVE  Cardinality(T) = Cardinality(S) + One(i \in T) - One(i \in S)
<1>1. /\ IsFiniteSet(S) /\ Cardinality(S) \in Nat
      /\ IsFiniteSet(T) /\ Cardinality(T) \in Nat
  BY SampleSets
<1>2. Cardinality(S \ {i}) = IF i \in S THEN Cardinality(S) - 1 ELSE Cardinality(S)
  BY <1>1, FS_RemoveElement
<1>3. Cardinality(T \ {i}) = IF i \in T THEN Cardinality(T) - 1 ELSE Cardinality(T)
  BY <1>1, FS_RemoveElement
<1> QED BY <1>1, <1>2, <1>3 DEF One

\* The sets that the invariant counts.
LEMMA Members ==
  ASSUME NEW v \in Runs
  PROVE  /\ Appended(v) \in SUBSET Samples /\ Counted(v) \in SUBSET Samples
         /\ Accepted(v) \in SUBSET Samples /\ Done(v) \in SUBSET Samples
         /\ ToCount(v) \in SUBSET Samples
BY DEF Appended, Counted, Accepted, Done, ToCount

\* When one job of a run goes on, the sets change in that job only.
LEMMA JobMoved ==
  ASSUME NEW v \in Runs, NEW i \in Samples,
         \A k \in Samples \ {i} : job'[<<v, k>>] = job[<<v, k>>]
  PROVE  LET Grows(S, before, after) ==
               /\ Cardinality(S) \in 0..N /\ Cardinality(S)' \in 0..N
               /\ Cardinality(S)' = Cardinality(S) + One(after) - One(before)
         IN  /\ Grows(Appended(v), Was(v, i), Was(v, i)')
             /\ Grows(Counted(v), Was(v, i) /\ Stage(v, i) # "count",
                                  Was(v, i)' /\ Stage(v, i)' # "count")
             /\ Grows(Accepted(v), Was(v, i) /\ Saw(v, i) = "yes",
                                   Was(v, i)' /\ Saw(v, i)' = "yes")
             /\ Grows(Done(v), Stage(v, i) = "done", Stage(v, i)' = "done")
             /\ Grows(ToCount(v), Stage(v, i) = "count", Stage(v, i)' = "count")
<1>1. \A k \in Samples \ {i} :
        Stage(v, k)' = Stage(v, k) /\ Saw(v, k)' = Saw(v, k) /\ (Was(v, k)' <=> Was(v, k))
  BY DEF Stage, Saw, Was
<1>2. /\ Appended(v) \in SUBSET Samples /\ Appended(v)' \in SUBSET Samples
      /\ Appended(v) \ {i} = Appended(v)' \ {i}
      /\ i \in Appended(v) <=> Was(v, i)
      /\ i \in Appended(v)' <=> Was(v, i)'
  BY <1>1 DEF Appended, Was, Stage, Saw
<1>3. /\ Counted(v) \in SUBSET Samples /\ Counted(v)' \in SUBSET Samples
      /\ Counted(v) \ {i} = Counted(v)' \ {i}
      /\ i \in Counted(v) <=> Was(v, i) /\ Stage(v, i) # "count"
      /\ i \in Counted(v)' <=> Was(v, i)' /\ Stage(v, i)' # "count"
  BY <1>1 DEF Counted, Appended, Was, Stage, Saw
<1>4. /\ Accepted(v) \in SUBSET Samples /\ Accepted(v)' \in SUBSET Samples
      /\ Accepted(v) \ {i} = Accepted(v)' \ {i}
      /\ i \in Accepted(v) <=> Was(v, i) /\ Saw(v, i) = "yes"
      /\ i \in Accepted(v)' <=> Was(v, i)' /\ Saw(v, i)' = "yes"
  BY <1>1 DEF Accepted, Appended, Was, Stage, Saw
<1>5. /\ Done(v) \in SUBSET Samples /\ Done(v)' \in SUBSET Samples
      /\ Done(v) \ {i} = Done(v)' \ {i}
      /\ i \in Done(v) <=> Stage(v, i) = "done"
      /\ i \in Done(v)' <=> Stage(v, i)' = "done"
  BY <1>1 DEF Done, Was, Stage, Saw
<1>6. /\ ToCount(v) \in SUBSET Samples /\ ToCount(v)' \in SUBSET Samples
      /\ ToCount(v) \ {i} = ToCount(v)' \ {i}
      /\ i \in ToCount(v) <=> Stage(v, i) = "count"
      /\ i \in ToCount(v)' <=> Stage(v, i)' = "count"
  BY <1>1 DEF ToCount, Was, Stage, Saw
<1> USE SampleSets
<1>7. /\ Cardinality(Appended(v))' = Cardinality(Appended(v)')
      /\ Cardinality(Counted(v))' = Cardinality(Counted(v)')
      /\ Cardinality(Accepted(v))' = Cardinality(Accepted(v)')
      /\ Cardinality(Done(v))' = Cardinality(Done(v)')
      /\ Cardinality(ToCount(v))' = Cardinality(ToCount(v)')
  OBVIOUS
<1> QED BY <1>2, <1>3, <1>4, <1>5, <1>6, <1>7, OneElement DEF One

-----------------------------------------------------------------------------
(* Runs that a step does not touch.                                        *)

SameRun(v) ==
  /\ \A i \in Samples : job'[<<v, i>>] = job[<<v, i>>]
  /\ counter'[v] = counter[v] /\ partial'[v] = partial[v]
  /\ result'[v] = result[v] /\ news'[v] = news[v]
  /\ v \in errors' <=> v \in errors
  /\ v \in subscribed' <=> v \in subscribed

NoMoreAnswers(v) ==
  \A w \in Runs : answer'[w] = <<v, "yes">> => answer[w] = <<v, "yes">>

LEMMA Untouched ==
  ASSUME NEW v \in Runs, RunInv(v), SameRun(v), NoMoreAnswers(v),
         Unasked(v)' => Unasked(v)
  PROVE  RunInv(v)'
<1>1. \A i \in Samples : Stage(v, i)' = Stage(v, i) /\ Saw(v, i)' = Saw(v, i)
  BY DEF SameRun, Stage, Saw
<1>2. \A S : Some(v, S)' <=> Some(v, S)
  BY <1>1 DEF Some
<1>3. /\ Appended(v)' = Appended(v) /\ Counted(v)' = Counted(v)
      /\ Accepted(v)' = Accepted(v) /\ Done(v)' = Done(v)
      /\ ToCount(v)' = ToCount(v)
  BY <1>1 DEF Was, Appended, Counted, Accepted, Done, ToCount
<1>4. Fresh(v) => Fresh(v)'
  BY <1>1 DEF Fresh, SameRun
<1>5. Sight(v)'
  BY <1>1 DEF RunInv, Sight
<1>6. CounterTrue(v)'
  <2>1. CounterTrue(v)
    BY DEF RunInv
  <2>2. \A i \in Samples : Final(v, i)' <=> Final(v, i)
    BY <1>1 DEF Final
  <2> QED BY <1>2, <1>3, <2>1, <2>2 DEF CounterTrue, Counting, SameRun
<1>7. ToClear(v)' /\ PartialTrue(v)' /\ ToAnswer(v)'
  BY <1>2, <1>3 DEF RunInv, ToClear, PartialTrue, ToAnswer, SameRun
<1>8. Majority(v) => Majority(v)'
  BY DEF Majority, SameRun
<1>9. Earned(v)'
  BY <1>8 DEF RunInv, Earned, SameRun, NoMoreAnswers
<1> QED BY <1>4, <1>5, <1>6, <1>7, <1>9 DEF RunInv

\* The server's state is not the jobs'.
LEMMA ServerUntouched ==
  ASSUME UNCHANGED serverVars, NEW v \in Runs
  PROVE  NoMoreAnswers(v) /\ (Unasked(v)' <=> Unasked(v))
BY DEF serverVars, runVars, NoMoreAnswers, Unasked

-----------------------------------------------------------------------------
(* The initial states and the steps of the server.                         *)

LEMMA InitInvariant == Init => IInv
<1> SUFFICES ASSUME Init PROVE IInv
  OBVIOUS
<1>1. JobsTypeOK
  BY SampleSets, JobConstants DEF Init, JobsTypeOK, Jobs, Stages, Empty
<1>2. ASSUME NEW v \in Runs PROVE RunInv(v)
  <2>1. \A i \in Samples : Stage(v, i) = "none" /\ Saw(v, i) = None
                           /\ job[<<v, i>>].says = None
    BY DEF Init, Jobs, Stage, Saw
  <2>2. Fresh(v)
    BY <2>1 DEF Fresh, Init
  <2>3. Sight(v)
    BY <2>1 DEF Sight
  <2>4. CounterTrue(v) /\ ToClear(v) /\ ToAnswer(v)
    BY <2>1, <2>2 DEF Init, Fresh, CounterTrue, Counting, ToClear, ToAnswer, Some
  <2>5. PartialTrue(v)
    BY Members, SampleSets DEF Init, PartialTrue, Empty
  <2>6. None # "yes" /\ None # <<v, "yes">>
    BY NoneIsNoValue DEF Verdicts, Outcomes
  <2>7. \A w \in Runs : result[w] = None /\ answer[w] = None
    BY DEF Init
  <2>8. Earned(v)
    BY <2>1, <2>6, <2>7 DEF Earned
  <2> QED BY <2>2, <2>3, <2>4, <2>5, <2>8 DEF RunInv
<1>3. asking = None
  BY DEF Init
<1> QED BY <1>1, <1>2, <1>3 DEF IInv

LEMMA AskKeeps ==
  ASSUME IInv, NEW p \in Phones, NEW v \in Runs, Ask(p, v)
  PROVE  IInv'
<1>1. JobsTypeOK'
  BY NoneIsNoValue DEF IInv, JobsTypeOK, Ask, storeVars
<1>2. asking' = <<v, retries[p] = None>> /\ phone'[v] = p /\ p # None
  BY JobConstants DEF IInv, JobsTypeOK, Ask
<1>3. ASSUME NEW w \in Runs PROVE RunInv(w)'
  <2>1. Unasked(w)' => Unasked(w)
    BY <1>2 DEF IInv, JobsTypeOK, Ask, Unasked
  <2>2. SameRun(w) /\ NoMoreAnswers(w)
    BY DEF Ask, storeVars, SameRun, NoMoreAnswers
  <2> QED BY <2>1, <2>2, Untouched DEF IInv
<1> QED BY <1>1, <1>2, <1>3 DEF IInv

LEMMA CancelKeeps ==
  ASSUME IInv, NEW p \in Phones, Cancel(p)
  PROVE  IInv'
<1>1. JobsTypeOK'
  BY DEF IInv, JobsTypeOK, Cancel, serverVars, runVars
<1>2. ASSUME NEW w \in Runs PROVE RunInv(w)'
  <2>1. SameRun(w)
    BY DEF Cancel, serverVars, runVars, SameRun
  <2>2. UNCHANGED serverVars
    BY DEF Cancel
  <2> QED BY <2>1, <2>2, ServerUntouched, Untouched DEF IInv
<1> QED BY <1>1, <1>2 DEF IInv, Cancel, serverVars, runVars

\* A run is queued for the first time, so nothing of it was there before.
LEMMA EnqueueKeeps ==
  ASSUME IInv, Enqueue
  PROVE  IInv'
<1> PICK v \in Runs : asking # None /\ v = asking[1]
  BY DEF IInv, JobsTypeOK, Enqueue
<1>1. /\ asking # None /\ v = asking[1] /\ phone[v] # None
      /\ asking' = None /\ phone' = phone /\ answer' = answer
  BY DEF IInv, JobsTypeOK, Enqueue
<1>2. /\ counter' = [counter EXCEPT ![v] = N]
      /\ subscribed' = subscribed \cup {v}
      /\ job' = [j \in Jobs |-> IF j[1] = v THEN [job[j] EXCEPT !.at = "queued"]
                                            ELSE job[j]]
      /\ UNCHANGED <<partial, errors, result, news>>
  BY DEF Enqueue
<1>3. JobsTypeOK'
  <2>1. MaxAttempts \in Int /\ N \in Int
    BY JobConstants, SampleSets
  <2>2. job' \in [Jobs -> [at : Stages, saw : Outcomes \cup {None},
                           says : Verdicts \cup {None}]]
    <3>1. job \in [Jobs -> [at : Stages, saw : Outcomes \cup {None},
                            says : Verdicts \cup {None}]]
      BY DEF IInv, JobsTypeOK
    <3>2. "queued" \in Stages
      BY DEF Stages
    <3> QED BY <1>2, <3>1, <3>2
  <2>3. retries' \in [Phones -> Int \cup {None}]
    BY <2>1 DEF IInv, JobsTypeOK, Enqueue
  <2> QED BY <1>1, <1>2, <2>1, <2>2, <2>3 DEF IInv, JobsTypeOK, Enqueue
<1>4. RunInv(v)'
  <2>1. Fresh(v) /\ Sight(v)
    BY <1>1 DEF IInv, RunInv, Unasked
  <2>2. \A i \in Samples : /\ Stage(v, i) = "none" /\ Stage(v, i)' = "queued"
                           /\ Saw(v, i) = None /\ Saw(v, i)' = None
                           /\ job'[<<v, i>>].says = job[<<v, i>>].says
    BY <1>1, <1>2, <2>1 DEF IInv, JobsTypeOK, Jobs, Fresh, Sight, Stage, Saw
  <2>3. /\ Appended(v)' = {} /\ Accepted(v)' = {} /\ Counted(v)' = {}
        /\ Done(v)' = {} /\ ToCount(v)' = {}
    BY <2>2, NoneIsNoValue
       DEF Was, Appended, Accepted, Counted, Done, ToCount, Verdicts, Outcomes
  <2>4. Cardinality({}) = 0
    BY FS_EmptySet
  <2>5. counter'[v] = N /\ partial'[v] = Empty /\ result'[v] = None /\ v \notin errors'
    BY <1>1, <1>2, <2>1 DEF IInv, JobsTypeOK, Fresh
  <2>6. /\ N \in Nat \ {0} /\ N # None /\ Samples # {}
        /\ None # "yes" /\ None # "no"
    BY SampleSets, JobConstants, NoneIsNoValue DEF Verdicts, Outcomes
  <2>7. Sight(v)'
    BY <2>2 DEF Sight
  <2>8. CounterTrue(v)'
    <3>1. \A i \in Samples : ~Final(v, i)'
      BY <2>2, <2>6 DEF Final
    <3>2. ~Some(v, {"drop", "publish"})'
      BY <2>2 DEF Some
    <3> QED BY <2>3, <2>4, <2>5, <2>6, <3>1, <3>2 DEF CounterTrue, Empty
  <2>9. ToClear(v)' /\ PartialTrue(v)'
    <3>1. ~Some(v, {"gather"})'
      BY <2>2 DEF Some
    <3>2. partial'[v].all = 0 /\ partial'[v].yes = 0
      BY <2>5 DEF Empty
    <3> QED BY <2>3, <2>4, <2>5, <2>6, <3>1, <3>2 DEF ToClear, PartialTrue
  <2>10. ToAnswer(v)'
    BY <2>2, <2>5, <2>6 DEF ToAnswer, Some, Stages
  <2>11. ~Majority(v)
    <3>1. \A i \in Samples : job[<<v, i>>].saw = None
      BY <2>2 DEF Saw
    <3> QED BY <3>1, <2>6, NoneIsNoValue DEF Majority, Verdicts, Outcomes
  <2>12. Earned(v)'
    BY <1>1, <1>2, <2>2, <2>11 DEF IInv, RunInv, Earned
  <2>13. ~Unasked(v)'
    BY <1>1 DEF Unasked
  <2> QED BY <2>7, <2>8, <2>9, <2>10, <2>12, <2>13 DEF RunInv
<1>5. ASSUME NEW w \in Runs \ {v} PROVE RunInv(w)'
  <2>1. SameRun(w)
    BY <1>1, <1>2 DEF IInv, JobsTypeOK, Jobs, SameRun
  <2>2. NoMoreAnswers(w) /\ (Unasked(w)' => Unasked(w))
    BY <1>1 DEF NoMoreAnswers, Unasked
  <2> QED BY <2>1, <2>2, Untouched DEF IInv
<1> QED BY <1>1, <1>3, <1>4, <1>5 DEF IInv

\* The verdict is handed over; the code is forgotten with it.
LEMMA HandleKeeps ==
  ASSUME IInv, NEW v \in Runs, Handle(v)
  PROVE  IInv'
<1>1. JobsTypeOK'
  <2>1. Told(v) \in Verdicts
    BY DEF IInv, JobsTypeOK, Told, Verdicts, Outcomes
  <2>2. news' \in [Runs -> Nat]
    BY DEF IInv, JobsTypeOK, Handle
  <2>3. answer' \in [Runs -> (Runs \X Verdicts) \cup {None}]
    BY <2>1 DEF IInv, JobsTypeOK, Handle
  <2> QED BY <2>2, <2>3 DEF IInv, JobsTypeOK, Handle
<1>2. \A w \in Runs : Unasked(w)' <=> Unasked(w)
  BY DEF Handle, Unasked
<1>3. RunInv(v)'
  <2>1. /\ result'[v] = None /\ v \notin subscribed' /\ job' = job
        /\ UNCHANGED <<counter, partial, errors>>
    BY DEF IInv, JobsTypeOK, Handle
  <2>2. /\ Fresh(v) => Fresh(v)'
        /\ Sight(v)' /\ CounterTrue(v)' /\ PartialTrue(v)'
    <3>1. Fresh(v) => Fresh(v)'
      BY <2>1 DEF Fresh, Stage
    <3>2. /\ Sight(v)' <=> Sight(v)
          /\ PartialTrue(v)' <=> PartialTrue(v)
      BY <2>1 DEF Sight, PartialTrue, Stage, Saw, Was, Appended, Accepted
    <3>3. CounterTrue(v)' <=> CounterTrue(v)
      BY <2>1 DEF CounterTrue, Counting, Some, Final, Stage, Saw, Was, Appended,
                  Counted, Done, ToCount
    <3> QED BY <3>1, <3>2, <3>3 DEF IInv, RunInv
  <2>3. ToClear(v)' /\ ToAnswer(v)'
    BY <2>1 DEF IInv, RunInv, ToClear, ToAnswer, Some, Stage
  <2>4. Majority(v)' <=> Majority(v)
    BY <2>1 DEF Majority
  <2>5. \A w \in Runs : answer'[w] = <<v, "yes">> =>
                          answer[w] = <<v, "yes">> \/ result[v] = "yes"
    BY DEF IInv, JobsTypeOK, Handle, Told
  <2>6. None # "yes"
    BY NoneIsNoValue DEF Verdicts, Outcomes
  <2>7. Earned(v)'
    BY <2>1, <2>4, <2>5, <2>6 DEF IInv, RunInv, Earned
  <2> QED BY <1>2, <2>2, <2>3, <2>7 DEF IInv, RunInv
<1>4. ASSUME NEW w \in Runs \ {v} PROVE RunInv(w)'
  <2>1. SameRun(w)
    BY DEF IInv, JobsTypeOK, Handle, SameRun
  <2>2. NoMoreAnswers(w)
    BY DEF IInv, JobsTypeOK, Handle, NoMoreAnswers
  <2> QED BY <1>2, <2>1, <2>2, Untouched DEF IInv
<1> QED BY <1>1, <1>3, <1>4 DEF IInv, Handle

-----------------------------------------------------------------------------
(* The steps of a job.                                                     *)

\* A stage of another job of the run.
Others(v, i, S) == \E k \in Samples \ {i} : Stage(v, k) \in S

\* What all steps of a job leave alone.
LEMMA JobStepFacts ==
  ASSUME IInv, NEW v \in Runs, NEW i \in Samples, JobStep(<<v, i>>)
  PROVE  /\ UNCHANGED serverVars /\ restarts' \in 0..MaxRestarts /\ ~Unasked(v)'
         /\ \A k \in Samples \ {i} : job'[<<v, k>>] = job[<<v, k>>]
         /\ \A w \in Runs \ {v} : SameRun(w) /\ RunInv(w)'
<1> DEFINE j == <<v, i>>
<1>1. /\ UNCHANGED serverVars
      /\ restarts' = restarts \/ (restarts > 0 /\ restarts' = restarts - 1)
  BY DEF JobStep, Verify, Break, Check, AppendResult, Count, Gather, Report, Retry,
         Forget, Clear, Drop, Publish
<1>7. restarts' \in 0..MaxRestarts
  BY <1>1, JobConstants DEF IInv, JobsTypeOK
<1>2. Stage(v, i) # "none"
  BY DEF JobStep, Verify, Break, Check, AppendResult, Count, Gather, Report, Retry,
         Forget, Clear, Drop, Publish, At, Stage
<1>3. ~Unasked(v)
  BY <1>2 DEF IInv, RunInv, Fresh
<1>4. \A w \in Runs, k \in Samples :
        w # v \/ k # i => job'[<<w, k>>] = job[<<w, k>>]
  <2>1. DOMAIN job = Jobs /\ \A w \in Runs, k \in Samples : <<w, k>> \in Jobs
    BY DEF IInv, JobsTypeOK, Jobs
  <2>2. \A l \in Jobs : l # j => job'[l] = job[l]
    <3>1. CASE (\E o \in Outcomes : Verify(j, o)) \/ Break(j)
      BY <2>1, <3>1 DEF Verify, Break, Goes
    <3>2. CASE Check(j) \/ AppendResult(j) \/ Count(j) \/ Gather(j)
      BY <2>1, <3>2 DEF Check, AppendResult, Count, Gather, Goes
    <3>3. CASE Report(j) \/ Retry(j) \/ Forget(j)
      BY <2>1, <3>3 DEF Report, Retry, Forget, Goes
    <3>4. CASE Clear(j) \/ Drop(j) \/ Publish(j)
      BY <2>1, <3>4 DEF Clear, Drop, Publish, Goes
    <3> QED BY <3>1, <3>2, <3>3, <3>4 DEF JobStep
  <2> QED BY <2>1, <2>2
<1>5. ASSUME NEW w \in Runs \ {v} PROVE SameRun(w) /\ RunInv(w)'
  <2>1. /\ counter'[w] = counter[w] /\ partial'[w] = partial[w]
        /\ result'[w] = result[w] /\ news'[w] = news[w]
        /\ w \in errors' <=> w \in errors
    BY DEF IInv, JobsTypeOK, JobStep, Verify, Break, Check, AppendResult, Count,
           Gather, Report, Retry, Forget, Clear, Drop, Publish, storeVars
  <2>2. SameRun(w)
    BY <1>1, <1>4, <2>1 DEF SameRun, serverVars, runVars
  <2> QED BY <1>1, <2>2, ServerUntouched, Untouched DEF IInv
<1> QED BY <1>1, <1>3, <1>4, <1>5, <1>7, ServerUntouched

\* The stages of a run before and after a step of its job i.
LEMMA SomeMoved ==
  ASSUME NEW v \in Runs, NEW i \in Samples,
         \A k \in Samples \ {i} : job'[<<v, k>>] = job[<<v, k>>]
  PROVE  /\ \A S : /\ Some(v, S) <=> Stage(v, i) \in S \/ Others(v, i, S)
                   /\ Some(v, S)' <=> Stage(v, i)' \in S \/ Others(v, i, S)
         /\ \A k \in Samples \ {i} : /\ Stage(v, k)' = Stage(v, k)
                                     /\ Saw(v, k)' = Saw(v, k)
                                     /\ Final(v, k)' <=> Final(v, k)
BY DEF Some, Others, Stage, Saw, Final

\* A verdict stays earned while no job learns what its algorithm saw.
LEMMA EarnedStays ==
  ASSUME NEW v \in Runs, NEW i \in Samples, Earned(v), UNCHANGED serverVars,
         \A k \in Samples \ {i} : job'[<<v, k>>] = job[<<v, k>>],
         Majority(v) => Saw(v, i)' = Saw(v, i),
         job'[<<v, i>>].says = "yes" => job[<<v, i>>].says = "yes" \/ Majority(v),
         result'[v] = "yes" => result[v] = "yes" \/ Majority(v)
  PROVE  Earned(v)'
<1>1. Majority(v) => Majority(v)'
  <2> SUFFICES ASSUME Majority(v) PROVE Majority(v)'
    OBVIOUS
  <2>1. \A k \in Samples : job'[<<v, k>>].saw = job[<<v, k>>].saw
    BY DEF Saw
  <2> QED BY <2>1 DEF Majority
<1>2. answer' = answer
  BY DEF serverVars
<1> QED BY <1>1, <1>2 DEF Earned

\* The counter stays true while the job does not count down.
LEMMA CounterStays ==
  ASSUME IInv, NEW v \in Runs, NEW i \in Samples, JobStep(<<v, i>>),
         counter'[v] = counter[v], partial'[v].all \in Nat,
         Was(v, i) /\ Stage(v, i) # "count" => Was(v, i)' /\ Stage(v, i)' # "count",
         partial'[v].all - One(Stage(v, i)' = "count")
           >= partial[v].all - One(Stage(v, i) = "count"),
         Final(v, i)' => Final(v, i),
         Counting(v) => Stage(v, i)' \notin {"drop", "publish"},
         Stage(v, i)' = "done" => v \in errors,
         Stage(v, i) \in {"gather", "forget", "clear", "lost"} =>
           Stage(v, i)' \in {"gather", "forget", "clear", "lost"},
         Stage(v, i) \in {"retry", "forget", "clear", "lost"} =>
           Stage(v, i)' \in {"retry", "forget", "clear", "lost"},
         v \in errors => v \in errors',
         v \in errors' => v \in errors \/ Stage(v, i)' = "retry"
  PROVE  CounterTrue(v)'
<1> SUFFICES ASSUME Counting(v)' PROVE CounterTrue(v)'
  BY DEF CounterTrue
<1>1. \A k \in Samples \ {i} : job'[<<v, k>>] = job[<<v, k>>]
  BY JobStepFacts
<1>2. CounterTrue(v) /\ Counting(v) /\ counter[v] \in Int /\ counter'[v] \in Int
      /\ partial[v].all \in Nat /\ N \in Nat
  BY SampleSets DEF IInv, JobsTypeOK, RunInv, Counting
<1>3. /\ \A S : Some(v, S) <=> Stage(v, i) \in S \/ Others(v, i, S)
      /\ \A S : Some(v, S)' <=> Stage(v, i)' \in S \/ Others(v, i, S)
      /\ \A k \in Samples \ {i} : Final(v, k)' <=> Final(v, k)
  BY <1>1, SomeMoved
<1>4. /\ counter'[v] + Cardinality(Counted(v))' >= N
      /\ counter'[v] + partial'[v].all >= N + Cardinality(ToCount(v))'
      /\ v \notin errors' => counter'[v] + Cardinality(Done(v))' <= N
  BY <1>1, <1>2, JobMoved DEF CounterTrue, One
<1>5. /\ \A l, k \in Samples : Final(v, l)' /\ Final(v, k)' => l = k
      /\ (\E k \in Samples : Final(v, k)') => counter'[v] = 0
  BY <1>2, <1>3 DEF CounterTrue
<1>6. /\ ~Some(v, {"drop", "publish"})'
      /\ counter'[v] = 0 => Some(v, {"gather", "forget", "clear", "lost"})'
      /\ v \in errors' => Some(v, {"retry", "forget", "clear", "lost"})'
  BY <1>2, <1>3 DEF CounterTrue
<1> QED BY <1>4, <1>5, <1>6 DEF CounterTrue

\* What is in Redis stays to be cleared while the job has not done so.
LEMMA ToClearStays ==
  ASSUME IInv, NEW v \in Runs, NEW i \in Samples, JobStep(<<v, i>>),
         counter'[v] # counter[v] => /\ counter'[v] = None /\ Stage(v, i)' = "drop"
                                     /\ ~Some(v, {"gather"})',
         Stage(v, i)' = "gather" => Stage(v, i) = "gather",
         Stage(v, i) \in {"forget", "clear", "lost"} =>
           Stage(v, i)' \in {"forget", "clear", "lost"} \/ counter'[v] = None,
         Stage(v, i) \in {"count", "gather", "forget", "clear", "drop", "lost"} =>
           \/ Stage(v, i)' \in {"gather", "forget", "clear", "drop", "lost"}
           \/ partial'[v] = Empty,
         partial'[v] = partial[v] \/ partial'[v] = Empty \/ Stage(v, i)' = "count",
         (result'[v] = result[v] /\ news'[v] = news[v]) \/ news'[v] > 0
  PROVE  ToClear(v)'
<1>1. \A k \in Samples \ {i} : job'[<<v, k>>] = job[<<v, k>>]
  BY JobStepFacts
<1>2. /\ \A S : Some(v, S) <=> Stage(v, i) \in S \/ Others(v, i, S)
      /\ \A S : Some(v, S)' <=> Stage(v, i)' \in S \/ Others(v, i, S)
  BY <1>1, SomeMoved
<1>3. ToClear(v)
  BY DEF IInv, RunInv
<1> QED BY <1>2, <1>3 DEF ToClear

LEMMA ToAnswerStays ==
  ASSUME IInv, NEW v \in Runs, NEW i \in Samples, JobStep(<<v, i>>),
         news'[v] = news[v] \/ news'[v] > 0,
         Stage(v, i)' \in Stages,
         Stage(v, i)' = "done" => v \in errors \/ news'[v] > 0,
         Stage(v, i) \in {"retry", "forget", "clear", "drop", "publish", "lost"} =>
           \/ Stage(v, i)' \in {"retry", "forget", "clear", "drop", "publish", "lost"}
           \/ news'[v] > 0,
         v \in errors' => v \in errors \/ Stage(v, i)' = "retry"
  PROVE  ToAnswer(v)'
<1>1. /\ \A k \in Samples \ {i} : job'[<<v, k>>] = job[<<v, k>>]
      /\ subscribed' = subscribed
  BY JobStepFacts DEF serverVars, runVars
<1>2. /\ \A S : Some(v, S) <=> Stage(v, i) \in S \/ Others(v, i, S)
      /\ \A S : Some(v, S)' <=> Stage(v, i)' \in S \/ Others(v, i, S)
  BY <1>1, SomeMoved
<1>3. Others(v, i, {"retry", "forget", "clear", "drop", "publish", "lost"}) =>
        Others(v, i, Stages \ {"done"})
  BY DEF Others, Stages
<1>4. ToAnswer(v)
  BY DEF IInv, RunInv
<1>5. Stage(v, i)' # "done" => Stage(v, i)' \in Stages \ {"done"}
  OBVIOUS
<1> QED BY <1>1, <1>2, <1>3, <1>4, <1>5 DEF ToAnswer

LEMMA CheckKeeps ==
  ASSUME IInv, NEW v \in Runs, NEW i \in Samples, Check(<<v, i>>)
  PROVE  RunInv(v)'
<1>1. JobStep(<<v, i>>)
  BY DEF JobStep
<1>2. /\ UNCHANGED serverVars /\ ~Unasked(v)'
      /\ \A k \in Samples \ {i} : job'[<<v, k>>] = job[<<v, k>>]
  BY <1>1, JobStepFacts
<1>3. /\ Stage(v, i) = "ended" /\ Stage(v, i)' = AfterCheck(<<v, i>>)
      /\ Saw(v, i)' = Saw(v, i) /\ job'[<<v, i>>].says = job[<<v, i>>].says
      /\ Saw(v, i) \in Outcomes /\ UNCHANGED storeVars
      /\ partial[v].all \in Nat /\ partial[v].yes \in Nat
  BY DEF IInv, RunInv, Sight, JobsTypeOK, Jobs, Check, At, Goes, Stage, Saw
<1>4. Stage(v, i)' = IF v \in errors THEN "done"
                     ELSE IF Saw(v, i) = "error" THEN "report" ELSE "append"
  BY <1>3 DEF AfterCheck, Saw
<1> USE <1>1, <1>2, <1>3, <1>4 DEF storeVars
<1>5. Sight(v)'
  BY SomeMoved DEF IInv, RunInv, Sight, Outcomes
<1>6. CounterTrue(v)'
  BY CounterStays DEF Was, Final, One
<1>7. ToClear(v)' /\ ToAnswer(v)'
  BY ToClearStays, ToAnswerStays DEF Stages
<1>8. PartialTrue(v)'
  BY JobMoved DEF IInv, RunInv, PartialTrue, Was, One
<1>9. Earned(v)'
  BY EarnedStays DEF IInv, RunInv
<1> QED BY <1>5, <1>6, <1>7, <1>8, <1>9 DEF RunInv

LEMMA VerifyKeeps ==
  ASSUME IInv, NEW v \in Runs, NEW i \in Samples, NEW o \in Outcomes,
         Verify(<<v, i>>, o)
  PROVE  RunInv(v)'
<1>1. JobStep(<<v, i>>)
  BY DEF JobStep
<1>2. /\ UNCHANGED serverVars /\ ~Unasked(v)'
      /\ \A k \in Samples \ {i} : job'[<<v, k>>] = job[<<v, k>>]
  BY <1>1, JobStepFacts
<1>3. /\ Stage(v, i) = "queued" /\ Saw(v, i) = None
      /\ Stage(v, i)' = IF v \in errors THEN "done" ELSE "ended"
      /\ Saw(v, i)' = IF v \in errors THEN None ELSE o
      /\ job'[<<v, i>>].says = job[<<v, i>>].says
      /\ UNCHANGED storeVars
      /\ partial[v].all \in Nat /\ partial[v].yes \in Nat
  BY DEF IInv, RunInv, Sight, JobsTypeOK, Jobs, Verify, At, Goes, Stage, Saw
<1>4. None \notin Outcomes
  BY NoneIsNoValue DEF Verdicts
<1>5. ~Majority(v)
  BY <1>3, <1>4 DEF Majority, Saw, Outcomes
<1> USE <1>1, <1>2, <1>3, <1>4, <1>5 DEF storeVars, Outcomes
<1>6. Sight(v)'
  BY SomeMoved DEF IInv, RunInv, Sight, Outcomes
<1>7. CounterTrue(v)'
  BY CounterStays DEF Was, Final, One
<1>8. ToClear(v)' /\ ToAnswer(v)'
  BY ToClearStays, ToAnswerStays DEF Stages
<1>9. PartialTrue(v)'
  BY JobMoved DEF IInv, RunInv, PartialTrue, Was, One
<1>10. Earned(v)'
  BY EarnedStays DEF IInv, RunInv
<1> QED BY <1>2, <1>6, <1>7, <1>8, <1>9, <1>10 DEF RunInv

LEMMA BreakKeeps ==
  ASSUME IInv, NEW v \in Runs, NEW i \in Samples, Break(<<v, i>>)
  PROVE  RunInv(v)'
<1>1. JobStep(<<v, i>>)
  BY DEF JobStep
<1>2. /\ UNCHANGED serverVars /\ ~Unasked(v)'
      /\ \A k \in Samples \ {i} : job'[<<v, k>>] = job[<<v, k>>]
  BY <1>1, JobStepFacts
<1>3. /\ Stage(v, i) = "queued" /\ Saw(v, i) = None
      /\ Stage(v, i)' = "lost" /\ Saw(v, i)' = None
      /\ job'[<<v, i>>].says = job[<<v, i>>].says
      /\ UNCHANGED storeVars
      /\ partial[v].all \in Nat /\ partial[v].yes \in Nat
  BY DEF IInv, RunInv, Sight, JobsTypeOK, Jobs, Break, At, Goes, Stage, Saw
<1>4. None \notin Outcomes
  BY NoneIsNoValue DEF Verdicts
<1> USE <1>1, <1>2, <1>3, <1>4 DEF storeVars, Outcomes
<1>5. Sight(v)'
  BY SomeMoved DEF IInv, RunInv, Sight, Outcomes
<1>6. CounterTrue(v)'
  BY CounterStays DEF Was, Final, One
<1>7. ToClear(v)' /\ ToAnswer(v)'
  BY ToClearStays, ToAnswerStays DEF Stages
<1>8. PartialTrue(v)'
  BY JobMoved DEF IInv, RunInv, PartialTrue, Was, One
<1>9. Earned(v)'
  BY EarnedStays DEF IInv, RunInv
<1> QED BY <1>2, <1>5, <1>6, <1>7, <1>8, <1>9 DEF RunInv

LEMMA AppendResultKeeps ==
  ASSUME IInv, NEW v \in Runs, NEW i \in Samples, AppendResult(<<v, i>>)
  PROVE  RunInv(v)'
<1>1. JobStep(<<v, i>>)
  BY DEF JobStep
<1>2. /\ UNCHANGED serverVars /\ ~Unasked(v)'
      /\ \A k \in Samples \ {i} : job'[<<v, k>>] = job[<<v, k>>]
  BY <1>1, JobStepFacts
<1>3. /\ Stage(v, i) = "append" /\ Stage(v, i)' = "count"
      /\ Saw(v, i)' = Saw(v, i) /\ Saw(v, i) \in {"yes", "no"}
      /\ job'[<<v, i>>].says = job[<<v, i>>].says
      /\ partial'[v] = Gathered(partial[v], Saw(v, i))
      /\ UNCHANGED <<counter, errors, result, news>>
      /\ partial[v].all \in Nat /\ partial[v].yes \in Nat
  BY DEF IInv, RunInv, Sight, JobsTypeOK, Jobs, AppendResult, At, Goes, Stage, Saw
<1>4. /\ partial'[v].all = partial[v].all + 1
      /\ partial'[v].yes = partial[v].yes + One(Saw(v, i) = "yes")
  BY <1>3 DEF Gathered, One
<1> USE <1>1, <1>2, <1>3, <1>4
<1>5. Sight(v)'
  BY SomeMoved DEF IInv, RunInv, Sight, Outcomes
<1>6. CounterTrue(v)'
  BY CounterStays DEF Was, Final, One
<1>7. ToClear(v)' /\ ToAnswer(v)'
  BY ToClearStays, ToAnswerStays DEF Stages
<1>8. PartialTrue(v)'
  BY JobMoved DEF IInv, RunInv, PartialTrue, Was, One
<1>9. Earned(v)'
  BY EarnedStays DEF IInv, RunInv
<1> QED BY <1>2, <1>5, <1>6, <1>7, <1>8, <1>9 DEF RunInv

\* The job that gathers is the last: every sample was answered and counted.
LEMMA GatherLast ==
  ASSUME IInv, NEW v \in Runs, Some(v, {"gather"})
  PROVE  /\ counter[v] = 0 /\ Counting(v)
         /\ Counted(v) = Samples /\ partial[v].all >= N
<1>1. counter[v] = 0 /\ Counting(v) /\ N \in Nat
  BY NoneIsNoValue, SampleSets DEF IInv, RunInv, ToClear, Counting
<1>2. /\ Cardinality(Counted(v)) \in 0..N /\ Cardinality(ToCount(v)) \in 0..N
      /\ Cardinality(Counted(v)) = N => Counted(v) = Samples
  BY Members, SampleSets
<1>3. /\ Cardinality(Counted(v)) >= N
      /\ partial[v].all >= N + Cardinality(ToCount(v)) /\ partial[v].all \in Nat
  BY <1>1, <1>2, SampleSets DEF IInv, JobsTypeOK, RunInv, CounterTrue
<1> QED BY <1>1, <1>2, <1>3

LEMMA GatherKeeps ==
  ASSUME IInv, NEW v \in Runs, NEW i \in Samples, Gather(<<v, i>>)
  PROVE  RunInv(v)'
<1>1. JobStep(<<v, i>>)
  BY DEF JobStep
<1>2. /\ UNCHANGED serverVars /\ ~Unasked(v)'
      /\ \A k \in Samples \ {i} : job'[<<v, k>>] = job[<<v, k>>]
  BY <1>1, JobStepFacts
<1>3. /\ Stage(v, i) = "gather" /\ Stage(v, i)' = "forget"
      /\ Saw(v, i)' = Saw(v, i) /\ Saw(v, i) \in {"yes", "no"}
      /\ job'[<<v, i>>].says = IF Positive(partial[v]) THEN "yes" ELSE "no"
      /\ UNCHANGED storeVars
      /\ partial[v].all \in 0..N /\ partial[v].yes \in 0..N /\ N \in Nat
  BY SampleSets DEF IInv, RunInv, Sight, JobsTypeOK, Jobs, Gather, At, Goes, Stage, Saw
<1>4. Positive(partial[v]) => Majority(v)
  <2>1. Counted(v) = Samples /\ partial[v].all >= N
    BY <1>3, GatherLast DEF Some
  <2>2. /\ \A k \in Samples : Was(v, k)
        /\ Accepted(v) = {k \in Samples : job[<<v, k>>].saw = "yes"}
    BY <2>1 DEF Counted, Appended, Accepted, Saw
  <2>3. partial[v].yes <= Cardinality(Accepted(v)) /\ Cardinality(Accepted(v)) \in 0..N
    BY Members, SampleSets DEF IInv, RunInv, PartialTrue
  <2>4. Positive(partial[v]) => 2 * Cardinality(Accepted(v)) >= N
    BY <1>3, <2>1, <2>3 DEF Positive
  <2> QED BY <2>2, <2>4 DEF Majority, Was, Saw
<1> USE <1>1, <1>2, <1>3, <1>4 DEF storeVars
<1>5. Sight(v)'
  BY SomeMoved DEF IInv, RunInv, Sight, Outcomes
<1>6. CounterTrue(v)'
  BY CounterStays DEF Was, Final, One
<1>7. ToClear(v)' /\ ToAnswer(v)'
  BY ToClearStays, ToAnswerStays DEF Stages
<1>8. PartialTrue(v)'
  BY JobMoved DEF IInv, RunInv, PartialTrue, Was, One
<1>9. Earned(v)'
  BY EarnedStays DEF IInv, RunInv
<1> QED BY <1>2, <1>5, <1>6, <1>7, <1>8, <1>9 DEF RunInv

LEMMA ReportKeeps ==
  ASSUME IInv, NEW v \in Runs, NEW i \in Samples, Report(<<v, i>>)
  PROVE  RunInv(v)'
<1>1. JobStep(<<v, i>>)
  BY DEF JobStep
<1>2. /\ UNCHANGED serverVars /\ ~Unasked(v)'
      /\ \A k \in Samples \ {i} : job'[<<v, k>>] = job[<<v, k>>]
  BY <1>1, JobStepFacts
<1>3. /\ Stage(v, i) = "report" /\ Stage(v, i)' = "retry"
      /\ Saw(v, i)' = Saw(v, i) /\ Saw(v, i) = "error"
      /\ job'[<<v, i>>].says = job[<<v, i>>].says
      /\ errors' = errors \cup {v}
      /\ UNCHANGED <<counter, partial, result, news>>
      /\ partial[v].all \in Nat /\ partial[v].yes \in Nat
  BY DEF IInv, RunInv, Sight, JobsTypeOK, Jobs, Report, At, Goes, Stage, Saw
<1> USE <1>1, <1>2, <1>3
<1>4. Sight(v)'
  BY SomeMoved DEF IInv, RunInv, Sight, Outcomes
<1>5. CounterTrue(v)'
  BY CounterStays DEF Was, Final, One
<1>6. ToClear(v)' /\ ToAnswer(v)'
  BY ToClearStays, ToAnswerStays DEF Stages
<1>7. PartialTrue(v)'
  BY JobMoved DEF IInv, RunInv, PartialTrue, Was, One
<1>8. Earned(v)'
  BY EarnedStays DEF IInv, RunInv
<1> QED BY <1>2, <1>4, <1>5, <1>6, <1>7, <1>8 DEF RunInv

LEMMA RetryKeeps ==
  ASSUME IInv, NEW v \in Runs, NEW i \in Samples, Retry(<<v, i>>)
  PROVE  RunInv(v)'
<1>1. JobStep(<<v, i>>)
  BY DEF JobStep
<1>2. /\ UNCHANGED serverVars /\ ~Unasked(v)'
      /\ \A k \in Samples \ {i} : job'[<<v, k>>] = job[<<v, k>>]
  BY <1>1, JobStepFacts
<1>3. /\ Stage(v, i) = "retry" /\ Stage(v, i)' \in {"forget", "clear"}
      /\ Saw(v, i)' = Saw(v, i) /\ Saw(v, i) = "error"
      /\ job'[<<v, i>>].says \in {"max", "error"}
      /\ UNCHANGED <<counter, partial, errors, result, news>>
      /\ partial[v].all \in Nat /\ partial[v].yes \in Nat
  BY DEF IInv, RunInv, Sight, JobsTypeOK, Jobs, Retry, At, Goes, Stage, Saw
<1> USE <1>1, <1>2, <1>3
<1>4. Sight(v)'
  BY SomeMoved DEF IInv, RunInv, Sight, Outcomes
<1>5. CounterTrue(v)'
  BY CounterStays DEF Was, Final, One
<1>6. ToClear(v)' /\ ToAnswer(v)'
  BY ToClearStays, ToAnswerStays DEF Stages
<1>7. PartialTrue(v)'
  BY JobMoved DEF IInv, RunInv, PartialTrue, Was, One
<1>8. Earned(v)'
  BY EarnedStays DEF IInv, RunInv
<1> QED BY <1>2, <1>4, <1>5, <1>6, <1>7, <1>8 DEF RunInv

LEMMA ForgetKeeps ==
  ASSUME IInv, NEW v \in Runs, NEW i \in Samples, Forget(<<v, i>>)
  PROVE  RunInv(v)'
<1>1. JobStep(<<v, i>>)
  BY DEF JobStep
<1>2. /\ UNCHANGED serverVars /\ ~Unasked(v)'
      /\ \A k \in Samples \ {i} : job'[<<v, k>>] = job[<<v, k>>]
  BY <1>1, JobStepFacts
<1>3. /\ Stage(v, i) = "forget" /\ Stage(v, i)' = "clear"
      /\ Saw(v, i)' = Saw(v, i) /\ job'[<<v, i>>].says = job[<<v, i>>].says
      /\ UNCHANGED <<counter, partial, errors, result, news>>
      /\ partial[v].all \in Nat /\ partial[v].yes \in Nat
  BY DEF IInv, RunInv, Sight, JobsTypeOK, Jobs, Forget, At, Goes, Stage, Saw
<1> USE <1>1, <1>2, <1>3
<1>4. Sight(v)'
  BY SomeMoved DEF IInv, RunInv, Sight, Outcomes
<1>5. CounterTrue(v)'
  BY CounterStays DEF Was, Final, One
<1>6. ToClear(v)' /\ ToAnswer(v)'
  BY ToClearStays, ToAnswerStays DEF Stages
<1>7. PartialTrue(v)'
  BY JobMoved DEF IInv, RunInv, PartialTrue, Was, One
<1>8. Earned(v)'
  BY EarnedStays DEF IInv, RunInv
<1> QED BY <1>2, <1>4, <1>5, <1>6, <1>7, <1>8 DEF RunInv

LEMMA CountKeeps ==
  ASSUME IInv, NEW v \in Runs, NEW i \in Samples, Count(<<v, i>>)
  PROVE  RunInv(v)'
<1>1. JobStep(<<v, i>>)
  BY DEF JobStep
<1>2. /\ UNCHANGED serverVars /\ ~Unasked(v)'
      /\ \A k \in Samples \ {i} : job'[<<v, k>>] = job[<<v, k>>]
  BY <1>1, JobStepFacts
<1> DEFINE n == Decremented(counter[v])
<1>3. /\ Stage(v, i) = "count" /\ Stage(v, i)' = AfterCount(n) /\ counter'[v] = n
      /\ Saw(v, i)' = Saw(v, i) /\ Saw(v, i) \in {"yes", "no"}
      /\ job'[<<v, i>>].says = IF n < 0 THEN "no" ELSE job[<<v, i>>].says
      /\ UNCHANGED <<partial, errors, result, news>>
  BY DEF IInv, RunInv, Sight, JobsTypeOK, Jobs, Count, At, Goes, Stage, Saw
<1>4. /\ counter[v] # None => counter[v] \in Int /\ n = counter[v] - 1
      /\ counter[v] = None => n = -1
      /\ n \in Int /\ n # None
      /\ partial[v].all \in Nat /\ partial[v].yes \in Nat /\ N \in Nat
  BY SampleSets, NoneIsNoValue DEF IInv, JobsTypeOK, Decremented
<1>5. Stage(v, i)' = IF n > 0 THEN "done" ELSE IF n < 0 THEN "forget" ELSE "gather"
  BY <1>3 DEF AfterCount
<1> HIDE DEF n
<1> USE <1>2, <1>3, <1>4, <1>5
<1>6. /\ \A S : Some(v, S) <=> Stage(v, i) \in S \/ Others(v, i, S)
      /\ \A S : Some(v, S)' <=> Stage(v, i)' \in S \/ Others(v, i, S)
      /\ \A k \in Samples \ {i} : /\ Stage(v, k)' = Stage(v, k)
                                  /\ Final(v, k)' <=> Final(v, k)
  BY SomeMoved
<1>7. Sight(v)'
  BY SomeMoved DEF IInv, RunInv, Sight
<1>8. ASSUME Counting(v)' PROVE CounterTrue(v)'
  <2> USE <1>6, <1>8
  <2>1. n >= 0 /\ counter[v] = n + 1 /\ Counting(v) /\ CounterTrue(v)
    BY DEF IInv, RunInv, Counting
  <2>2. /\ counter'[v] + Cardinality(Counted(v))' >= N
        /\ counter'[v] + partial'[v].all >= N + Cardinality(ToCount(v))'
        /\ v \notin errors' => counter'[v] + Cardinality(Done(v))' <= N
    BY <2>1, JobMoved DEF CounterTrue, Was, One
  <2>3. \A k \in Samples : ~Final(v, k)
    BY <2>1 DEF CounterTrue
  <2>4. \A k \in Samples : Final(v, k)' => k = i /\ n = 0
    BY <2>1, <2>3 DEF Final
  <2>5. /\ ~Some(v, {"drop", "publish"})'
        /\ counter'[v] = 0 => Some(v, {"gather", "forget", "clear", "lost"})'
        /\ v \in errors' => Some(v, {"retry", "forget", "clear", "lost"})'
    BY <2>1 DEF CounterTrue
  <2> QED BY <2>2, <2>4, <2>5 DEF CounterTrue
<1>9. CounterTrue(v)'
  BY <1>8 DEF CounterTrue
<1>10. ToClear(v)'
  <2>1. ~Some(v, {"gather"})
    BY GatherLast DEF Counted
  <2>2. Some(v, {"gather"})' => n = 0
    BY <1>6, <2>1
  <2> QED BY <1>6, <2>2 DEF IInv, RunInv, ToClear
<1>11. PartialTrue(v)'
  BY JobMoved DEF IInv, RunInv, PartialTrue, Was, One
<1>12. ToAnswer(v)'
  <2> SUFFICES ASSUME v \in subscribed', news'[v] = 0 PROVE ToAnswer(v)'
    BY DEF ToAnswer
  <2>1. ToAnswer(v) /\ v \in subscribed
    BY DEF IInv, RunInv, serverVars, runVars
  <2>2. v \in errors' =>
          Some(v, {"retry", "forget", "clear", "drop", "publish", "lost"})'
    BY <1>6, <2>1 DEF ToAnswer
  <2>3. \A k \in Samples : Stage(v, k)' \in Stages
    <3>1. \A k \in Samples : Stage(v, k) \in Stages
      BY DEF IInv, JobsTypeOK, Jobs, Stage
    <3> QED BY <1>6, <3>1 DEF Stages
  <2>4. \E k \in Samples : Stage(v, k)' # "done"
    <3>1. CASE v \in errors
      BY <2>2, <3>1 DEF Some
    <3>2. CASE v \notin errors /\ n > 0
      <4>1. Cardinality(Done(v))' < N
        BY <1>9, <3>2, JobMoved DEF CounterTrue, Counting
      <4>2. Done(v)' # Samples
        BY <4>1, SampleSets DEF N
      <4> QED BY <4>2 DEF Done
    <3>3. CASE n <= 0
      BY <3>3
    <3> QED BY <3>1, <3>2, <3>3
  <2>5. Some(v, Stages \ {"done"})'
    BY <2>3, <2>4 DEF Some
  <2> QED BY <2>2, <2>5 DEF ToAnswer
<1>13. Earned(v)'
  BY EarnedStays DEF IInv, RunInv
<1> QED BY <1>7, <1>9, <1>10, <1>11, <1>12, <1>13 DEF RunInv

LEMMA ClearKeeps ==
  ASSUME IInv, NEW v \in Runs, NEW i \in Samples, Clear(<<v, i>>)
  PROVE  RunInv(v)'
<1>1. JobStep(<<v, i>>)
  BY DEF JobStep
<1>2. /\ UNCHANGED serverVars /\ ~Unasked(v)'
      /\ \A k \in Samples \ {i} : job'[<<v, k>>] = job[<<v, k>>]
  BY <1>1, JobStepFacts
<1>3. /\ Stage(v, i) = "clear" /\ Stage(v, i)' = "drop" /\ counter'[v] = None
      /\ Saw(v, i)' = Saw(v, i) /\ job'[<<v, i>>].says = job[<<v, i>>].says
      /\ UNCHANGED <<partial, errors, result, news>>
      /\ partial[v].all \in Nat /\ partial[v].yes \in Nat
  BY DEF IInv, RunInv, Sight, JobsTypeOK, Jobs, Clear, At, Goes, Stage, Saw
<1> USE <1>1, <1>2, <1>3
<1>4. ~Some(v, {"gather"})'
  <2> SUFFICES ASSUME NEW k \in Samples, Stage(v, k)' = "gather" PROVE FALSE
    BY DEF Some
  <2>1. k # i /\ Stage(v, k) = "gather"
    BY SomeMoved
  <2>2. Final(v, k)
    BY <2>1 DEF IInv, RunInv, Sight, Final
  <2>3. Counted(v) = Samples /\ Counting(v)
    BY <2>1, GatherLast DEF Some
  <2>4. Final(v, i)
    BY <2>3 DEF Counted, Appended, Was, Final
  <2> QED BY <2>1, <2>2, <2>3, <2>4 DEF IInv, RunInv, CounterTrue
<1>5. Sight(v)'
  BY SomeMoved DEF IInv, RunInv, Sight
<1>6. CounterTrue(v)'
  BY DEF CounterTrue, Counting
<1>7. ToClear(v)' /\ ToAnswer(v)'
  BY <1>4, ToClearStays, ToAnswerStays DEF Stages
<1>8. PartialTrue(v)'
  BY JobMoved DEF IInv, RunInv, PartialTrue, Was, One
<1>9. Earned(v)'
  BY EarnedStays DEF IInv, RunInv
<1> QED BY <1>2, <1>5, <1>6, <1>7, <1>8, <1>9 DEF RunInv

LEMMA DropKeeps ==
  ASSUME IInv, NEW v \in Runs, NEW i \in Samples, Drop(<<v, i>>)
  PROVE  RunInv(v)'
<1>1. JobStep(<<v, i>>)
  BY DEF JobStep
<1>2. /\ UNCHANGED serverVars /\ ~Unasked(v)'
      /\ \A k \in Samples \ {i} : job'[<<v, k>>] = job[<<v, k>>]
  BY <1>1, JobStepFacts
<1>3. /\ Stage(v, i) = "drop" /\ Stage(v, i)' = "publish" /\ partial'[v] = Empty
      /\ Saw(v, i)' = Saw(v, i) /\ job'[<<v, i>>].says = job[<<v, i>>].says
      /\ UNCHANGED <<counter, errors, result, news>>
  BY DEF IInv, RunInv, Sight, JobsTypeOK, Jobs, Drop, Dropped, At, Goes, Stage, Saw
<1> USE <1>1, <1>2, <1>3
<1>4. Sight(v)'
  BY SomeMoved DEF IInv, RunInv, Sight
<1>5. CounterTrue(v)'
  BY DEF IInv, RunInv, CounterTrue, Counting, Some
<1>6. ToClear(v)' /\ ToAnswer(v)'
  BY ToClearStays, ToAnswerStays DEF Stages
<1>7. PartialTrue(v)'
  <2>1. Cardinality(Accepted(v))' \in Nat /\ Cardinality(Appended(v))' \in Nat
    BY SampleSets, JobMoved
  <2> QED BY <2>1 DEF PartialTrue, Empty
<1>8. Earned(v)'
  BY EarnedStays DEF IInv, RunInv
<1> QED BY <1>2, <1>4, <1>5, <1>6, <1>7, <1>8 DEF RunInv

LEMMA PublishKeeps ==
  ASSUME IInv, NEW v \in Runs, NEW i \in Samples, Publish(<<v, i>>)
  PROVE  RunInv(v)'
<1>1. JobStep(<<v, i>>)
  BY DEF JobStep
<1>2. /\ UNCHANGED serverVars /\ ~Unasked(v)'
      /\ \A k \in Samples \ {i} : job'[<<v, k>>] = job[<<v, k>>]
  BY <1>1, JobStepFacts
<1>3. /\ Stage(v, i) = "publish" /\ Stage(v, i)' = "done"
      /\ result'[v] = job[<<v, i>>].says /\ news'[v] > 0
      /\ Saw(v, i)' = Saw(v, i) /\ job'[<<v, i>>].says = job[<<v, i>>].says
      /\ UNCHANGED <<counter, partial, errors>>
      /\ partial[v].all \in Nat /\ partial[v].yes \in Nat
  BY DEF IInv, RunInv, Sight, JobsTypeOK, Jobs, Publish, At, Goes, Stage, Saw
<1> USE <1>1, <1>2, <1>3
<1>4. Sight(v)'
  BY SomeMoved DEF IInv, RunInv, Sight
<1>5. CounterTrue(v)'
  BY DEF IInv, RunInv, CounterTrue, Counting, Some
<1>6. ToClear(v)' /\ ToAnswer(v)'
  BY ToClearStays, ToAnswerStays DEF Stages
<1>7. PartialTrue(v)'
  BY JobMoved DEF IInv, RunInv, PartialTrue, Was, One
<1>8. Earned(v)'
  <2>1. Earned(v) /\ (job[<<v, i>>].says = "yes" => Majority(v))
    BY DEF IInv, RunInv, Earned
  <2> QED BY <2>1, EarnedStays
<1> QED BY <1>2, <1>4, <1>5, <1>6, <1>7, <1>8 DEF RunInv

\* Types, once the list of results is known not to outgrow the samples.
LEMMA JobStepTypes ==
  ASSUME IInv, NEW v \in Runs, NEW i \in Samples, JobStep(<<v, i>>)
  PROVE  JobsTypeOK'
<1> DEFINE j == <<v, i>>
           JobSet == [at : Stages, saw : Outcomes \cup {None},
                      says : Verdicts \cup {None}]
           Lists == [all : 0..N, yes : 0..N]
<1>1. JobsTypeOK /\ j \in Jobs /\ job \in [Jobs -> JobSet] /\ N \in Nat \ {0}
  BY SampleSets DEF IInv, JobsTypeOK, Jobs
<1>2. UNCHANGED serverVars /\ restarts' \in 0..MaxRestarts
  BY JobStepFacts
<1>3. {"no", "yes", "error", "max"} \subseteq Verdicts
  BY DEF Verdicts, Outcomes
<1>4. /\ \A n \in Int : AfterCount(n) \in {"done", "forget", "gather"}
      /\ \A n \in Int \cup {None} : Decremented(n) \in Int
      /\ AfterCheck(j) \in {"done", "report", "append"}
  BY DEF AfterCount, Decremented, AfterCheck
<1>5. {"done", "ended", "report", "append", "count", "gather", "forget", "clear", "retry",
       "drop", "publish", "lost"} \subseteq Stages
  BY DEF Stages
<1>6. SUFFICES /\ job' \in [Jobs -> JobSet]
               /\ counter' \in [Runs -> Int \cup {None}]
               /\ partial' \in [Runs -> Lists]
               /\ errors' \subseteq Runs
               /\ result' \in [Runs -> Verdicts \cup {None}]
               /\ news' \in [Runs -> Nat]
               /\ retries' \in [Phones -> Int \cup {None}]
  BY <1>1, <1>2 DEF JobsTypeOK, serverVars, runVars
<1> USE <1>1, <1>3, <1>4, <1>5
<1>7. ASSUME NEW o \in Outcomes, Verify(j, o)
      PROVE  job' \in [Jobs -> JobSet] /\ UNCHANGED storeVars
  BY <1>7 DEF Verify
<1>18. ASSUME Break(j)
       PROVE  job' \in [Jobs -> JobSet] /\ UNCHANGED storeVars
  BY <1>18 DEF Break, Goes
<1>8. ASSUME Check(j)
      PROVE  job' \in [Jobs -> JobSet] /\ UNCHANGED storeVars
  BY <1>8 DEF Check, Goes
<1>9. ASSUME AppendResult(j)
      PROVE  /\ job' \in [Jobs -> JobSet] /\ partial' \in [Runs -> Lists]
             /\ UNCHANGED <<counter, errors, result, news, retries>>
  <2>1. partial \in [Runs -> Lists]
    BY DEF JobsTypeOK
  <2>2. partial[v].all + 1 <= N
    <3>1. Stage(v, i) = "append" /\ Stage(v, i)' = "count"
          /\ Saw(v, i)' = Saw(v, i) /\ Saw(v, i) \in {"yes", "no"}
      BY <1>9 DEF AppendResult, At, Goes, Stage, Saw, IInv, RunInv, Sight
    <3>2. Cardinality(Appended(v))' = Cardinality(Appended(v)) + 1
          /\ Cardinality(Appended(v))' \in 0..N /\ Cardinality(Appended(v)) \in 0..N
      BY <3>1, JobStepFacts, JobMoved DEF Was, One
    <3>3. partial[v].all <= Cardinality(Appended(v)) /\ partial[v].all \in 0..N
      BY <2>1 DEF IInv, RunInv, PartialTrue
    <3> QED BY <3>2, <3>3
  <2>3. partial[v].yes + 1 <= N
    <3>1. i \notin Accepted(v) /\ i \in Samples
      BY <1>9 DEF AppendResult, At, Stage, Accepted, Appended, Was
    <3>2. Cardinality(Accepted(v)) \in 0..N /\ Cardinality(Accepted(v)) # N
      <4>1. Accepted(v) \in SUBSET Samples /\ Accepted(v) # Samples
        BY <3>1, Members
      <4> QED BY <4>1, SampleSets
    <3>3. partial[v].yes <= Cardinality(Accepted(v)) /\ partial[v].yes \in 0..N
      BY <2>1 DEF IInv, RunInv, PartialTrue
    <3> QED BY <3>2, <3>3
  <2>4. Gathered(partial[v], job[j].saw) \in Lists
    BY <2>1, <2>2, <2>3 DEF Gathered
  <2> QED BY <1>9, <2>1, <2>4 DEF AppendResult, Goes
<1>10. ASSUME Count(j)
       PROVE  /\ job' \in [Jobs -> JobSet] /\ counter' \in [Runs -> Int \cup {None}]
              /\ UNCHANGED <<partial, errors, result, news, retries>>
  <2>1. counter \in [Runs -> Int \cup {None}]
    BY DEF JobsTypeOK
  <2>2. Decremented(counter[v]) \in Int /\ AfterCount(Decremented(counter[v])) \in Stages
    BY <2>1
  <2> QED BY <1>10, <2>1, <2>2 DEF Count
<1>11. ASSUME Gather(j)
       PROVE  job' \in [Jobs -> JobSet] /\ UNCHANGED storeVars
  BY <1>11 DEF Gather
<1>12. ASSUME Report(j)
       PROVE  /\ job' \in [Jobs -> JobSet] /\ errors' \subseteq Runs
              /\ UNCHANGED <<counter, partial, result, news, retries>>
  BY <1>12 DEF Report, Goes, JobsTypeOK
<1>13. ASSUME Retry(j)
       PROVE  /\ job' \in [Jobs -> JobSet] /\ retries' \in [Phones -> Int \cup {None}]
              /\ UNCHANGED <<counter, partial, errors, result, news>>
  <2>1. retries \in [Phones -> Int \cup {None}]
    BY DEF JobsTypeOK
  <2>2. \A p \in Phones : Decremented(retries[p]) \in Int
    BY <2>1
  <2>3. retries' \in [Phones -> Int \cup {None}]
    BY <1>13, <2>1, <2>2 DEF Retry
  <2>4. job' \in [Jobs -> JobSet]
    BY <1>13 DEF Retry
  <2> QED BY <1>13, <2>3, <2>4 DEF Retry
<1>14. ASSUME Forget(j)
       PROVE  /\ job' \in [Jobs -> JobSet] /\ retries' \in [Phones -> Int \cup {None}]
              /\ UNCHANGED <<counter, partial, errors, result, news>>
  BY <1>14 DEF Forget, Goes, JobsTypeOK
<1>15. ASSUME Clear(j)
       PROVE  /\ job' \in [Jobs -> JobSet] /\ counter' \in [Runs -> Int \cup {None}]
              /\ UNCHANGED <<partial, errors, result, news, retries>>
  BY <1>15 DEF Clear, Goes, JobsTypeOK
<1>16. ASSUME Drop(j)
       PROVE  /\ job' \in [Jobs -> JobSet] /\ partial' \in [Runs -> Lists]
              /\ UNCHANGED <<counter, errors, result, news, retries>>
  <2>1. Empty \in Lists /\ partial \in [Runs -> Lists]
    BY DEF Empty, JobsTypeOK
  <2> QED BY <1>16, <2>1 DEF Drop, Dropped, Goes
<1>17. ASSUME Publish(j)
       PROVE  /\ job' \in [Jobs -> JobSet] /\ result' \in [Runs -> Verdicts \cup {None}]
              /\ news' \in [Runs -> Nat]
              /\ UNCHANGED <<counter, partial, errors, retries>>
  <2>1. /\ result \in [Runs -> Verdicts \cup {None}] /\ news \in [Runs -> Nat]
        /\ job[j].says \in Verdicts \cup {None}
    BY DEF JobsTypeOK
  <2>2. job' \in [Jobs -> JobSet]
    BY <1>17 DEF Publish, Goes
  <2> QED BY <1>17, <2>1, <2>2 DEF Publish
<1> QED BY <1>7, <1>8, <1>9, <1>10, <1>11, <1>12, <1>13, <1>14, <1>15, <1>16, <1>17,
           <1>18 DEF JobStep, JobsTypeOK, storeVars

LEMMA JobStepKeeps ==
  ASSUME IInv, NEW v \in Runs, NEW i \in Samples, JobStep(<<v, i>>)
  PROVE  IInv'
<1>1. JobsTypeOK'
  BY JobStepTypes
<1>2. RunInv(v)'
  BY VerifyKeeps, BreakKeeps, CheckKeeps, AppendResultKeeps, CountKeeps, GatherKeeps, ReportKeeps,
     RetryKeeps, ForgetKeeps, ClearKeeps, DropKeeps, PublishKeeps DEF JobStep
<1>3. /\ UNCHANGED serverVars
      /\ \A w \in Runs \ {v} : RunInv(w)'
  BY JobStepFacts
<1> QED BY <1>1, <1>2, <1>3 DEF IInv, serverVars, runVars

-----------------------------------------------------------------------------
(* A restart.                                                              *)

LEMMA RestartKeeps ==
  ASSUME IInv, Restart
  PROVE  IInv'
<1>1. UNCHANGED <<serverVars, storeVars>>
  BY DEF Restart
<1>2. JobsTypeOK'
  <2>1. job' \in [Jobs -> [at : Stages, saw : Outcomes \cup {None},
                           says : Verdicts \cup {None}]]
    <3>1. /\ job \in [Jobs -> [at : Stages, saw : Outcomes \cup {None},
                               says : Verdicts \cup {None}]]
          /\ "lost" \in Stages
      BY DEF IInv, JobsTypeOK, Stages
    <3> QED BY <3>1 DEF Restart
  <2>2. restarts' \in 0..MaxRestarts
    BY JobConstants DEF IInv, JobsTypeOK, Restart
  <2> QED BY <1>1, <2>1, <2>2 DEF IInv, JobsTypeOK, serverVars, runVars, storeVars
<1>3. ASSUME NEW v \in Runs PROVE RunInv(v)'
  <2>1. \A i \in Samples :
          /\ Stage(v, i)' = IF Stage(v, i) \in {"none", "done"} THEN Stage(v, i)
                            ELSE "lost"
          /\ Saw(v, i)' = Saw(v, i) /\ job'[<<v, i>>].says = job[<<v, i>>].says
    BY <1>3 DEF IInv, JobsTypeOK, Jobs, Restart, Stage, Saw
  <2>2. UNCHANGED <<phone, asking, subscribed, answer, counter, partial, errors,
                    result, news>>
    BY <1>1 DEF serverVars, runVars, storeVars
  <2>3. /\ \A i \in Samples : ~Final(v, i)'
        /\ ~Some(v, {"gather"})' /\ ~Some(v, {"drop", "publish"})'
        /\ Sight(v)'
    BY <2>1 DEF IInv, RunInv, Final, Some, Sight
  <2>4. Unasked(v)' => Fresh(v)'
    BY <2>1, <2>2 DEF IInv, RunInv, Unasked, Fresh
  <2>5. ASSUME NEW S, Some(v, S), "none" \notin S, "done" \notin S
        PROVE  \E i \in Samples : Stage(v, i)' = "lost"
    BY <2>1, <2>5 DEF Some
  <2>6. /\ Cardinality(Appended(v)) <= Cardinality(Appended(v))'
        /\ Cardinality(Counted(v)) <= Cardinality(Counted(v))'
        /\ Cardinality(Accepted(v)) <= Cardinality(Accepted(v))'
        /\ Cardinality(Done(v)) = Cardinality(Done(v))'
        /\ Cardinality(ToCount(v))' = 0
    <3>1. /\ Appended(v) \in SUBSET Appended(v)'
          /\ Counted(v) \in SUBSET Counted(v)' /\ Accepted(v) \in SUBSET Accepted(v)'
          /\ Done(v)' = Done(v) /\ ToCount(v)' = {}
      BY <2>1 DEF Appended, Counted, Accepted, Was, Done, ToCount
    <3>2. /\ IsFiniteSet(Appended(v)') /\ IsFiniteSet(Counted(v)')
          /\ IsFiniteSet(Accepted(v)')
      BY SampleSets DEF Appended, Counted, Accepted
    <3> QED BY <3>1, <3>2, FS_Subset, FS_EmptySet
  <2>7. /\ Cardinality(Appended(v)) \in Nat /\ Cardinality(Appended(v))' \in Nat
        /\ Cardinality(Counted(v)) \in Nat /\ Cardinality(Counted(v))' \in Nat
        /\ Cardinality(Accepted(v)) \in Nat /\ Cardinality(Accepted(v))' \in Nat
        /\ Cardinality(ToCount(v)) \in Nat /\ N \in Nat
    BY SampleSets DEF Appended, Counted, Accepted, ToCount
  <2>8. CounterTrue(v)'
    <3> SUFFICES ASSUME Counting(v)' PROVE CounterTrue(v)'
      BY DEF CounterTrue
    <3>1. CounterTrue(v) /\ Counting(v) /\ counter[v] \in Int /\ partial[v].all \in Nat
      BY <1>3, <2>2 DEF IInv, JobsTypeOK, RunInv, Counting
    <3>2. /\ counter'[v] + Cardinality(Counted(v))' >= N
          /\ counter'[v] + partial'[v].all >= N + Cardinality(ToCount(v))'
          /\ v \notin errors' => counter'[v] + Cardinality(Done(v))' <= N
      BY <2>2, <2>6, <2>7, <3>1 DEF CounterTrue
    <3>3. /\ counter'[v] = 0 => Some(v, {"gather", "forget", "clear", "lost"})'
          /\ v \in errors' => Some(v, {"retry", "forget", "clear", "lost"})'
      BY <2>1, <2>2, <3>1 DEF CounterTrue, Some
    <3> QED BY <2>3, <3>2, <3>3 DEF CounterTrue
  <2>9. ToClear(v)' /\ ToAnswer(v)'
    BY <2>1, <2>2, <2>3 DEF IInv, RunInv, ToClear, ToAnswer, Some, Stages
  <2>10. PartialTrue(v)'
    BY <2>2, <2>6, <2>7 DEF IInv, JobsTypeOK, RunInv, PartialTrue
  <2>11. Majority(v)' <=> Majority(v)
    BY <2>1 DEF Majority, Saw
  <2>12. Earned(v)'
    BY <2>1, <2>2, <2>11 DEF IInv, RunInv, Earned
  <2> QED BY <2>3, <2>4, <2>8, <2>9, <2>10, <2>12 DEF RunInv
<1> QED BY <1>1, <1>2, <1>3 DEF IInv, serverVars, runVars

-----------------------------------------------------------------------------
(* Results.                                                                *)

LEMMA StepInvariant == IInv /\ [Next]_vars => IInv'
<1> SUFFICES ASSUME IInv, [Next]_vars PROVE IInv'
  OBVIOUS
<1>1. CASE \E p \in Phones, v \in Runs : Ask(p, v)
  BY <1>1, AskKeeps
<1>2. CASE Enqueue
  BY <1>2, EnqueueKeeps
<1>3. CASE \E v \in Runs : Handle(v)
  BY <1>3, HandleKeeps
<1>4. CASE \E p \in Phones : Cancel(p)
  BY <1>4, CancelKeeps
<1>5. CASE \E j \in Jobs : JobStep(j)
  BY <1>5, JobStepKeeps DEF Jobs
<1>6. CASE Restart
  BY <1>6, RestartKeeps
<1>7. CASE UNCHANGED vars
  <2>1. ASSUME NEW v \in Runs PROVE RunInv(v)'
    BY <1>7, Untouched DEF IInv, vars, serverVars, runVars, storeVars, SameRun,
                           NoMoreAnswers, Unasked
  <2>2. JobsTypeOK'
    BY <1>7 DEF IInv, vars, serverVars, runVars, storeVars, JobsTypeOK
  <2> QED BY <1>7, <2>1, <2>2 DEF IInv, vars, serverVars, runVars
<1> QED BY <1>1, <1>2, <1>3, <1>4, <1>5, <1>6, <1>7 DEF Next

LEMMA Invariant == Spec => []IInv
BY InitInvariant, StepInvariant, PTL DEF Spec

\* The types of run_verification's state hold throughout; in particular the
\* list of results never grows beyond one result per sample.
THEOREM JobsTyped == Spec => []JobsTypeOK
<1>1. IInv => JobsTypeOK
  BY DEF IInv
<1> QED BY <1>1, Invariant, PTL

\* A positive verdict is made from the results of all samples of its run, at
\* least half of them positive, in every interleaving of the jobs with each
\* other, with the server and with restarts of the worker.
THEOREM VerdictsAreEarned == Spec => []VerdictIsEarned
<1>1. IInv => VerdictIsEarned
  BY DEF IInv, RunInv, Earned, VerdictIsEarned
<1> QED BY <1>1, Invariant, PTL

\* When the jobs of a run have ended and their news is handled, nothing of it
\* is left in Redis or in the server.
THEOREM NothingIsLeft == Spec => []NothingLeft
<1>1. IInv => NothingLeft
  <2> SUFFICES ASSUME IInv, NEW v \in Runs, \A i \in Samples : At(<<v, i>>, "done"),
                      news[v] = 0
               PROVE  /\ counter[v] = None /\ partial[v] = Empty /\ result[v] = None
                      /\ v \notin subscribed
    BY DEF NothingLeft
  <2>1. \A i \in Samples : Stage(v, i) = "done"
    BY DEF At, Stage
  <2>2. ASSUME NEW S, "done" \notin S PROVE ~Some(v, S)
    BY <2>1, <2>2 DEF Some
  <2>3. Cardinality(Done(v)) = N /\ N \in Nat
    <3>1. Done(v) = Samples
      BY <2>1 DEF Done
    <3> QED BY <3>1, SampleSets DEF N
  <2>4. counter[v] = None
    <3> SUFFICES ASSUME counter[v] # None PROVE FALSE
      OBVIOUS
    <3>1. counter[v] \in Int
      BY DEF IInv, JobsTypeOK
    <3>2. counter[v] >= 0
      BY <2>1, <3>1 DEF IInv, RunInv, ToClear, Some
    <3>3. counter[v] # 0 /\ counter[v] + Cardinality(Done(v)) <= N
      BY <2>1, <3>2 DEF IInv, RunInv, CounterTrue, Counting, Some
    <3> QED BY <2>3, <3>1, <3>2, <3>3
  <2>5. partial[v] = Empty /\ result[v] = None
    BY <2>1, <2>4 DEF IInv, RunInv, ToClear, Some
  <2>6. v \notin subscribed
    BY <2>1 DEF IInv, RunInv, ToAnswer, Some
  <2> QED BY <2>4, <2>5, <2>6
<1> QED BY <1>1, Invariant, PTL
-----------------------------------------------------------------------------
(* The refinement.  Every verdict is borne out by the samples, and whoever *)
(* decides one knows of an error or has all samples counted.               *)

Says(v, i)  == job[<<v, i>>].says
Late        == {"forget", "clear", "drop", "publish"}
Refused(v)  == {i \in Appended(v) : Saw(v, i) = "no"}
Over(v)     == ~Unasked(v) /\ v \notin subscribed
Grounds(v)  == v \in errors \/ Counted(v) = Samples
Decided(v)  == \/ Some(v, Late) \/ news[v] > 0 \/ Over(v)
               \/ ~Unasked(v) /\ ~Counting(v)

Borne(v) ==
  /\ Unasked(v) => news[v] = 0
  /\ v \in errors => \E i \in Samples : Saw(v, i) = "error"
  /\ Some(v, {"retry"}) => v \in errors
  /\ Decided(v) => Grounds(v)
  /\ partial[v].all - partial[v].yes <= Cardinality(Refused(v))
  /\ \A i \in Samples : /\ Stage(v, i) \in Late => Says(v, i) # None
                        /\ Says(v, i) # None => V!BornOut(v, Says(v, i))
  /\ result[v] # None => V!BornOut(v, result[v])
  /\ v \in subscribed /\ news[v] > 0 => result[v] # None

\* The plugin holds a callback once a run was asked for.
Held == \A v \in Runs : phone[v] # None => callback # None

VInv == Held /\ \A v \in Runs : Borne(v)

\* The abstract module counts as this one does.
LEMMA SameCardinality == \A S : V!Cardinality(S) = Cardinality(S)
BY DEF V!Cardinality, Cardinality, V!IsFiniteSet, IsFiniteSet

\* The abstract votes are what the jobs have seen.
LEMMA VotesSeen ==
  ASSUME NEW v \in Runs, NEW o
  PROVE  V!Judged(v, o) = {i \in Samples : Saw(v, i) = o}
BY DEF V!Judged, Jobs, Saw

LEMMA VotesSeenNext ==
  ASSUME NEW v \in Runs, NEW o
  PROVE  V!Judged(v, o)' = {i \in Samples : Saw(v, i)' = o}
BY DEF V!Judged, Jobs, Saw

\* A verdict that is borne out stays so while votes are only added.
LEMMA BornOutStays ==
  ASSUME NEW v \in Runs, NEW x, V!BornOut(v, x),
         \A i \in Samples : Saw(v, i) # None => Saw(v, i)' = Saw(v, i)
  PROVE  V!BornOut(v, x)'
<1>1. None \notin {"yes", "no", "error"}
  BY NoneIsNoValue DEF Verdicts, Outcomes
<1>2. ASSUME V!Complete(v)
      PROVE  /\ V!Complete(v)' /\ V!Judged(v, "yes")' = V!Judged(v, "yes")
  <2>1. \A i \in Samples : Saw(v, i)' = Saw(v, i)
    BY <1>1, <1>2, VotesSeen DEF V!Complete
  <2>2. /\ V!Judged(v, "yes")' = V!Judged(v, "yes")
        /\ V!Judged(v, "no")' = V!Judged(v, "no")
    BY <2>1, VotesSeen, VotesSeenNext
  <2> QED BY <1>2, <2>2 DEF V!Complete
<1>3. V!Judged(v, "error") # {} => V!Judged(v, "error")' # {}
  BY <1>1, VotesSeen, VotesSeenNext
<1> QED BY <1>2, <1>3 DEF V!BornOut, V!Accepted

\* What is borne out: a refusal or an error by a sample beyond the algorithm.
LEMMA ErrorBears ==
  ASSUME NEW v \in Runs, NEW i \in Samples, Saw(v, i)' = "error",
         NEW x \in {"no", "error", "max"}
  PROVE  V!BornOut(v, x)'
BY VotesSeenNext DEF V!BornOut

\* When one job goes on, the refusals change in that job only.
LEMMA RefusedMoved ==
  ASSUME NEW v \in Runs, NEW i \in Samples,
         \A k \in Samples \ {i} : job'[<<v, k>>] = job[<<v, k>>]
  PROVE  /\ Cardinality(Refused(v)) \in Nat /\ Cardinality(Refused(v))' \in Nat
         /\ Cardinality(Refused(v))' = Cardinality(Refused(v))
              + One(Was(v, i) /\ Saw(v, i) = "no")' - One(Was(v, i) /\ Saw(v, i) = "no")
<1>1. /\ Refused(v) \in SUBSET Samples /\ Refused(v)' \in SUBSET Samples
      /\ Refused(v) \ {i} = Refused(v)' \ {i}
      /\ i \in Refused(v) <=> Was(v, i) /\ Saw(v, i) = "no"
      /\ i \in Refused(v)' <=> (Was(v, i) /\ Saw(v, i) = "no")'
  BY DEF Refused, Appended, Was, Stage, Saw
<1>2. /\ Cardinality(Refused(v))' = Cardinality(Refused(v)')
      /\ Cardinality(Refused(v)) \in Nat /\ Cardinality(Refused(v)') \in Nat
  BY <1>1, SampleSets
<1> QED BY <1>1, <1>2, OneElement DEF One

\* A run that a step does not touch keeps its verdicts borne out.
LEMMA BorneUntouched ==
  ASSUME NEW v \in Runs, Borne(v), SameRun(v), Unasked(v)' <=> Unasked(v)
  PROVE  Borne(v)'
<1>1. \A i \in Samples : /\ Stage(v, i)' = Stage(v, i) /\ Saw(v, i)' = Saw(v, i)
                         /\ Says(v, i)' = Says(v, i)
  BY DEF SameRun, Stage, Saw, Says
<1>2. \A S : Some(v, S)' <=> Some(v, S)
  BY <1>1 DEF Some
<1>3. Refused(v)' = Refused(v) /\ Counted(v)' = Counted(v)
  BY <1>1 DEF Refused, Counted, Appended, Was
<1>4. \A x : V!BornOut(v, x) => V!BornOut(v, x)'
  BY <1>1, BornOutStays
<1>5. Decided(v)' => Grounds(v)'
  BY <1>2, <1>3 DEF Borne, Decided, Grounds, Over, Counting, SameRun
<1> QED BY <1>1, <1>2, <1>3, <1>4, <1>5 DEF Borne, SameRun

\* A job's step keeps them borne out if it has grounds for what it decides.
LEMMA BorneStays ==
  ASSUME IInv, NEW v \in Runs, NEW i \in Samples, JobStep(<<v, i>>), Borne(v),
         Saw(v, i) # None => Saw(v, i)' = Saw(v, i),
         v \in errors => v \in errors',
         v \in errors' => v \in errors \/ Saw(v, i)' = "error",
         Stage(v, i)' = "retry" => v \in errors',
         Was(v, i) /\ Stage(v, i) # "count" => Was(v, i)' /\ Stage(v, i)' # "count",
         Stage(v, i)' \in Late => Stage(v, i) \in Late \/ Grounds(v)',
         news'[v] > 0 => news[v] > 0 \/ Stage(v, i) \in Late,
         ~Counting(v)' => ~Counting(v) \/ Grounds(v)',
         partial'[v].all - partial'[v].yes <= Cardinality(Refused(v))',
         Says(v, i)' = Says(v, i) \/ V!BornOut(v, Says(v, i))',
         Stage(v, i)' \in Late => Says(v, i)' # None,
         result'[v] = result[v] \/ (result'[v] = Says(v, i) /\ Says(v, i) # None),
         news'[v] > 0 => news[v] > 0 \/ result'[v] # None
  PROVE  Borne(v)'
<1> USE DEF Says
<1>1. /\ UNCHANGED serverVars /\ ~Unasked(v)' /\ ~Unasked(v)
      /\ \A k \in Samples \ {i} : job'[<<v, k>>] = job[<<v, k>>]
  BY JobStepFacts, ServerUntouched
<1>2. /\ \A S : Some(v, S) <=> Stage(v, i) \in S \/ Others(v, i, S)
      /\ \A S : Some(v, S)' <=> Stage(v, i)' \in S \/ Others(v, i, S)
      /\ \A k \in Samples \ {i} : /\ Stage(v, k)' = Stage(v, k)
                                  /\ Saw(v, k)' = Saw(v, k) /\ Says(v, k)' = Says(v, k)
  BY <1>1, SomeMoved
<1>3. \A x : V!BornOut(v, x) => V!BornOut(v, x)'
  BY <1>2, BornOutStays
<1>4. None # "error" /\ "retry" \notin Late
  BY NoneIsNoValue DEF Verdicts, Outcomes, Late
<1>5. v \in errors' => \E k \in Samples : Saw(v, k)' = "error"
  BY <1>2, <1>4 DEF Borne
<1>6. Some(v, {"retry"})' => v \in errors'
  BY <1>2 DEF Borne
<1>7. Grounds(v) => Grounds(v)'
  <2>1. Counted(v) = Samples => Counted(v)' = Samples
    BY <1>2 DEF Counted, Appended, Was
  <2> QED BY <2>1 DEF Grounds
<1>8. Decided(v)' => Grounds(v)'
  <2>1. (Over(v)' <=> Over(v)) /\ (Some(v, Late)' => Some(v, Late) \/ Grounds(v)')
    BY <1>1, <1>2 DEF Over, serverVars, runVars
  <2>2. Stage(v, i) \in Late => Some(v, Late)
    BY <1>2
  <2> QED BY <1>1, <1>7, <2>1, <2>2 DEF Borne, Decided
<1>9. \A k \in Samples : /\ Stage(v, k)' \in Late => Says(v, k)' # None
                         /\ Says(v, k)' # None => V!BornOut(v, Says(v, k))'
  BY <1>2, <1>3 DEF Borne
<1>10. result'[v] # None => V!BornOut(v, result[v])'
  BY <1>3 DEF Borne
<1>11. v \in subscribed' /\ news'[v] > 0 => result'[v] # None
  BY <1>1 DEF Borne, serverVars, runVars
<1> QED BY <1>1, <1>5, <1>6, <1>8, <1>9, <1>10, <1>11 DEF Borne

\* The last job decides as the algorithm's answers to all samples say.
LEMMA GatherBears ==
  ASSUME IInv, NEW v \in Runs, Some(v, {"gather"}),
         partial[v].all - partial[v].yes <= Cardinality(Refused(v))
  PROVE  V!BornOut(v, IF Positive(partial[v]) THEN "yes" ELSE "no")
<1>1. /\ Counted(v) = Samples /\ partial[v].all >= N /\ N \in Nat
      /\ partial[v].all \in 0..N /\ partial[v].yes \in 0..N
  BY GatherLast, SampleSets DEF IInv, JobsTypeOK
<1>2. /\ \A k \in Samples : Was(v, k)
      /\ Accepted(v) = V!Judged(v, "yes") /\ Refused(v) = V!Judged(v, "no")
  BY <1>1, VotesSeen DEF Counted, Appended, Accepted, Refused
<1>3. V!Complete(v) /\ Refused(v) = Samples \ Accepted(v)
  BY <1>2, VotesSeen DEF V!Complete, Was
<1>4. Cardinality(Refused(v)) = N - Cardinality(Accepted(v))
  <2>1. IsFiniteSet(Samples) /\ Samples \cap Accepted(v) = Accepted(v)
    BY JobConstants DEF Accepted, Appended
  <2> QED BY <1>3, <2>1, FS_Difference DEF N
<1>5. Cardinality(Accepted(v)) \in 0..N /\ partial[v].yes <= Cardinality(Accepted(v))
  BY Members, SampleSets DEF IInv, RunInv, PartialTrue
<1>6. Positive(partial[v]) <=> 2 * Cardinality(Accepted(v)) >= N
  BY <1>1, <1>4, <1>5 DEF Positive
<1>7. Positive(partial[v]) <=> V!Accepted(v)
  BY <1>2, <1>6, SameCardinality DEF V!Accepted, N
<1>8. V!Accepted(v) => V!BornOut(v, "yes")
  BY <1>3 DEF V!BornOut
<1>9. ~V!Accepted(v) => V!BornOut(v, "no")
  BY <1>3 DEF V!BornOut
<1> QED BY <1>7, <1>8, <1>9

\* A job that finds no count, or a count that has run out, was too late for a
\* run that an error ended.
LEMMA LateCount ==
  ASSUME IInv, NEW v \in Runs, NEW i \in Samples, Borne(v), Stage(v, i) = "count",
         counter[v] # None => counter[v] <= 0
  PROVE  v \in errors
<1>1. ~Unasked(v) /\ i \notin Counted(v)
  BY DEF IInv, RunInv, Fresh, Counted
<1>2. CASE Counting(v)
  <2>1. counter[v] = 0 /\ Cardinality(Counted(v)) >= N
    BY <1>2, SampleSets, Members DEF Counting, IInv, JobsTypeOK, RunInv, CounterTrue
  <2>2. Counted(v) = Samples
    BY <2>1, Members, SampleSets
  <2> QED BY <1>1, <2>2
<1>3. CASE ~Counting(v)
  BY <1>1, <1>3 DEF Borne, Decided, Grounds
<1> QED BY <1>2, <1>3

LEMMA JobStepBorne ==
  ASSUME IInv, NEW v \in Runs, NEW i \in Samples, Borne(v), JobStep(<<v, i>>)
  PROVE  Borne(v)'
<1> USE DEF Says
<1>1. \A k \in Samples \ {i} : job'[<<v, k>>] = job[<<v, k>>]
  BY JobStepFacts
<1>2. /\ None \notin {"yes", "no", "error", "max"}
      /\ job[<<v, i>>] \in [at : Stages, saw : Outcomes \cup {None},
                            says : Verdicts \cup {None}]
      /\ partial[v].all \in Nat /\ partial[v].yes \in Nat
      /\ Sight(v) /\ ~Unasked(v)
  BY JobStepFacts, ServerUntouched, NoneIsNoValue
     DEF Verdicts, Outcomes, IInv, JobsTypeOK, Jobs, RunInv
<1>3. /\ Cardinality(Refused(v)) \in Nat /\ Cardinality(Refused(v))' \in Nat
      /\ Cardinality(Refused(v))' = Cardinality(Refused(v))
           + One(Was(v, i) /\ Saw(v, i) = "no")' - One(Was(v, i) /\ Saw(v, i) = "no")
  BY <1>1, RefusedMoved
<1>4. partial[v].all - partial[v].yes <= Cardinality(Refused(v))
  BY DEF Borne
<1>5. Stage(v, i) \in Late => Grounds(v) /\ Says(v, i) # None
  BY DEF Borne, Decided, Some
<1>6. v \in errors => \E k \in Samples : Saw(v, k) = "error"
  BY DEF Borne
<1> USE <1>1, <1>2, <1>3
<1>11. ASSUME NEW o \in Outcomes, Verify(<<v, i>>, o) PROVE Borne(v)'
  <2>1. /\ Stage(v, i) = "queued" /\ Saw(v, i) = None
        /\ Stage(v, i)' = IF v \in errors THEN "done" ELSE "ended"
        /\ Saw(v, i)' = IF v \in errors THEN None ELSE o
        /\ Says(v, i)' = Says(v, i) /\ UNCHANGED storeVars
    BY <1>11 DEF IInv, JobsTypeOK, Jobs, Sight, Verify, At, Stage, Saw
  <2> QED BY <1>4, <2>1, BorneStays DEF storeVars, Was, One, Late, Counting, Outcomes
<1>12. ASSUME Break(<<v, i>>) PROVE Borne(v)'
  <2>1. /\ Stage(v, i) = "queued" /\ Stage(v, i)' = "lost"
        /\ Saw(v, i)' = Saw(v, i) /\ Saw(v, i) = None /\ Says(v, i)' = Says(v, i)
        /\ UNCHANGED storeVars
    BY <1>12 DEF IInv, JobsTypeOK, Jobs, Sight, Break, At, Goes, Stage, Saw
  <2> QED BY <1>4, <2>1, BorneStays DEF storeVars, Was, One, Late, Counting
<1>13. ASSUME Check(<<v, i>>) PROVE Borne(v)'
  <2>1. /\ Stage(v, i) = "ended" /\ Stage(v, i)' = AfterCheck(<<v, i>>)
        /\ Saw(v, i)' = Saw(v, i) /\ Says(v, i)' = Says(v, i)
        /\ UNCHANGED storeVars
    BY <1>13 DEF IInv, JobsTypeOK, Jobs, Check, At, Goes, Stage, Saw
  <2>2. /\ Stage(v, i)' \in {"done", "report", "append"}
        /\ Stage(v, i)' = "append" => Saw(v, i) # "error"
        /\ Was(v, i)' => Saw(v, i) \in {"yes", "no"}
    BY <2>1 DEF AfterCheck, Saw, Was
  <2> QED BY <1>4, <2>1, <2>2, BorneStays DEF storeVars, Was, One, Late, Counting
<1>14. ASSUME AppendResult(<<v, i>>) PROVE Borne(v)'
  <2>1. /\ Stage(v, i) = "append" /\ Stage(v, i)' = "count"
        /\ Saw(v, i)' = Saw(v, i) /\ Saw(v, i) \in {"yes", "no"} /\ Says(v, i)' = Says(v, i)
        /\ partial'[v] = Gathered(partial[v], Saw(v, i))
        /\ UNCHANGED <<counter, errors, result, news>>
    BY <1>14 DEF IInv, JobsTypeOK, Jobs, Sight, AppendResult, At, Goes, Stage, Saw
  <2>2. partial'[v].all - partial'[v].yes <= Cardinality(Refused(v))'
    BY <1>4, <2>1 DEF Gathered, Was, One
  <2> QED BY <2>1, <2>2, BorneStays DEF Was, Late, Counting
<1>15. ASSUME Count(<<v, i>>) PROVE Borne(v)'
  <2> DEFINE n == Decremented(counter[v])
  <2>1. /\ Stage(v, i) = "count" /\ Stage(v, i)' = AfterCount(n) /\ counter'[v] = n
        /\ Saw(v, i)' = Saw(v, i) /\ Saw(v, i) \in {"yes", "no"}
        /\ Says(v, i)' = IF n < 0 THEN "no" ELSE Says(v, i)
        /\ UNCHANGED <<partial, errors, result, news>>
    BY <1>15 DEF IInv, JobsTypeOK, Jobs, Sight, Count, At, Stage, Saw
  <2>2. /\ counter[v] # None => counter[v] \in Int /\ n = counter[v] - 1
        /\ n \in Int /\ n # None
    BY NoneIsNoValue DEF IInv, JobsTypeOK, Decremented
  <2>3. Stage(v, i)' = IF n > 0 THEN "done" ELSE IF n < 0 THEN "forget" ELSE "gather"
    BY <2>1 DEF AfterCount
  <2>4. n < 0 => v \in errors
    BY <2>1, <2>2, LateCount
  <2> HIDE DEF n
  <2>5. n < 0 => Grounds(v)' /\ V!BornOut(v, Says(v, i))'
    <3> SUFFICES ASSUME n < 0 PROVE Grounds(v)' /\ V!BornOut(v, Says(v, i))'
      OBVIOUS
    <3>1. PICK k \in Samples : Saw(v, k) = "error"
      BY <1>6, <2>4
    <3>2. Saw(v, k)' = "error"
      BY <2>1, <3>1 DEF Saw
    <3> QED BY <2>1, <2>4, <3>2, ErrorBears DEF Grounds
  <2>6. Counting(v) => Counting(v)' \/ n < 0
    BY <2>1, <2>2 DEF Counting
  <2> QED BY <1>4, <2>1, <2>2, <2>3, <2>5, <2>6, BorneStays DEF Was, One, Late
<1>16. ASSUME Gather(<<v, i>>) PROVE Borne(v)'
  <2>1. /\ Stage(v, i) = "gather" /\ Stage(v, i)' = "forget"
        /\ Saw(v, i)' = Saw(v, i) /\ Saw(v, i) \in {"yes", "no"}
        /\ Says(v, i)' = IF Positive(partial[v]) THEN "yes" ELSE "no"
        /\ UNCHANGED storeVars
    BY <1>16 DEF IInv, JobsTypeOK, Jobs, Sight, Gather, At, Stage, Saw
  <2>2. Some(v, {"gather"})
    BY <2>1 DEF Some
  <2>3. V!BornOut(v, Says(v, i))'
    <3>1. \A k \in Samples : Saw(v, k)' = Saw(v, k)
      BY <2>1 DEF Saw
    <3> QED BY <1>4, <2>1, <2>2, <3>1, GatherBears, BornOutStays
  <2>4. Grounds(v)'
    <3>1. Counted(v) = Samples
      BY <2>2, GatherLast
    <3>2. \A k \in Samples : Was(v, k)' /\ Stage(v, k)' # "count"
      BY <2>1, <3>1 DEF Counted, Appended, Was, Stage, Saw
    <3> QED BY <3>2 DEF Grounds, Counted, Appended
  <2> QED BY <1>4, <2>1, <2>3, <2>4, BorneStays DEF storeVars, Was, One, Late, Counting
<1>17. ASSUME Report(<<v, i>>) PROVE Borne(v)'
  <2>1. /\ Stage(v, i) = "report" /\ Stage(v, i)' = "retry"
        /\ Saw(v, i)' = Saw(v, i) /\ Saw(v, i) = "error" /\ Says(v, i)' = Says(v, i)
        /\ errors' = errors \cup {v}
        /\ UNCHANGED <<counter, partial, result, news>>
    BY <1>17 DEF IInv, JobsTypeOK, Jobs, Sight, Report, At, Goes, Stage, Saw
  <2> QED BY <1>4, <2>1, BorneStays DEF Was, One, Late, Counting
<1>18. ASSUME Retry(<<v, i>>) PROVE Borne(v)'
  <2>1. /\ Stage(v, i) = "retry" /\ Stage(v, i)' \in {"forget", "clear"}
        /\ Saw(v, i)' = Saw(v, i) /\ Saw(v, i) = "error"
        /\ Says(v, i)' \in {"max", "error"}
        /\ UNCHANGED <<counter, partial, errors, result, news>>
    BY <1>18 DEF IInv, JobsTypeOK, Jobs, Sight, Retry, At, Stage, Saw
  <2>2. Grounds(v)' /\ V!BornOut(v, Says(v, i))'
    <3>1. v \in errors
      BY <2>1 DEF Borne, Some
    <3> QED BY <2>1, <3>1, ErrorBears DEF Grounds
  <2> QED BY <1>4, <2>1, <2>2, BorneStays DEF Was, One, Late, Counting
<1>19. ASSUME Forget(<<v, i>>) PROVE Borne(v)'
  <2>1. /\ Stage(v, i) = "forget" /\ Stage(v, i)' = "clear"
        /\ Saw(v, i)' = Saw(v, i) /\ Says(v, i)' = Says(v, i)
        /\ UNCHANGED <<counter, partial, errors, result, news>>
    BY <1>19 DEF IInv, JobsTypeOK, Jobs, Forget, At, Goes, Stage, Saw
  <2> QED BY <1>4, <1>5, <2>1, BorneStays DEF Was, One, Late, Counting
<1>20. ASSUME Clear(<<v, i>>) PROVE Borne(v)'
  <2>1. /\ Stage(v, i) = "clear" /\ Stage(v, i)' = "drop"
        /\ Saw(v, i)' = Saw(v, i) /\ Says(v, i)' = Says(v, i)
        /\ UNCHANGED <<partial, errors, result, news>>
    BY <1>20 DEF IInv, JobsTypeOK, Jobs, Clear, At, Goes, Stage, Saw
  <2>2. Grounds(v)'
    <3>1. Grounds(v)
      BY <1>5, <2>1 DEF Late
    <3>2. Counted(v) = Samples => Counted(v)' = Samples
      <4>1. \A k \in Samples \ {i} : /\ Stage(v, k)' = Stage(v, k)
                                     /\ Saw(v, k)' = Saw(v, k)
        BY SomeMoved
      <4> QED BY <2>1, <4>1 DEF Counted, Appended, Was
    <3> QED BY <2>1, <3>1, <3>2 DEF Grounds
  <2> QED BY <1>4, <1>5, <2>1, <2>2, BorneStays DEF Was, One, Late
<1>21. ASSUME Drop(<<v, i>>) PROVE Borne(v)'
  <2>1. /\ Stage(v, i) = "drop" /\ Stage(v, i)' = "publish" /\ partial'[v] = Empty
        /\ Saw(v, i)' = Saw(v, i) /\ Says(v, i)' = Says(v, i)
        /\ UNCHANGED <<counter, errors, result, news>>
    BY <1>21 DEF IInv, JobsTypeOK, Jobs, Drop, Dropped, At, Goes, Stage, Saw
  <2> QED BY <1>5, <2>1, BorneStays DEF Empty, Was, Late, Counting
<1>22. ASSUME Publish(<<v, i>>) PROVE Borne(v)'
  <2>1. /\ Stage(v, i) = "publish" /\ Stage(v, i)' = "done"
        /\ Saw(v, i)' = Saw(v, i) /\ Says(v, i)' = Says(v, i)
        /\ result'[v] = Says(v, i)
        /\ UNCHANGED <<counter, partial, errors>>
    BY <1>22 DEF IInv, JobsTypeOK, Jobs, Publish, At, Goes, Stage, Saw
  <2> QED BY <1>4, <1>5, <2>1, BorneStays DEF Was, One, Late, Counting
<1> QED BY <1>11, <1>12, <1>13, <1>14, <1>15, <1>16, <1>17, <1>18, <1>19, <1>20, <1>21,
           <1>22 DEF JobStep

-----------------------------------------------------------------------------
(* The invariant holds, and every step is one of the abstract verification *)
(* or none of its business.                                                *)

LEMMA InitBorne == Init => VInv
<1> SUFFICES ASSUME Init PROVE VInv
  OBVIOUS
<1>1. Held
  BY DEF Init, Held
<1>2. ASSUME NEW v \in Runs PROVE Borne(v)
  <2>1. \A i \in Samples : Stage(v, i) = "none" /\ Says(v, i) = None
    BY DEF Init, Jobs, Stage, Says
  <2>2. Cardinality(Refused(v)) \in Nat
    BY SampleSets DEF Refused, Appended
  <2> QED BY <2>1, <2>2
       DEF Init, Empty, Borne, Decided, Over, Unasked, Some, Late
<1> QED BY <1>1, <1>2 DEF VInv

LEMMA StepBorne == IInv /\ VInv /\ [Next]_vars => VInv'
<1> SUFFICES ASSUME IInv, VInv, [Next]_vars PROVE VInv'
  OBVIOUS
<1>1. ASSUME NEW p \in Phones, NEW v \in Runs, Ask(p, v) PROVE VInv'
  <2>1. Held'
    BY <1>1, JobConstants DEF Ask, Held
  <2>2. ASSUME NEW w \in Runs PROVE Borne(w)'
    <3>1. Unasked(w)' <=> Unasked(w)
      <4>1. asking' \in Runs \X BOOLEAN /\ asking'[1] = v
        BY <1>1 DEF Ask
      <4>2. phone' = [phone EXCEPT ![v] = p] /\ phone[v] = None /\ asking = None
        BY <1>1 DEF Ask
      <4> QED BY <4>1, <4>2, NoneIsNoValue DEF IInv, JobsTypeOK, Unasked
    <3>2. SameRun(w)
      BY <1>1 DEF Ask, storeVars, SameRun
    <3> QED BY <3>1, <3>2, BorneUntouched DEF VInv
  <2> QED BY <2>1, <2>2 DEF VInv
<1>2. ASSUME Enqueue PROVE VInv'
  <2> PICK v \in Runs : asking # None /\ v = asking[1]
    BY <1>2 DEF IInv, JobsTypeOK, Enqueue
  <2>1. /\ asking' = None /\ phone' = phone /\ callback' = callback
        /\ counter' = [counter EXCEPT ![v] = N]
        /\ subscribed' = subscribed \cup {v}
        /\ job' = [j \in Jobs |-> IF j[1] = v THEN [job[j] EXCEPT !.at = "queued"]
                                              ELSE job[j]]
        /\ UNCHANGED <<partial, errors, result, news>>
    BY <1>2 DEF Enqueue
  <2>2. Held'
    BY <2>1 DEF VInv, Held
  <2>3. ASSUME NEW w \in Runs \ {v} PROVE Borne(w)'
    <3>1. SameRun(w)
      BY <2>1 DEF IInv, JobsTypeOK, Jobs, SameRun
    <3>2. Unasked(w)' <=> Unasked(w)
      BY <2>1 DEF Unasked
    <3> QED BY <3>1, <3>2, BorneUntouched DEF VInv
  <2>4. Borne(v)'
    <3>0. Unasked(v) /\ phone[v] # None
      BY DEF IInv, Unasked
    <3>1. Fresh(v) /\ news[v] = 0
      BY <3>0 DEF IInv, RunInv, VInv, Borne
    <3>2. \A i \in Samples : /\ Stage(v, i)' = "queued" /\ Says(v, i)' = Says(v, i)
                             /\ Saw(v, i)' = Saw(v, i)
      BY <2>1 DEF IInv, JobsTypeOK, Jobs, Stage, Says, Saw
    <3>3. /\ counter'[v] = N /\ N \in Nat /\ N # None /\ partial'[v] = Empty
          /\ result'[v] = None /\ v \notin errors' /\ news'[v] = 0 /\ v \in subscribed'
          /\ ~Unasked(v)'
      BY <2>1, <3>0, <3>1, SampleSets, NoneIsNoValue DEF IInv, JobsTypeOK, Fresh, Unasked
    <3>4. Cardinality(Refused(v))' \in Nat
      <4>1. Refused(v)' \in SUBSET Samples
        BY DEF Refused, Appended
      <4> QED BY <4>1, SampleSets
    <3>5. \A i \in Samples : Says(v, i)' # None => V!BornOut(v, Says(v, i))'
      BY <3>2, BornOutStays DEF VInv, Borne
    <3>6. ~Decided(v)'
      BY <3>2, <3>3 DEF Decided, Some, Late, Over, Counting
    <3> QED BY <3>2, <3>3, <3>4, <3>5, <3>6 DEF Borne, Some, Late, Empty
  <2> QED BY <2>2, <2>3, <2>4 DEF VInv
<1>3. ASSUME NEW v \in Runs, Handle(v) PROVE VInv'
  <2>1. /\ result' = [result EXCEPT ![v] = None] /\ subscribed' = subscribed \ {v}
        /\ news[v] > 0 /\ news' = [news EXCEPT ![v] = @ - 1]
        /\ UNCHANGED <<phone, callback, asking, job, counter, partial, errors>>
    BY <1>3 DEF Handle
  <2>2. /\ Held' /\ \A w \in Runs : Unasked(w)' <=> Unasked(w)
    BY <2>1 DEF VInv, Held, Unasked
  <2>3. ASSUME NEW w \in Runs \ {v} PROVE Borne(w)'
    <3>1. SameRun(w)
      BY <2>1 DEF IInv, JobsTypeOK, SameRun
    <3> QED BY <2>2, <3>1, BorneUntouched DEF VInv
  <2>4. Borne(v)'
    <3>1. \A i \in Samples : /\ Stage(v, i)' = Stage(v, i) /\ Saw(v, i)' = Saw(v, i)
                             /\ Says(v, i)' = Says(v, i)
      BY <2>1 DEF Stage, Saw, Says
    <3>2. /\ \A S : Some(v, S)' <=> Some(v, S)
          /\ Refused(v)' = Refused(v) /\ Counted(v)' = Counted(v)
      BY <3>1 DEF Some, Refused, Counted, Appended, Was
    <3>3. Borne(v) /\ Grounds(v) /\ ~Unasked(v)
      BY <2>1 DEF IInv, JobsTypeOK, VInv, Borne, Decided
    <3>4. \A x : V!BornOut(v, x) => V!BornOut(v, x)'
      BY <3>1, BornOutStays
    <3>5. result'[v] = None /\ v \notin subscribed' /\ Grounds(v)'
      BY <2>1, <3>2, <3>3 DEF IInv, JobsTypeOK, Grounds
    <3> QED BY <2>1, <2>2, <3>1, <3>2, <3>3, <3>4, <3>5 DEF Borne
  <2> QED BY <2>2, <2>3, <2>4 DEF VInv
<1>4. ASSUME NEW p \in Phones, Cancel(p) PROVE VInv'
  <2>1. UNCHANGED <<serverVars, counter, partial, errors, result, news, job>>
    BY <1>4 DEF Cancel
  <2>2. \A w \in Runs : SameRun(w) /\ (Unasked(w)' <=> Unasked(w))
    BY <2>1 DEF serverVars, runVars, SameRun, Unasked
  <2> QED BY <2>1, <2>2, BorneUntouched DEF VInv, Held, serverVars, runVars
<1>5. ASSUME NEW v \in Runs, NEW i \in Samples, JobStep(<<v, i>>) PROVE VInv'
  <2>1. /\ UNCHANGED serverVars /\ \A w \in Runs \ {v} : SameRun(w)
    BY <1>5, JobStepFacts
  <2>2. \A w \in Runs : Unasked(w)' <=> Unasked(w)
    BY <2>1, ServerUntouched
  <2>3. \A w \in Runs \ {v} : Borne(w)'
    BY <2>1, <2>2, BorneUntouched DEF VInv
  <2>4. Borne(v)'
    BY <1>5, JobStepBorne DEF VInv
  <2> QED BY <2>1, <2>3, <2>4 DEF VInv, Held, serverVars, runVars
<1>6. ASSUME Restart PROVE VInv'
  <2>1. UNCHANGED <<serverVars, storeVars>>
    BY <1>6 DEF Restart
  <2>2. ASSUME NEW v \in Runs PROVE Borne(v)'
    <3>1. \A i \in Samples :
            /\ Stage(v, i)' = IF Stage(v, i) \in {"none", "done"} THEN Stage(v, i)
                              ELSE "lost"
            /\ Saw(v, i)' = Saw(v, i) /\ Says(v, i)' = Says(v, i)
      BY <1>6 DEF IInv, JobsTypeOK, Jobs, Restart, Stage, Saw, Says
    <3>2. UNCHANGED <<phone, asking, subscribed, counter, partial, errors, result, news>>
      BY <2>1 DEF serverVars, runVars, storeVars
    <3>3. Borne(v) /\ partial[v].all \in Nat /\ partial[v].yes \in Nat
      BY DEF VInv, IInv, JobsTypeOK
    <3>4. \A x : V!BornOut(v, x) => V!BornOut(v, x)'
      BY <3>1, BornOutStays
    <3>5. /\ Cardinality(Refused(v)) <= Cardinality(Refused(v))'
          /\ Cardinality(Refused(v)) \in Nat /\ Cardinality(Refused(v))' \in Nat
          /\ Counted(v) = Samples => Counted(v)' = Samples
      <4>1. /\ Refused(v) \in SUBSET Refused(v)' /\ Refused(v)' \in SUBSET Samples
            /\ Refused(v) \in SUBSET Samples
            /\ Counted(v) \in SUBSET Counted(v)' /\ Counted(v)' \in SUBSET Samples
        BY <3>1 DEF Refused, Counted, Appended, Was
      <4>2. IsFiniteSet(Refused(v)')
        BY <4>1, SampleSets
      <4>3. /\ Cardinality(Refused(v)) \in Nat /\ Cardinality(Refused(v)') \in Nat
            /\ Cardinality(Refused(v)) <= Cardinality(Refused(v)')
        BY <4>1, <4>2, SampleSets, FS_Subset
      <4> QED BY <4>1, <4>3
    <3>6. ~Some(v, Late)' /\ ~Some(v, {"retry"})'
      BY <3>1 DEF Some, Late
    <3>7. Decided(v)' => Grounds(v)'
      BY <3>2, <3>3, <3>5, <3>6 DEF Borne, Decided, Grounds, Over, Unasked, Counting
    <3> QED BY <3>1, <3>2, <3>3, <3>4, <3>5, <3>6, <3>7 DEF Borne, Unasked, Some
  <2> QED BY <2>1, <2>2 DEF VInv, Held, serverVars, runVars
<1>7. ASSUME UNCHANGED vars PROVE VInv'
  <2>1. \A w \in Runs : SameRun(w) /\ (Unasked(w)' <=> Unasked(w))
    BY <1>7 DEF vars, serverVars, runVars, storeVars, SameRun, Unasked
  <2> QED BY <1>7, <2>1, BorneUntouched DEF VInv, Held, vars, serverVars, runVars
<1> QED BY <1>1, <1>2, <1>3, <1>4, <1>5, <1>6, <1>7 DEF Next, Jobs

LEMMA BorneInvariant == Spec => [](IInv /\ VInv)
<1>1. Init => IInv /\ VInv
  BY InitInvariant, InitBorne
<1>2. IInv /\ VInv /\ [Next]_vars => (IInv /\ VInv)'
  BY StepInvariant, StepBorne
<1> QED BY <1>1, <1>2, PTL DEF Spec

\* The phases of all runs, the votes and what the abstract state is made of.
Phases == [v \in Runs |-> Phase(v)]
Votes  == [j \in Jobs |-> job[j].saw]

\* A step that changes none of them is none of the verification's.
LEMMA StutterRefined ==
  ASSUME \A v \in Runs : Phase(v)' = Phase(v),
         \A v \in Runs, i \in Samples : Saw(v, i)' = Saw(v, i),
         callback' = callback, answer' = answer
  PROVE  UNCHANGED V!vars
<1>1. Phases' = Phases
  BY DEF Phases
<1>2. Votes' = Votes
  BY DEF Votes, Jobs, Saw
<1> QED BY <1>1, <1>2 DEF Phases, Votes, V!vars

LEMMA InitRefined == Init => V!Init
<1> SUFFICES ASSUME Init PROVE V!Init
  OBVIOUS
<1>1. [v \in Runs |-> Phase(v)] = [v \in Runs |-> "new"]
  BY DEF Init, Phase
<1>2. [j \in Jobs |-> job[j].saw] = [j \in Runs \X Samples |-> None]
  BY DEF Init, Jobs
<1> QED BY <1>1, <1>2 DEF Init, V!Init

LEMMA AskRefined ==
  ASSUME IInv, NEW p \in Phones, NEW v \in Runs, Ask(p, v)
  PROVE  V!Ask(v)
<1>1. asking' \in Runs \X BOOLEAN /\ asking'[1] = v
  BY DEF Ask
<1>2. /\ phone' = [phone EXCEPT ![v] = p] /\ p # None /\ phone[v] = None
      /\ asking = None /\ asking' # None /\ callback' = v
      /\ subscribed' = subscribed /\ answer' = answer /\ job' = job
  BY <1>1, NoneIsNoValue, JobConstants DEF Ask, storeVars
<1>3. Phase(v) = "new" /\ Phase(v)' = "open"
  BY <1>1, <1>2 DEF IInv, JobsTypeOK, Phase
<1>4. \A w \in Runs \ {v} : Phase(w)' = Phase(w)
  BY <1>1, <1>2 DEF IInv, JobsTypeOK, Phase
<1>5. Phases' = [Phases EXCEPT ![v] = "open"]
  BY <1>3, <1>4 DEF Phases
<1>6. Votes' = Votes
  BY <1>2 DEF Votes
<1> QED BY <1>2, <1>3, <1>5, <1>6 DEF Phases, Votes, V!Ask

\* A sample is judged while its run is open: once it was told, all samples
\* were counted or an error is known, which the job looks for first.
LEMMA VerifyRefined ==
  ASSUME IInv, VInv, NEW v \in Runs, NEW i \in Samples, NEW o \in Outcomes,
         Verify(<<v, i>>, o), v \notin errors
  PROVE  V!Judge(v, i, o)
<1>1. /\ Stage(v, i) = "queued" /\ Saw(v, i) = None
      /\ job' = [job EXCEPT ![<<v, i>>].at = "ended", ![<<v, i>>].saw = o]
      /\ UNCHANGED serverVars /\ <<v, i>> \in Jobs
      /\ job \in [Jobs -> [at : Stages, saw : Outcomes \cup {None},
                           says : Verdicts \cup {None}]]
  BY DEF IInv, JobsTypeOK, RunInv, Sight, Verify, At, Stage, Saw, Jobs
<1>2. Phase(v) = "open"
  <2>1. ~Unasked(v)
    BY <1>1 DEF IInv, RunInv, Fresh
  <2>2. Counted(v) # Samples
    BY <1>1, NoneIsNoValue DEF Counted, Appended, Was, Verdicts, Outcomes
  <2>3. ~Over(v)
    BY <2>2 DEF VInv, Borne, Decided, Grounds
  <2> QED BY <2>1, <2>3 DEF Phase, Unasked, Over
<1>3. \A w \in Runs : Phase(w)' = Phase(w)
  BY <1>1 DEF Phase, serverVars, runVars
<1>4. Phases' = Phases
  BY <1>3 DEF Phases
<1>5. Votes' = [Votes EXCEPT ![<<v, i>>] = o]
  BY <1>1 DEF Votes
<1> QED BY <1>1, <1>2, <1>4, <1>5
     DEF Phases, Votes, V!Judge, Saw, serverVars, runVars

\* What is handed over is stored and borne out, and it is handed over once.
LEMMA HandleRefined ==
  ASSUME IInv, VInv, NEW v \in Runs, Handle(v)
  PROVE  [V!Next]_V!vars
<1>1. /\ asking = None /\ news[v] > 0
      /\ subscribed' = subscribed \ {v}
      /\ answer' = IF v \in subscribed /\ answer[callback] = None
                   THEN [answer EXCEPT ![callback] = <<v, Told(v)>>] ELSE answer
      /\ UNCHANGED <<phone, callback, asking, job>>
  BY DEF Handle
<1>2. \A w \in Runs \ {v} : Phase(w)' = Phase(w)
  BY <1>1 DEF Phase
<1>3. CASE v \notin subscribed
  <2>1. Phase(v)' = Phase(v) /\ answer' = answer
    BY <1>1, <1>3 DEF Phase
  <2> QED BY <1>1, <1>2, <2>1, StutterRefined DEF Saw
<1>4. CASE v \in subscribed
  <2>1. /\ Told(v) = result[v] /\ Told(v) \in Verdicts /\ V!BornOut(v, Told(v))
    BY <1>1, <1>4 DEF VInv, Borne, Told, IInv, JobsTypeOK
  <2>2. phone[v] # None
    BY <1>4 DEF IInv, RunInv, Unasked, Fresh
  <2>3. Phase(v) = "open" /\ Phase(v)' = "over"
    BY <1>1, <1>4, <2>2 DEF Phase
  <2>4. Phases' = [Phases EXCEPT ![v] = "over"]
    BY <1>2, <2>3 DEF Phases
  <2>5. Votes' = Votes
    BY <1>1 DEF Votes
  <2>6. V!Tell(v, Told(v))
    BY <1>1, <1>4, <2>1, <2>3, <2>4, <2>5 DEF Phases, Votes, V!Tell
  <2> QED BY <2>1, <2>6 DEF V!Next, Verdicts, Outcomes
<1> QED BY <1>3, <1>4

\* Every step of the jobs, the server and the worker is a step of the
\* verification or leaves it as it is.
LEMMA StepRefined == IInv /\ VInv /\ [Next]_vars => [V!Next]_V!vars
<1> SUFFICES ASSUME IInv, VInv, [Next]_vars PROVE [V!Next]_V!vars
  OBVIOUS
<1>1. CASE \E p \in Phones, v \in Runs : Ask(p, v)
  BY <1>1, AskRefined DEF V!Next
<1>2. CASE Enqueue
  <2> PICK v \in Runs : asking # None /\ v = asking[1]
    BY <1>2 DEF IInv, JobsTypeOK, Enqueue
  <2>1. /\ asking' = None /\ phone' = phone /\ callback' = callback /\ answer' = answer
        /\ subscribed' = subscribed \cup {v}
        /\ job' = [j \in Jobs |-> IF j[1] = v THEN [job[j] EXCEPT !.at = "queued"]
                                              ELSE job[j]]
    BY <1>2 DEF Enqueue
  <2>2. \A w \in Runs : Phase(w)' = Phase(w)
    BY <2>1 DEF Phase
  <2>3. \A w \in Runs, i \in Samples : Saw(w, i)' = Saw(w, i)
    BY <2>1 DEF IInv, JobsTypeOK, Jobs, Saw
  <2> QED BY <2>1, <2>2, <2>3, StutterRefined
<1>3. CASE \E v \in Runs : Handle(v)
  BY <1>3, HandleRefined
<1>4. CASE \E p \in Phones : Cancel(p)
  BY <1>4, StutterRefined DEF Cancel, serverVars, runVars, Phase, Saw
<1>5. ASSUME NEW v \in Runs, NEW i \in Samples, JobStep(<<v, i>>)
      PROVE  [V!Next]_V!vars
  <2>1. /\ UNCHANGED serverVars /\ \A k \in Samples \ {i} : Saw(v, k)' = Saw(v, k)
        /\ \A w \in Runs \ {v}, k \in Samples : Saw(w, k)' = Saw(w, k)
    BY <1>5, JobStepFacts DEF SameRun, Saw
  <2>2. \A w \in Runs : Phase(w)' = Phase(w)
    BY <2>1 DEF Phase, serverVars, runVars
  <2>3. CASE Saw(v, i)' = Saw(v, i)
    BY <2>1, <2>2, <2>3, StutterRefined DEF serverVars, runVars
  <2>4. CASE \E o \in Outcomes : Verify(<<v, i>>, o) /\ v \notin errors
    <3> PICK o \in Outcomes : Verify(<<v, i>>, o) /\ v \notin errors
      BY <2>4
    <3>1. V!Judge(v, i, o)
      BY VerifyRefined
    <3> QED BY <3>1 DEF V!Next, Outcomes
  <2>5. Saw(v, i)' = Saw(v, i) \/ \E o \in Outcomes : Verify(<<v, i>>, o) /\ v \notin errors
    <3>1. job \in [Jobs -> [at : Stages, saw : Outcomes \cup {None},
                            says : Verdicts \cup {None}]] /\ <<v, i>> \in Jobs
      BY DEF IInv, JobsTypeOK, Jobs
    <3>2. CASE \E o \in Outcomes : Verify(<<v, i>>, o)
      BY <3>1, <3>2 DEF Verify, Saw
    <3>3. CASE Break(<<v, i>>) \/ Check(<<v, i>>) \/ AppendResult(<<v, i>>)
               \/ Count(<<v, i>>) \/ Gather(<<v, i>>)
      BY <3>1, <3>3 DEF Break, Check, AppendResult, Count, Gather, Goes, Saw
    <3>4. CASE Report(<<v, i>>) \/ Retry(<<v, i>>) \/ Forget(<<v, i>>)
               \/ Clear(<<v, i>>) \/ Drop(<<v, i>>) \/ Publish(<<v, i>>)
      BY <3>1, <3>4 DEF Report, Retry, Forget, Clear, Drop, Publish, Goes, Saw
    <3> QED BY <1>5, <3>2, <3>3, <3>4 DEF JobStep
  <2> QED BY <2>3, <2>4, <2>5
<1>6. CASE Restart
  <2>1. \A w \in Runs, i \in Samples : Saw(w, i)' = Saw(w, i)
    BY <1>6 DEF IInv, JobsTypeOK, Jobs, Restart, Saw
  <2>2. \A w \in Runs : Phase(w)' = Phase(w)
    BY <1>6 DEF Restart, serverVars, runVars, Phase
  <2> QED BY <1>6, <2>1, <2>2, StutterRefined DEF Restart, serverVars, runVars
<1>7. CASE UNCHANGED vars
  BY <1>7, StutterRefined DEF vars, serverVars, runVars, Phase, Saw
<1> QED BY <1>1, <1>2, <1>3, <1>4, <1>5, <1>6, <1>7 DEF Next, Jobs

\* The jobs implement the verification that the server relies on, for any
\* samples, phones and runs and any number of restarts: a run is told at most
\* once, with a verdict its samples bear out, be it positive, a refusal or an
\* error, and no sample is judged afterwards.
THEOREM JobsVerify == Spec => ImplementsVerification
<1>1. Init => V!Init
  BY InitRefined
<1>2. IInv /\ VInv /\ [Next]_vars => [V!Next]_V!vars
  BY StepRefined
<1> QED BY <1>1, <1>2, BorneInvariant, PTL DEF Spec, ImplementsVerification, V!Spec
=============================================================================
