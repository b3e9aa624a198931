----------------------------- MODULE Identification -----------------------------
(* Who is on the photos: the face identification plugin                        *)
(* (probes/plugins/face_identification_plugin).  An enrolment puts a user's    *)
(* vectors into the buckets of a hash index in MySQL; an identification loads  *)
(* the buckets of a provider's users into a Redis that all identifications     *)
(* share, scores the samples in one job for each cluster, gathers the scores   *)
(* and names the user with the highest one.                                    *)
(*                                                                             *)
(* Both are chains of jobs: a job ends by storing its result, and the server's *)
(* handler of that result queues the next one.  Where nothing can happen in    *)
(* between that matters, a job and its handler are one action.  What a job     *)
(* asks of MySQL and of the Redis of the index is an action for each call.     *)
(* The clusters have buckets of their own: the projections of a cluster carry  *)
(* its number.  The retry counters are in Training and VerificationJobs.       *)
EXTENDS Integers, FiniteSets

CONSTANTS Users,
          Provided,    \* the users of the provider of the identifications
          Cells,       \* buckets of the index: pairs of a cluster and a number
          MaxRuns,     \* identifications
          MaxEnrols,   \* enrolments
          MaxRows,     \* rows of user_hash at first, twice those without vectors
          MaxHashed,   \* cells of all samples and vectors
          MaxTroubles, \* failed jobs and statements, worker restarts, and
                       \* identifications and enrolments after the first
          None

ASSUME IdentificationConstants ==
  /\ IsFiniteSet(Cells) /\ Cells \subseteq Nat \X Nat /\ Provided \subseteq Users
  /\ MaxRuns \in Nat /\ MaxEnrols \in Nat /\ MaxTroubles \in Nat
  /\ MaxRows \in Nat /\ MaxHashed \in Nat
  /\ "nobody" \notin Users /\ None \notin Users \cup {"nobody"} /\ None \notin Nat

Runs     == 1..MaxRuns
Enrols   == 1..MaxEnrols
Clusters == {x[1] : x \in Cells}
Nobody   == "nobody" \* "FaceIdentificationError: any userID not found."

VARIABLES
  owned,    \* MySQL, user_hash: the cells a user has rows for
  hash,     \* MySQL, hash_data: the users with vectors in a cell
  cache,    \* Redis: the users in a cell that was loaded
  run,      \* the identifications
  job,      \* their jobs, one for each cluster
  counter,  \* Redis: results a run still waits for, None if absent
  partial,  \* Redis: clusters whose results are in a run's list
  kept,     \* Redis: runs whose data waits for the users of the provider
  plugin,   \* the run whose callback the plugin holds, 0 if it holds an
            \* enrolment's or none
  answer,   \* what the flow of a run was given
  enrol,    \* the enrolments
  update,   \* their updates of the index, one for each cluster
  faults,
  stored,   \* history: the vectors that were ever written
  messy,    \* history: clusters where updates overlapped or failed half way
  disturbed \* history: runs during whose jobs the index was changed or another
            \* run loaded cells

indexVars == <<owned, hash, stored, messy>>
redisVars == <<counter, partial, kept>>
vars == <<indexVars, redisVars, cache, run, job, plugin, answer, enrol, update, faults,
          disturbed>>

RunStages == {"none", "start", "prepare", "users", "run", "jobs", "estimate", "news", "over", "lost"}
JobStages == {"none", "owners", "buckets", "load", "put", "score", "append", "count",
              "gather", "done", "lost"}
EnrolStages  == {"none", "start", "spread", "updating", "lost"}
UpdateStages == {"none", "queued", "buckets", "strip", "disown", "drop", "write", "own",
                 "done", "lost"}

IdentTypeOK ==
  /\ owned \in [Users -> SUBSET Cells]
  /\ hash \in [Cells -> SUBSET Users]
  /\ cache \in [Cells -> SUBSET Users]
  /\ run \in [Runs -> [at : RunStages, sample : SUBSET Cells,
                       results : SUBSET Clusters, verdict : Users \cup {Nobody, None}]]
  /\ job \in [Runs \X Clusters ->
                [at : JobStages, load : SUBSET Cells, seen : SUBSET (Cells \X Users),
                 now : Cells \cup {None}, left : SUBSET Cells,
                 hits : SUBSET (Cells \X Users)]]
  /\ counter \in [Runs -> Nat \cup {None}]
  /\ partial \in [Runs -> SUBSET Clusters]
  /\ kept \subseteq Runs /\ plugin \in 0..MaxRuns
  /\ answer \in [Runs -> Users \cup {Nobody, None}]
  /\ enrol \in [Enrols -> [at : EnrolStages, user : Users \cup {None},
                           vectors : SUBSET Cells, verified : BOOLEAN]]
  /\ update \in [Enrols \X Clusters ->
                   [at : UpdateStages, old : SUBSET Cells, seen : SUBSET (Cells \X Users)]]
  /\ faults \in 0..MaxTroubles
  /\ stored \subseteq Cells \X Users
  /\ messy \subseteq Clusters /\ disturbed \subseteq Runs

NoRun == [at |-> "none", sample |-> {}, results |-> {}, verdict |-> None]
NoJob == [at |-> "none", load |-> {}, seen |-> {}, now |-> None, left |-> {}, hits |-> {}]
NoEnrol  == [at |-> "none", user |-> None, vectors |-> {}, verified |-> FALSE]
NoUpdate == [at |-> "none", old |-> {}, seen |-> {}]

\* The index as earlier enrolments left it: a user has no vectors without a row
\* (Indexed); after a first enrolment, or when somebody else has moved into a
\* bucket, there are rows without vectors.
Rows    == {i \in Cells \X Users : i[1] \in owned[i[2]]}
Vectors == {i \in Cells \X Users : i[2] \in hash[i[1]]}
Init ==
  /\ owned \in [Users -> SUBSET Cells] /\ hash \in [Cells -> SUBSET Users]
  /\ Vectors \subseteq Rows
  /\ Cardinality(Rows) + Cardinality(Rows \ Vectors) <= MaxRows
  /\ cache = [x \in Cells |-> {}]
  /\ run = [r \in Runs |-> NoRun]
  /\ job = [i \in Runs \X Clusters |-> NoJob]
  /\ counter = [r \in Runs |-> None] /\ partial = [r \in Runs |-> {}]
  /\ kept = {} /\ plugin = 0 /\ answer = [r \in Runs |-> None]
  /\ enrol = [e \in Enrols |-> NoEnrol]
  /\ update = [i \in Enrols \X Clusters |-> NoUpdate]
  /\ faults = 0
  /\ stored = Vectors
  /\ messy = {} /\ disturbed = {}

-----------------------------------------------------------------------------
(* Helpers.                                                                    *)

Begun == {r \in Runs : run[r].at # "none"}
Given == {e \in Enrols : enrol[e].at # "none"}
Spare == faults + Cardinality(Begun) + Cardinality(Given) <= MaxTroubles

\* One more of the faults, once something is under way.
Fault == Begun \cup Given # {} /\ Spare /\ faults' = faults + 1
\* A step goes well, or it is one of the faults.
Succeeds(ok) == IF ok THEN UNCHANGED faults ELSE Fault
\* Runs and enrolments begin in order.
Admits(S, n) == n \notin S /\ (\A m \in 1..(n - 1) : m \in S) /\ Spare

\* What one cluster has of a set of cells.
In(S, c) == {x \in S : x[1] = c}
\* Cells for the samples, or vectors, of one more face.
Hashed == Cardinality({i \in Runs \X Cells : i[2] \in run[i[1]].sample})
            + Cardinality({i \in Enrols \X Cells : i[2] \in enrol[i[1]].vectors})
Face(S) == Hashed + Cardinality(S) <= MaxHashed

At(r, s)   == run[r].at = s
Goes(r, s) == run' = [run EXCEPT ![r].at = s]
\* Runs that have begun to read the index, or have read it.
Reading == {r \in Runs : run[r].at \in {"jobs", "estimate", "news", "over", "lost"}}

-----------------------------------------------------------------------------
(* An identification up to its jobs.                                           *)

\* run_verification, apply: the plugin takes the callback and the first job is
\* queued.
Identify(r) ==
  /\ Admits(Begun, r)
  /\ Goes(r, "start")
  /\ plugin' = r
  /\ UNCHANGED <<indexVars, redisVars, cache, job, answer, enrol, update, faults, disturbed>>

ChainOnly == UNCHANGED <<indexVars, cache, job, plugin, answer, enrol, update, disturbed>>

\* The images are saved, and the processes that the handler starts find the
\* descriptors of some clusters, or of none.
Begin(r, S) ==
  /\ At(r, "start") /\ Face(S)
  /\ run' = [run EXCEPT ![r].at = "prepare", ![r].sample = S]
  /\ ChainOnly /\ UNCHANGED <<redisVars, faults>>
\* The data is kept in Redis while MySQL is asked for the provider's users.
Prepare(r) ==
  /\ At(r, "prepare") /\ Goes(r, "users")
  /\ kept' = kept \cup {r}
  /\ ChainOnly /\ UNCHANGED <<counter, partial, faults>>
\* The handler of the select fetches and removes the data.  A statement that
\* fails has a result too, without records, for which the handler raises.
LoadUsers(r, ok) ==
  /\ At(r, "users") /\ Succeeds(ok)
  /\ Goes(r, IF ok THEN "run" ELSE "lost")
  /\ kept' = kept \ {r}
  /\ ChainOnly /\ UNCHANGED <<counter, partial>>

Sampled(r) == {x[1] : x \in run[r].sample}
\* Mutant: one result less is waited for.
WaitedFewer(r) == Cardinality(Sampled(r)) - 1
Waited(r) == Cardinality(Sampled(r))
\* IdentificationRunProcess.handler: a job for each cluster, and the counter of
\* their results.  Without a cluster one job is queued that has no cluster to
\* work on and fails.
Spread(r) ==
  /\ At(r, "run")
  /\ IF Sampled(r) = {}
     THEN Goes(r, "lost") /\ UNCHANGED <<job, counter>>
     ELSE /\ Goes(r, "jobs")
          /\ counter' = [counter EXCEPT ![r] = Waited(r)]
          /\ job' = [i \in Runs \X Clusters |->
                       IF i[1] = r /\ i[2] \in Sampled(r)
                       THEN [NoJob EXCEPT !.at = "owners", !.left = In(run[r].sample, i[2])]
                       ELSE job[i]]
  /\ UNCHANGED <<indexVars, partial, kept, cache, plugin, answer, enrol, update, faults,
                 disturbed>>

-----------------------------------------------------------------------------
(* One cluster's job: it loads the cells of the provider's users, then looks   *)
(* up the samples.                                                             *)

JobAt(r, c, s) == job[<<r, c>>].at = s
JobGoes(r, c, s) == job' = [job EXCEPT ![<<r, c>>].at = s]
JobOnly == UNCHANGED <<indexVars, run, plugin, answer, kept, enrol, update, faults>>
IndexOnly == JobOnly /\ UNCHANGED <<counter, partial>>

SelectOwners(r, c) ==
  LET L == In(UNION {owned[u] : u \in Provided}, c) IN
  /\ JobAt(r, c, "owners")
  /\ job' = [job EXCEPT ![<<r, c>>].load = L,
                        ![<<r, c>>].at = IF L = {} THEN "score" ELSE "buckets"]
  /\ IndexOnly /\ UNCHANGED <<cache, disturbed>>
\* Only cells with vectors have rows in hash_data.
SelectBuckets(r, c) ==
  LET L == {x \in job[<<r, c>>].load : hash[x] # {}} IN
  /\ JobAt(r, c, "buckets")
  /\ job' = [job EXCEPT ![<<r, c>>].load = L,
                        ![<<r, c>>].seen = {i \in L \X Users : i[2] \in hash[i[1]]},
                        ![<<r, c>>].at = IF L = {} THEN "score" ELSE "load"]
  /\ IndexOnly /\ UNCHANGED <<cache, disturbed>>
\* A cell that is in Redis is deleted before it is stored again, with the
\* vectors of whoever is in it.
Load(r, c, x) ==
  /\ JobAt(r, c, "load") /\ x \in job[<<r, c>>].load
  /\ job' = [job EXCEPT ![<<r, c>>].at = "put", ![<<r, c>>].now = x]
  /\ cache' = [cache EXCEPT ![x] = {}]
  /\ disturbed' = disturbed \cup (Reading \ {r})
  /\ IndexOnly
\* Mutant: the loop ends after the first cell.
NoneLeft(j) == {}
LeftToLoad(j) == j.load \ {j.now}
Put(r, c) ==
  LET j == job[<<r, c>>]
      L == LeftToLoad(j) IN
  /\ JobAt(r, c, "put")
  /\ cache' = [cache EXCEPT ![j.now] = {u \in Users : <<j.now, u>> \in j.seen}]
  /\ job' = [job EXCEPT ![<<r, c>>] = [j EXCEPT !.load = L, !.now = None,
                                          !.seen = IF L = {} THEN {} ELSE @,
                                          !.at = IF L = {} THEN "score" ELSE "load"]]
  /\ disturbed' = disturbed \cup (Reading \ {r})
  /\ IndexOnly

\* Mutant: the key of a bucket does not name the cluster's hash.
FoundAnywhere(x) == UNION {cache[y] : y \in {z \in Cells : z[2] = x[2]}}
\* get_bucket: the vectors of a cell, none if it is not there.
Found(x) == cache[x]
\* One sample after the other.
Score(r, c, x) ==
  LET j == job[<<r, c>>] IN
  /\ JobAt(r, c, "score") /\ x \in j.left
  /\ job' = [job EXCEPT ![<<r, c>>] = [j EXCEPT !.hits = @ \cup ({x} \X Found(x)),
                                          !.left = @ \ {x},
                                          !.at = IF j.left = {x} THEN "append" ELSE "score"]]
  /\ IndexOnly /\ UNCHANGED <<cache, disturbed>>

-----------------------------------------------------------------------------
(* The results are gathered by the job that finds the counter at its end.      *)

Append(r, c) ==
  /\ JobAt(r, c, "append")
  /\ partial' = [partial EXCEPT ![r] = @ \cup {c}]
  /\ JobGoes(r, c, "count")
  /\ JobOnly /\ UNCHANGED <<counter, cache, disturbed>>
\* Mutant: the job before the last one gathers.
LastButOne(n) == n <= 1
\* Mutant: the counter has to be below zero.
LastBelow(n) == n < 0
Last(n) == n <= 0
Decremented(n) == (IF n = None THEN 0 ELSE n) - 1
Count(r, c) ==
  LET n == Decremented(counter[r]) IN
  /\ JobAt(r, c, "count")
  /\ counter' = [counter EXCEPT ![r] = n]
  /\ JobGoes(r, c, IF Last(n) THEN "gather" ELSE "done")
  /\ JobOnly /\ UNCHANGED <<partial, cache, disturbed>>
\* The list and the counter are read and removed, and the handler of the job's
\* result queues the estimate.
Gather(r, c) ==
  /\ JobAt(r, c, "gather")
  /\ run' = [run EXCEPT ![r].results = partial[r], ![r].at = "estimate"]
  /\ counter' = [counter EXCEPT ![r] = None]
  /\ partial' = [partial EXCEPT ![r] = {}]
  /\ JobGoes(r, c, "done")
  /\ UNCHANGED <<indexVars, kept, cache, plugin, answer, enrol, update, faults, disturbed>>

-----------------------------------------------------------------------------
(* The verdict.                                                                *)

\* IdentificationREProcess: the hits of a user in the gathered results.
Hits(r, u) ==
  {i \in run[r].results \X Cells : <<i[2], u>> \in job[<<r, i[1]>>].hits}
Total(r, u) == Cardinality(Hits(r, u))
\* FinalIdentificationProcess: one of those with the most hits.
Named(r, v) ==
  IF \A u \in Users : Hits(r, u) = {} THEN v = Nobody
  ELSE v \in Users /\ Hits(r, v) # {} /\ \A u \in Users : Total(r, u) <= Total(r, v)
\* ... whose result result_identification_job stores for the plugin.
Finish(r, v) ==
  /\ At(r, "estimate") /\ Named(r, v)
  /\ run' = [run EXCEPT ![r].at = "news", ![r].verdict = v]
  /\ job' = [i \in Runs \X Clusters |-> IF i[1] = r THEN NoJob ELSE job[i]]
  /\ UNCHANGED <<indexVars, redisVars, cache, plugin, answer, enrol, update, faults,
                 disturbed>>
\* The callback of every run is the one the plugin holds by now, and a flow
\* takes the first call only.  The flow takes any text for a success, the one
\* that says that nobody was found too; the flow of an enrolment looks for
\* 'error' in the text and raises.
Answer(r) ==
  /\ At(r, "news") /\ Goes(r, "over")
  /\ answer' = IF plugin = 0 THEN answer
               ELSE IF answer[plugin] # None THEN answer
               ELSE [answer EXCEPT ![plugin] = run[r].verdict]
  /\ UNCHANGED <<indexVars, redisVars, cache, job, plugin, enrol, update, faults, disturbed>>

-----------------------------------------------------------------------------
(* An enrolment.  Its flow is never answered: the callback that waits for the  *)
(* two results looks for 'userID' in one of them and raises.                   *)

EnrolOnly == UNCHANGED <<indexVars, redisVars, cache, run, job, plugin, answer, disturbed>>
EnrolGoes(e, s) == enrol' = [enrol EXCEPT ![e].at = s]

\* run_training: the plugin, which is the one of the identifications, takes the
\* callback and the first job is queued.
Enrol(e, u) ==
  /\ Admits(Given, e)
  /\ enrol' = [enrol EXCEPT ![e] = [NoEnrol EXCEPT !.at = "start", !.user = u]]
  /\ plugin' = 0
  /\ UNCHANGED <<indexVars, redisVars, cache, run, job, answer, update, faults, disturbed>>
\* pre_training_helper: the AI is told and the images are saved; what is found
\* on them goes to two processes.
Greet(e, V) ==
  /\ enrol[e].at = "start" /\ Face(V)
  /\ enrol' = [enrol EXCEPT ![e].at = "spread", ![e].vectors = V]
  /\ EnrolOnly /\ UNCHANGED <<update, faults>>
\* FinalTrainingProcess stores the templates for the verification, or fails to;
\* the result is the first of the two the callback waits for.
Verified(e, ok) ==
  /\ enrol' = [enrol EXCEPT ![e].at = "updating", ![e].verified = ok]
  /\ Succeeds(ok)
\* InitIdentificationUpdateProcess: an update of the index for each cluster.
\* (The two jobs have nothing in common.)
InitUpdate(e, ok) ==
  /\ enrol[e].at = "spread" /\ Verified(e, ok)
  /\ update' = [i \in Enrols \X Clusters |->
                  IF i[1] = e /\ In(enrol[e].vectors, i[2]) # {}
                  THEN [NoUpdate EXCEPT !.at = "queued"] ELSE update[i]]
  /\ EnrolOnly

-----------------------------------------------------------------------------
(* store_vectors.  A statement that fails is logged and the job goes on; a     *)
(* select that fails ends it where its records are used.                       *)

UpdateOnly == UNCHANGED <<redisVars, cache, run, job, plugin, answer, enrol>>
UpdateAt(e, c, s) == update[<<e, c>>].at = s
UpdateGoes(e, c, s) == update' = [update EXCEPT ![<<e, c>>].at = s]
New(e, c) == In(enrol[e].vectors, c)

Midway(e, c) == update[<<e, c>>].at \in {"buckets", "strip", "disown", "drop", "write", "own"}
\* A statement is executed, or one of the faults.
Statement(c, ok) ==
  Succeeds(ok) /\ messy' = IF ok THEN messy ELSE messy \cup {c}
\* The index changes under the runs that read it.
Changed == disturbed' = disturbed \cup Reading
\* The user's rows of a cluster are removed.
Disowned(e, c, ok) ==
  /\ Statement(c, ok)
  /\ owned' = IF ok THEN [owned EXCEPT ![enrol[e].user] = @ \ In(@, c)] ELSE owned
  /\ Changed /\ UpdateOnly /\ UNCHANGED <<hash, stored>>

\* A user without rows gets rows, but nothing is written to hash_data.
SelectOwned(e, c) ==
  LET old == In(owned[enrol[e].user], c) IN
  /\ UpdateAt(e, c, "queued")
  /\ update' = [update EXCEPT ![<<e, c>>].old = old,
                              ![<<e, c>>].at = IF old = {} THEN "own" ELSE "buckets"]
  /\ messy' = IF \E f \in Enrols \ {e} : Midway(f, c) THEN messy \cup {c} ELSE messy
  /\ UpdateOnly /\ UNCHANGED <<owned, hash, stored, faults, disturbed>>
\* The contents of the cells the user has had rows for.  If the select fails,
\* that is noticed after the user's rows have been removed.
SelectHash(e, c, ok) ==
  /\ UpdateAt(e, c, "buckets") /\ Statement(c, ok)
  /\ update' = IF ok THEN [update EXCEPT ![<<e, c>>].at = "disown",
                                         ![<<e, c>>].seen = {i \in update[<<e, c>>].old \X Users :
                                                               i[2] \in hash[i[1]]}]
               ELSE [update EXCEPT ![<<e, c>>].at = "strip"]
  /\ UpdateOnly /\ UNCHANGED <<owned, hash, stored, disturbed>>
Strip(e, c, ok) ==
  /\ UpdateAt(e, c, "strip") /\ Disowned(e, c, ok)
  /\ UpdateGoes(e, c, "lost")

\* Mutant: the user's old vectors stay.
OthersAndOwn(e, c, x) == {u \in Users : <<x, u>> \in update[<<e, c>>].seen}
\* Who else was in a cell.
Others(e, c, x) ==
  {u \in Users : <<x, u>> \in update[<<e, c>>].seen} \ {enrol[e].user}
\* What the cell is to hold: the others, if the user had a row for it, and the
\* user if there is a new vector.
Refilled(e, c, x) == Others(e, c, x) \cup (IF x \in New(e, c) THEN {enrol[e].user} ELSE {})
Had(e, c) == {i[1] : i \in update[<<e, c>>].seen}
Empties(e, c) == {x \in Had(e, c) : Refilled(e, c, x) = {}}
Fills(e, c)   == {x \in Had(e, c) \cup New(e, c) : Refilled(e, c, x) # {}}
Filling(e, c) == IF Fills(e, c) # {} THEN "write" ELSE "own"
Disown(e, c, ok) ==
  /\ UpdateAt(e, c, "disown") /\ Disowned(e, c, ok)
  /\ UpdateGoes(e, c, IF Empties(e, c) # {} THEN "drop" ELSE Filling(e, c))
Drop(e, c, ok) ==
  /\ UpdateAt(e, c, "drop") /\ Statement(c, ok)
  /\ hash' = IF ok THEN [x \in Cells |-> IF x \in Empties(e, c) THEN {} ELSE hash[x]] ELSE hash
  /\ UpdateGoes(e, c, Filling(e, c))
  /\ Changed /\ UpdateOnly /\ UNCHANGED <<owned, stored>>
\* Every cell is written as a whole.
Write(e, c, ok) ==
  /\ UpdateAt(e, c, "write") /\ Statement(c, ok)
  /\ hash' = IF ok THEN [x \in Cells |-> IF x \in Fills(e, c) THEN Refilled(e, c, x)
                                         ELSE hash[x]]
             ELSE hash
  /\ stored' = IF ok THEN stored \cup {i \in Fills(e, c) \X Users :
                                         i[2] \in Refilled(e, c, i[1])}
               ELSE stored
  /\ UpdateGoes(e, c, "own")
  /\ Changed /\ UpdateOnly /\ UNCHANGED owned
Own(e, c, ok) ==
  /\ UpdateAt(e, c, "own") /\ Statement(c, ok)
  /\ owned' = IF ok THEN [owned EXCEPT ![enrol[e].user] = @ \cup New(e, c)] ELSE owned
  /\ update' = [update EXCEPT ![<<e, c>>] = [NoUpdate EXCEPT !.at = "done"]]
  /\ Changed /\ UpdateOnly /\ UNCHANGED <<hash, stored>>

-----------------------------------------------------------------------------
(* Faults.                                                                     *)

\* A job of the chain raises, or ends without a result.
ChainJobs == {"start", "prepare", "users", "run", "estimate"}
Break(r) ==
  /\ run[r].at \in ChainJobs /\ Fault /\ Goes(r, "lost")
  /\ ChainOnly /\ UNCHANGED redisVars
\* A select of a cluster's job, or the first of an update, fails and its caller
\* raises.
JobBreak(r, c) ==
  /\ job[<<r, c>>].at \in {"owners", "buckets"} /\ Fault
  /\ JobGoes(r, c, "lost")
  /\ UNCHANGED <<indexVars, redisVars, cache, run, plugin, answer, enrol, update, disturbed>>
UpdateBreak(e, c) ==
  /\ UpdateAt(e, c, "queued") /\ Fault
  /\ UpdateGoes(e, c, "lost")
  /\ UpdateOnly /\ UNCHANGED <<indexVars, disturbed>>
\* The images of an enrolment are not saved: the result is published for a
\* callback that cannot read it.
EnrolBreak(e) ==
  /\ enrol[e].at = "start" /\ Fault /\ EnrolGoes(e, "lost")
  /\ EnrolOnly /\ UNCHANGED update
\* A worker that starts removes what is queued; what ran is gone.
Restart ==
  /\ Fault
  /\ run' = [r \in Runs |-> IF run[r].at \in ChainJobs THEN [run[r] EXCEPT !.at = "lost"]
                            ELSE run[r]]
  /\ job' = [i \in Runs \X Clusters |->
               IF job[i].at \in {"none", "done"} THEN job[i] ELSE [job[i] EXCEPT !.at = "lost"]]
  /\ enrol' = [e \in Enrols |-> IF enrol[e].at \in {"start", "spread"}
                                THEN [enrol[e] EXCEPT !.at = "lost"] ELSE enrol[e]]
  /\ update' = [i \in Enrols \X Clusters |->
                  IF update[i].at \in {"none", "done"} THEN update[i]
                  ELSE [update[i] EXCEPT !.at = "lost"]]
  /\ messy' = messy \cup {c \in Clusters : \E e \in Enrols : Midway(e, c)}
  /\ UNCHANGED <<owned, hash, stored, redisVars, cache, plugin, answer, disturbed>>

-----------------------------------------------------------------------------
RunStep(r) ==
  \/ Prepare(r) \/ Spread(r)
  \/ \E ok \in BOOLEAN : LoadUsers(r, ok)
  \/ \E S \in SUBSET Cells : Begin(r, S)
  \/ \E v \in Users \cup {Nobody} : Finish(r, v)
JobStep(r, c) ==
  \/ SelectOwners(r, c) \/ SelectBuckets(r, c) \/ Put(r, c)
  \/ \E x \in Cells : Load(r, c, x) \/ Score(r, c, x)
  \/ Append(r, c) \/ Count(r, c) \/ Gather(r, c)
EnrolStep(e) ==
  \/ \E ok \in BOOLEAN : InitUpdate(e, ok)
  \/ \E V \in SUBSET Cells : Greet(e, V)
UpdateStep(e, c) ==
  \/ SelectOwned(e, c)
  \/ \E ok \in BOOLEAN : \/ SelectHash(e, c, ok) \/ Strip(e, c, ok) \/ Disown(e, c, ok)
                         \/ Drop(e, c, ok) \/ Write(e, c, ok) \/ Own(e, c, ok)

Next ==
  \/ \E r \in Runs : Identify(r) \/ RunStep(r) \/ Answer(r) \/ Break(r)
  \/ \E r \in Runs, c \in Clusters : JobStep(r, c) \/ JobBreak(r, c)
  \/ \E e \in Enrols : EnrolStep(e) \/ EnrolBreak(e) \/ \E u \in Users : Enrol(e, u)
  \/ \E e \in Enrols, c \in Clusters : UpdateStep(e, c) \/ UpdateBreak(e, c)
  \/ Restart

Spec == Init /\ [][Next]_vars

\* The workers run what is queued, the detection included, and the server
\* handles the results; phones, the AI and faults are free.
WorkerStep ==
  \/ \E r \in Runs : RunStep(r)
  \/ \E r \in Runs, c \in Clusters : JobStep(r, c)
  \/ \E e \in Enrols : EnrolStep(e)
  \/ \E e \in Enrols, c \in Clusters : UpdateStep(e, c)
ServerStep == \E r \in Runs : Answer(r)
FairSpec == Spec /\ WF_vars(WorkerStep) /\ WF_vars(ServerStep)

-----------------------------------------------------------------------------
(* Properties.                                                                 *)

\* A verdict is made from the results of all clusters of its run, and by then
\* the run has nothing left in Redis.
WholeEstimate ==
  \A r \in Runs : run[r].at \in {"estimate", "news", "over"} =>
    /\ run[r].results = Sampled(r)
    /\ counter[r] = None /\ partial[r] = {} /\ r \notin kept

\* A user that is named has had a vector in a bucket of the samples, whoever
\* else loaded or moved what at the same time.
FoundWasStored ==
  \A r \in Runs : run[r].verdict \in Users =>
    \E x \in run[r].sample : <<x, run[r].verdict>> \in stored

\* The index has no vector its user has no row for, so that the next enrolment
\* finds and removes it, except while an update of the user is under way;
\* updates of one cluster that overlap, or fail half way, leave such vectors.
Indexed ==
  \A x \in Cells : x[1] \notin messy =>
    \A u \in hash[x] : \/ x \in owned[u]
                       \/ \E e \in Enrols : Midway(e, x[1]) /\ enrol[e].user = u

\* A user of the provider whose row and vectors are in a bucket of the samples
\* is a hit of the job that looked it up, whatever was left in Redis by earlier
\* runs, if nobody changed the index or loaded cells while the job worked.
NobodyMissed ==
  \A r \in Runs \ disturbed : \A x \in run[r].sample : \A u \in Provided \cap hash[x] :
    /\ x \in owned[u]
    /\ job[<<r, x[1]>>].at \in {"append", "count", "gather", "done"}
    => <<x, u>> \in job[<<r, x[1]>>].hits

\* No cluster was found in the samples.
Unfound(r) == At(r, "lost") /\ run[r].sample = {}
\* The flow whose callback the plugin holds is answered, unless there was a
\* fault, no cluster was found in its samples, or an enrolment put its own
\* callback into the plugin.
IdentAnswered ==
  plugin # 0 ~> \/ faults > 0 \/ plugin = 0
                \/ \E r \in Runs : /\ plugin = r
                                   /\ answer[r] # None \/ Unfound(r)
=============================================================================
