------------------------- MODULE IdentificationProofs -------------------------
(* Proofs about Identification, for any users, index, bounds and faults.       *)
EXTENDS Identification, FiniteSetTheorems, TLAPS

RunSet == [at : RunStages, sample : SUBSET Cells, results : SUBSET Clusters,
           verdict : Users \cup {Nobody, None}]
JobSet == [at : JobStages, load : SUBSET Cells, seen : SUBSET (Cells \X Users),
           now : Cells \cup {None}, left : SUBSET Cells, hits : SUBSET (Cells \X Users)]
EnrolSet  == [at : EnrolStages, user : Users \cup {None}, vectors : SUBSET Cells,
              verified : BOOLEAN]
UpdateSet == [at : UpdateStages, old : SUBSET Cells, seen : SUBSET (Cells \X Users)]

\* The types, but for the counter, which is a natural number because of what it
\* counts (Counted).
IndexTypes ==
  /\ owned \in [Users -> SUBSET Cells] /\ hash \in [Cells -> SUBSET Users]
  /\ cache \in [Cells -> SUBSET Users]
  /\ stored \subseteq Cells \X Users /\ messy \subseteq Clusters
RedisTypes ==
  /\ counter \in [Runs -> Int \cup {None}] /\ partial \in [Runs -> SUBSET Clusters]
  /\ kept \subseteq Runs
PlainTypes ==
  /\ plugin \in 0..MaxRuns /\ answer \in [Runs -> Users \cup {Nobody, None}]
  /\ faults \in 0..MaxTroubles /\ disturbed \subseteq Runs
\* An update belongs to an enrolment of somebody that has found its vectors.
Enrolled ==
  /\ \A e \in Enrols : enrol[e].at # "none" => enrol[e].user \in Users
  /\ \A e \in Enrols, c \in Clusters :
       update[<<e, c>>].at # "none" => enrol[e].at \notin {"none", "start", "spread"}
Types ==
  /\ IndexTypes /\ RedisTypes /\ PlainTypes
  /\ run \in [Runs -> RunSet] /\ job \in [Runs \X Clusters -> JobSet]
  /\ enrol \in [Enrols -> EnrolSet] /\ update \in [Enrols \X Clusters -> UpdateSet]
  /\ Enrolled

LEMMA NoRunTyped == NoRun \in RunSet
BY DEF NoRun, RunSet, RunStages
LEMMA NoJobTyped == NoJob \in JobSet
BY DEF NoJob, JobSet, JobStages
LEMMA NoEnrolTyped == NoEnrol \in EnrolSet
BY DEF NoEnrol, EnrolSet, EnrolStages
LEMMA NoUpdateTyped == NoUpdate \in UpdateSet
BY DEF NoUpdate, UpdateSet, UpdateStages

\* The index has finitely many clusters.
LEMMA ClustersFinite == IsFiniteSet(Clusters)
<1> DEFINE f == [x \in Cells |-> x[1]]
<1>1. f \in Surjection(Cells, Clusters)
  BY DEF Surjection, Clusters
<1>2. QED
  BY <1>1, FS_Surjection, IdentificationConstants

LEMMA SampledFinite ==
  ASSUME Types, NEW r \in Runs
  PROVE  IsFiniteSet(Sampled(r)) /\ Sampled(r) \subseteq Clusters
<1>1. run[r].sample \subseteq Cells
  BY DEF Types, RunSet
<1>2. Sampled(r) \subseteq Clusters
  BY <1>1 DEF Sampled, Clusters
<1>3. QED
  BY <1>2, ClustersFinite, FS_Subset

LEMMA InitTypes == Init => Types
<1> SUFFICES ASSUME Init PROVE Types
  OBVIOUS
<1>1. IndexTypes
  BY DEF Init, IndexTypes, Vectors
<1>2. RedisTypes /\ PlainTypes
  BY IdentificationConstants DEF Init, RedisTypes, PlainTypes
<1>3. Enrolled
  BY DEF Init, Enrolled, NoEnrol, NoUpdate
<1>4. QED
  BY <1>1, <1>2, <1>3, NoRunTyped, NoJobTyped, NoEnrolTyped, NoUpdateTyped DEF Init, Types

\* A fault is within the bound.
LEMMA FaultTyped ==
  ASSUME Types, Fault
  PROVE  faults' \in 0..MaxTroubles
<1>1. IsFiniteSet(Begun) /\ IsFiniteSet(Given)
  <2>1. IsFiniteSet(Runs) /\ IsFiniteSet(Enrols)
    BY FS_Interval, IdentificationConstants DEF Runs, Enrols
  <2>2. QED
    BY <2>1, FS_Subset DEF Begun, Given
<1>2. Cardinality(Begun) \in Nat /\ Cardinality(Given) \in Nat
  BY <1>1, FS_CardinalityType
<1>3. Cardinality(Begun) # 0 \/ Cardinality(Given) # 0
  BY <1>1, FS_EmptySet DEF Fault
<1> DEFINE b == Cardinality(Begun)
           g == Cardinality(Given)
<1>4. faults \in Nat /\ faults' = faults + 1 /\ faults + b + g <= MaxTroubles
  BY DEF Types, PlainTypes, Fault, Spare
<1> HIDE DEF b, g
<1>5. QED
  BY <1>2, <1>3, <1>4, IdentificationConstants DEF b, g

LEMMA SucceedsTyped ==
  ASSUME Types, NEW ok \in BOOLEAN, Succeeds(ok)
  PROVE  faults' \in 0..MaxTroubles
BY FaultTyped DEF Succeeds, Types, PlainTypes

LEMMA RunMoved ==
  ASSUME Types, NEW r \in Runs, NEW s \in RunStages, Goes(r, s)
  PROVE  run' \in [Runs -> RunSet]
BY DEF Types, Goes, RunSet

LEMMA JobMoved ==
  ASSUME Types, NEW r \in Runs, NEW c \in Clusters, NEW s \in JobStages, JobGoes(r, c, s)
  PROVE  job' \in [Runs \X Clusters -> JobSet]
<1>1. <<r, c>> \in Runs \X Clusters
  OBVIOUS
<1>2. [job[<<r, c>>] EXCEPT !.at = s] \in JobSet
  <2>1. job[<<r, c>>] \in JobSet
    BY <1>1 DEF Types
  <2>2. QED
    BY <2>1 DEF JobSet
<1>3. job' = [job EXCEPT ![<<r, c>>] = [job[<<r, c>>] EXCEPT !.at = s]]
  BY DEF JobGoes
<1>4. QED
  BY <1>2, <1>3 DEF Types

LEMMA UpdateMoved ==
  ASSUME Types, NEW e \in Enrols, NEW c \in Clusters, NEW s \in UpdateStages,
         UpdateGoes(e, c, s)
  PROVE  update' \in [Enrols \X Clusters -> UpdateSet]
BY DEF Types, UpdateGoes, UpdateSet

LEMMA RunStepTypes ==
  ASSUME Types, NEW r \in Runs, Identify(r) \/ RunStep(r) \/ Answer(r) \/ Break(r)
  PROVE  Types'
<1> USE DEF indexVars, redisVars, ChainOnly
<1>1. CASE Identify(r)
  <2>1. run' \in [Runs -> RunSet]
    BY <1>1, RunMoved DEF Identify, RunStages
  <2>2. plugin' \in 0..MaxRuns
    BY <1>1 DEF Identify, Runs
  <2>3. QED
    BY <1>1, <2>1, <2>2 DEF Identify, Types, IndexTypes, RedisTypes, PlainTypes,
         Enrolled
<1>2. CASE Prepare(r)
  <2>1. run' \in [Runs -> RunSet]
    BY <1>2, RunMoved DEF Prepare, RunStages
  <2>2. QED
    BY <1>2, <2>1 DEF Prepare, Types, IndexTypes, RedisTypes, PlainTypes,
         Enrolled
<1>3. CASE Spread(r)
  <2>1. run' \in [Runs -> RunSet]
    BY <1>3, RunMoved DEF Spread, RunStages
  <2>2. counter' \in [Runs -> Int \cup {None}]
    <3>1. IsFiniteSet(Sampled(r))
      BY SampledFinite
    <3>2. Waited(r) \in Int
      BY <3>1, FS_CardinalityType DEF Waited
    <3>3. QED
      BY <1>3, <3>2 DEF Spread, Types, RedisTypes
  <2>3. job' \in [Runs \X Clusters -> JobSet]
    <3> DEFINE Fresh(c) == [NoJob EXCEPT !.at = "owners", !.left = In(run[r].sample, c)]
    <3>1. \A c : Fresh(c) \in JobSet
      BY NoJobTyped DEF JobSet, JobStages, In, Types, RunSet
    <3>2. CASE Sampled(r) = {}
      BY <1>3, <3>2 DEF Spread, Types
    <3>3. CASE Sampled(r) # {}
      <4>1. job' = [i \in Runs \X Clusters |->
                      IF i[1] = r /\ i[2] \in Sampled(r) THEN Fresh(i[2]) ELSE job[i]]
        BY <1>3, <3>3 DEF Spread
      <4> HIDE DEF Fresh
      <4>2. QED
        BY <3>1, <4>1 DEF Types
    <3>4. QED
      BY <3>2, <3>3
  <2>4. QED
    BY <1>3, <2>1, <2>2, <2>3 DEF Spread, Types, IndexTypes, RedisTypes, PlainTypes,
         Enrolled
<1>4. ASSUME NEW ok \in BOOLEAN, LoadUsers(r, ok) PROVE Types'
  <2>1. run' \in [Runs -> RunSet]
    BY <1>4, RunMoved DEF LoadUsers, RunStages
  <2>2. QED
    BY <1>4, <2>1, SucceedsTyped DEF LoadUsers, Types, IndexTypes, RedisTypes, PlainTypes,
         Enrolled
<1>5. ASSUME NEW S \in SUBSET Cells, Begin(r, S) PROVE Types'
  <2>1. run' \in [Runs -> RunSet]
    BY <1>5 DEF Begin, RunStages, Types, RunSet
  <2>2. QED
    BY <1>5, <2>1 DEF Begin, Types, IndexTypes, RedisTypes, PlainTypes,
         Enrolled
<1>6. ASSUME NEW v \in Users \cup {Nobody}, Finish(r, v) PROVE Types'
  <2>1. run' \in [Runs -> RunSet]
    BY <1>6 DEF Finish, RunStages, Types, RunSet
  <2>2. job' \in [Runs \X Clusters -> JobSet]
    BY <1>6, NoJobTyped DEF Finish, Types
  <2>3. QED
    BY <1>6, <2>1, <2>2 DEF Finish, Types, IndexTypes, RedisTypes, PlainTypes,
         Enrolled
<1>7. CASE Answer(r)
  <2>1. run' \in [Runs -> RunSet]
    BY <1>7, RunMoved DEF Answer, RunStages
  <2>2. answer' \in [Runs -> Users \cup {Nobody, None}]
    BY <1>7 DEF Answer, Types, PlainTypes, RunSet
  <2>3. QED
    BY <1>7, <2>1, <2>2 DEF Answer, Types, IndexTypes, RedisTypes, PlainTypes,
         Enrolled
<1>8. CASE Break(r)
  <2>1. run' \in [Runs -> RunSet]
    BY <1>8, RunMoved DEF Break, RunStages
  <2>2. QED
    BY <1>8, <2>1, FaultTyped DEF Break, Types, IndexTypes, RedisTypes, PlainTypes,
         Enrolled
<1>9. QED
  BY <1>1, <1>2, <1>3, <1>4, <1>5, <1>6, <1>7, <1>8 DEF RunStep

\* Writing a whole job, or update.
LEMMA JobWritten ==
  ASSUME Types, NEW r \in Runs, NEW c \in Clusters, NEW j \in JobSet,
         job' = [job EXCEPT ![<<r, c>>] = j]
  PROVE  job' \in [Runs \X Clusters -> JobSet]
BY DEF Types

LEMMA JobStepTypes ==
  ASSUME Types, NEW r \in Runs, NEW c \in Clusters, JobStep(r, c) \/ JobBreak(r, c)
  PROVE  Types'
<1> DEFINE j == job[<<r, c>>]
<1> USE DEF indexVars, redisVars
<1>j. j \in JobSet
  <2>1. <<r, c>> \in Runs \X Clusters
    OBVIOUS
  <2>2. QED
    BY <2>1 DEF Types
<1> HIDE DEF j
<1>1. CASE SelectOwners(r, c)
  <2> DEFINE L == In(UNION {owned[u] : u \in Provided}, c)
             k == [j EXCEPT !.load = L, !.at = IF L = {} THEN "score" ELSE "buckets"]
  <2>1. L \subseteq Cells
    BY IdentificationConstants DEF In, Types, IndexTypes
  <2>2. k \in JobSet
    <3> HIDE DEF L
    <3> QED
      BY <1>j, <2>1 DEF JobSet, JobStages
  <2>3. job' = [job EXCEPT ![<<r, c>>] = k]
    BY <1>1 DEF SelectOwners, j
  <2>4. job' \in [Runs \X Clusters -> JobSet]
    BY <2>2, <2>3, JobWritten
  <2>5. QED
    BY <1>1, <2>4 DEF SelectOwners, IndexOnly, JobOnly, Types, IndexTypes, RedisTypes, PlainTypes,
         Enrolled
<1>2. CASE SelectBuckets(r, c)
  <2> DEFINE L == {x \in j.load : hash[x] # {}}
             s == {i \in L \X Users : i[2] \in hash[i[1]]}
             k == [j EXCEPT !.load = L, !.seen = s, !.at = IF L = {} THEN "score" ELSE "load"]
  <2>1. L \subseteq Cells /\ s \subseteq Cells \X Users
    BY <1>j DEF JobSet
  <2>2. k \in JobSet
    <3> HIDE DEF L, s
    <3> QED
      BY <1>j, <2>1 DEF JobSet, JobStages
  <2>3. job' = [job EXCEPT ![<<r, c>>] = k]
    BY <1>2 DEF SelectBuckets, j
  <2>4. job' \in [Runs \X Clusters -> JobSet]
    BY <2>2, <2>3, JobWritten
  <2>5. QED
    BY <1>2, <2>4 DEF SelectBuckets, IndexOnly, JobOnly, Types, IndexTypes, RedisTypes, PlainTypes,
         Enrolled
<1>3. CASE Put(r, c)
  <2> DEFINE L == LeftToLoad(j)
             k == [j EXCEPT !.load = L, !.now = None, !.seen = IF L = {} THEN {} ELSE @,
                            !.at = IF L = {} THEN "score" ELSE "load"]
  <2>1. L \subseteq Cells
    BY <1>j DEF JobSet, LeftToLoad
  <2>2. k \in JobSet
    <3> HIDE DEF L
    <3> QED
      BY <1>j, <2>1 DEF JobSet, JobStages
  <2>3. job' = [job EXCEPT ![<<r, c>>] = k]
    BY <1>3 DEF Put, j
  <2>4. job' \in [Runs \X Clusters -> JobSet]
    BY <2>2, <2>3, JobWritten
  <2>5. cache' \in [Cells -> SUBSET Users]
    BY <1>3 DEF Put, Types, IndexTypes
  <2>6. disturbed' \subseteq Runs
    BY <1>3 DEF Put, Reading, Types, PlainTypes
  <2>7. QED
    BY <1>3, <2>4, <2>5, <2>6 DEF Put, IndexOnly, JobOnly, Types, IndexTypes, RedisTypes, PlainTypes,
         Enrolled
<1>4. ASSUME NEW x \in Cells, Load(r, c, x) PROVE Types'
  <2> DEFINE k == [j EXCEPT !.at = "put", !.now = x]
  <2>1. k \in JobSet
    BY <1>j DEF JobSet, JobStages
  <2>2. job' = [job EXCEPT ![<<r, c>>] = k]
    BY <1>4 DEF Load, j
  <2>3. job' \in [Runs \X Clusters -> JobSet]
    BY <2>1, <2>2, JobWritten
  <2>4. cache' \in [Cells -> SUBSET Users]
    BY <1>4 DEF Load, Types, IndexTypes
  <2>5. disturbed' \subseteq Runs
    BY <1>4 DEF Load, Reading, Types, PlainTypes
  <2>6. QED
    BY <1>4, <2>3, <2>4, <2>5 DEF Load, IndexOnly, JobOnly, Types, IndexTypes, RedisTypes, PlainTypes,
         Enrolled
<1>5. ASSUME NEW x \in Cells, Score(r, c, x) PROVE Types'
  <2> DEFINE F == Found(x)
             k == [j EXCEPT !.hits = @ \cup ({x} \X F), !.left = @ \ {x},
                            !.at = IF j.left = {x} THEN "append" ELSE "score"]
  <2>1. F \subseteq Users
    BY DEF Found, Types, IndexTypes
  <2>2. k \in JobSet
    <3> HIDE DEF F
    <3>1. {x} \X F \subseteq Cells \X Users
      BY <2>1
    <3>2. QED
      BY <1>j, <3>1 DEF JobSet, JobStages
  <2>3. job' = [job EXCEPT ![<<r, c>>] = k]
    BY <1>5 DEF Score, j
  <2>4. job' \in [Runs \X Clusters -> JobSet]
    BY <2>2, <2>3, JobWritten
  <2>5. QED
    BY <1>5, <2>4 DEF Score, IndexOnly, JobOnly, Types, IndexTypes, RedisTypes, PlainTypes,
         Enrolled
<1>6. CASE Append(r, c)
  <2>1. job' \in [Runs \X Clusters -> JobSet]
    BY <1>6, JobMoved DEF Append, JobStages
  <2>2. partial' \in [Runs -> SUBSET Clusters]
    BY <1>6 DEF Append, Types, RedisTypes
  <2>3. QED
    BY <1>6, <2>1, <2>2 DEF Append, JobOnly, Types, IndexTypes, RedisTypes, PlainTypes,
         Enrolled
<1>7. CASE Count(r, c)
  <2>1. job' \in [Runs \X Clusters -> JobSet]
    BY <1>7, JobMoved DEF Count, JobStages
  <2>2. counter' \in [Runs -> Int \cup {None}]
    BY <1>7, IdentificationConstants DEF Count, Decremented, Types, RedisTypes
  <2>3. QED
    BY <1>7, <2>1, <2>2 DEF Count, JobOnly, Types, IndexTypes, RedisTypes, PlainTypes,
         Enrolled
<1>8. CASE Gather(r, c)
  <2>1. job' \in [Runs \X Clusters -> JobSet]
    BY <1>8, JobMoved DEF Gather, JobStages
  <2>2. run' \in [Runs -> RunSet]
    <3> DEFINE k == [run[r] EXCEPT !.results = partial[r], !.at = "estimate"]
    <3>1. run' = [run EXCEPT ![r] = k]
      BY <1>8 DEF Gather
    <3>2. run[r] \in RunSet /\ partial[r] \in SUBSET Clusters
      BY DEF Types, RedisTypes
    <3>3. k \in RunSet
      BY <3>2 DEF RunSet, RunStages
    <3> HIDE DEF k
    <3>4. QED
      BY <3>1, <3>3 DEF Types
  <2>3. counter' \in [Runs -> Int \cup {None}] /\ partial' \in [Runs -> SUBSET Clusters]
    BY <1>8 DEF Gather, Types, RedisTypes
  <2>4. QED
    BY <1>8, <2>1, <2>2, <2>3 DEF Gather, Types, IndexTypes, RedisTypes, PlainTypes,
         Enrolled
<1>9. CASE JobBreak(r, c)
  <2>1. job' \in [Runs \X Clusters -> JobSet]
    BY <1>9, JobMoved DEF JobBreak, JobStages
  <2>2. QED
    BY <1>9, <2>1, FaultTyped DEF JobBreak, Types, IndexTypes, RedisTypes, PlainTypes,
         Enrolled
<1>10. QED
  BY <1>1, <1>2, <1>3, <1>4, <1>5, <1>6, <1>7, <1>8, <1>9 DEF JobStep

LEMMA EnrolStepTypes ==
  ASSUME Types, NEW e \in Enrols,
         EnrolStep(e) \/ EnrolBreak(e) \/ \E u \in Users : Enrol(e, u)
  PROVE  Types'
<1> USE DEF indexVars, redisVars, EnrolOnly
<1>1. ASSUME NEW ok \in BOOLEAN, InitUpdate(e, ok) PROVE Types'
  <2>1. enrol' \in [Enrols -> EnrolSet]
    BY <1>1 DEF InitUpdate, Verified, Types, EnrolSet, EnrolStages
  <2>2. update' \in [Enrols \X Clusters -> UpdateSet]
    <3>1. [NoUpdate EXCEPT !.at = "queued"] \in UpdateSet
      BY NoUpdateTyped DEF UpdateSet, UpdateStages
    <3>2. QED
      BY <1>1, <3>1 DEF InitUpdate, Types
  <2>3. faults' \in 0..MaxTroubles
    BY <1>1, SucceedsTyped DEF InitUpdate, Verified
  <2>4. Enrolled'
    BY <1>1 DEF InitUpdate, Verified, Types, Enrolled, EnrolSet, NoUpdate
  <2>5. QED
    BY <1>1, <2>1, <2>2, <2>3, <2>4 DEF InitUpdate, Types, IndexTypes, RedisTypes, PlainTypes
<1>2. ASSUME NEW V \in SUBSET Cells, Greet(e, V) PROVE Types'
  <2>1. enrol' \in [Enrols -> EnrolSet]
    BY <1>2 DEF Greet, Types, EnrolSet, EnrolStages
  <2>2. Enrolled'
    BY <1>2 DEF Greet, Types, Enrolled, EnrolSet
  <2>3. QED
    BY <1>2, <2>1, <2>2 DEF Greet, Types, IndexTypes, RedisTypes, PlainTypes
<1>3. CASE EnrolBreak(e)
  <2>1. enrol' \in [Enrols -> EnrolSet]
    BY <1>3 DEF EnrolBreak, EnrolGoes, Types, EnrolSet, EnrolStages
  <2>2. Enrolled'
    BY <1>3 DEF EnrolBreak, EnrolGoes, Types, Enrolled, EnrolSet
  <2>3. QED
    BY <1>3, <2>1, FaultTyped, <2>2 DEF EnrolBreak, Types, IndexTypes, RedisTypes, PlainTypes
<1>4. ASSUME NEW u \in Users, Enrol(e, u) PROVE Types'
  <2>1. [NoEnrol EXCEPT !.at = "start", !.user = u] \in EnrolSet
    BY NoEnrolTyped DEF EnrolSet, EnrolStages
  <2>2. enrol' \in [Enrols -> EnrolSet]
    BY <1>4, <2>1 DEF Enrol, Types
  <2>3. Enrolled'
    BY <1>4 DEF Enrol, Admits, Given, NoEnrol, Types, Enrolled, EnrolSet
  <2>4. plugin' \in 0..MaxRuns
    <3>1. plugin' = 0
      BY <1>4 DEF Enrol
    <3>2. 0 \in 0..MaxRuns
      BY IdentificationConstants
    <3>3. QED
      BY <3>1, <3>2
  <2>5. QED
    BY <1>4, <2>2, <2>3, <2>4 DEF Enrol, Types, IndexTypes, RedisTypes, PlainTypes
<1>5. QED
  BY <1>1, <1>2, <1>3, <1>4 DEF EnrolStep

LEMMA StatementTyped ==
  ASSUME Types, NEW c \in Clusters, NEW ok \in BOOLEAN, Statement(c, ok)
  PROVE  faults' \in 0..MaxTroubles /\ messy' \subseteq Clusters
BY SucceedsTyped DEF Statement, Types, IndexTypes

LEMMA ChangedTyped ==
  ASSUME Types, Changed
  PROVE  disturbed' \subseteq Runs
BY DEF Changed, Reading, Types, PlainTypes

LEMMA UpdateEnrolled ==
  ASSUME Types, NEW e \in Enrols, NEW c \in Clusters, update[<<e, c>>].at # "none", enrol' = enrol,
         \A i \in Enrols \X Clusters : i # <<e, c>> => update'[i] = update[i]
  PROVE  Enrolled' /\ enrol[e].user \in Users
BY DEF Types, Enrolled

LEMMA DisownedTypes ==
  ASSUME Types, NEW e \in Enrols, NEW c \in Clusters, NEW ok \in BOOLEAN,
         Disowned(e, c, ok), update' \in [Enrols \X Clusters -> UpdateSet], Enrolled'
  PROVE  Types'
<1>1. faults' \in 0..MaxTroubles /\ messy' \subseteq Clusters /\ disturbed' \subseteq Runs
  BY StatementTyped, ChangedTyped DEF Disowned
<1>2. owned' \in [Users -> SUBSET Cells]
  BY DEF Disowned, Types, IndexTypes
<1>3. QED
  BY <1>1, <1>2 DEF Disowned, UpdateOnly, redisVars, Types, IndexTypes, RedisTypes, PlainTypes

LEMMA UpdateStepTypes ==
  ASSUME Types, NEW e \in Enrols, NEW c \in Clusters, UpdateStep(e, c) \/ UpdateBreak(e, c)
  PROVE  Types'
<1> DEFINE p == update[<<e, c>>]
<1> USE DEF indexVars, redisVars
<1>p. p \in UpdateSet
  <2>1. <<e, c>> \in Enrols \X Clusters
    OBVIOUS
  <2>2. QED
    BY <2>1 DEF Types
<1>new. New(e, c) \subseteq Cells
  BY DEF New, In, Types, EnrolSet
<1>enrolled. Enrolled' /\ enrol[e].user \in Users
  <2>1. p.at # "none"
    BY DEF UpdateStep, UpdateBreak, UpdateAt, SelectOwned, SelectHash, Strip, Disown, Drop, Write, Own
  <2>2. enrol' = enrol
    BY DEF UpdateStep, UpdateBreak, UpdateOnly, SelectOwned, SelectHash, Strip, Disown, Drop,
           Write, Own, Disowned
  <2>3. \A i \in Enrols \X Clusters : i # <<e, c>> => update'[i] = update[i]
    BY DEF UpdateStep, UpdateBreak, UpdateGoes, SelectOwned, SelectHash, Strip, Disown, Drop,
           Write, Own, Types
  <2>4. QED
    BY <2>1, <2>2, <2>3, UpdateEnrolled
<1>1. CASE SelectOwned(e, c)
  <2> DEFINE old == In(owned[enrol[e].user], c)
             q == [p EXCEPT !.old = old, !.at = IF old = {} THEN "own" ELSE "buckets"]
  <2>1. old \subseteq Cells
    BY <1>enrolled DEF In, Types, IndexTypes
  <2>2. q \in UpdateSet
    <3> HIDE DEF old, p
    <3> QED
      BY <1>p, <2>1 DEF UpdateSet, UpdateStages
  <2>3. update' = [update EXCEPT ![<<e, c>>] = q]
    BY <1>1 DEF SelectOwned
  <2>4. update' \in [Enrols \X Clusters -> UpdateSet]
    <3> HIDE DEF q
    <3> QED
      BY <2>2, <2>3 DEF Types
  <2>5. messy' \subseteq Clusters
    BY <1>1 DEF SelectOwned, Types, IndexTypes
  <2>6. QED
    BY <1>enrolled, <1>1, <2>4, <2>5 DEF SelectOwned, UpdateOnly, Types, IndexTypes, RedisTypes, PlainTypes
<1>2. ASSUME NEW ok \in BOOLEAN, SelectHash(e, c, ok) PROVE Types'
  <2> DEFINE s == {i \in p.old \X Users : i[2] \in hash[i[1]]}
             q == IF ok THEN [p EXCEPT !.at = "disown", !.seen = s] ELSE [p EXCEPT !.at = "strip"]
  <2>1. s \subseteq Cells \X Users
    <3> HIDE DEF p
    <3> QED
      BY <1>p DEF UpdateSet
  <2>2. q \in UpdateSet
    <3> HIDE DEF s, p
    <3> QED
      BY <1>p, <2>1 DEF UpdateSet, UpdateStages
  <2>3. update' = [update EXCEPT ![<<e, c>>] = q]
    BY <1>2 DEF SelectHash
  <2>4. update' \in [Enrols \X Clusters -> UpdateSet]
    <3> HIDE DEF q
    <3> QED
      BY <2>2, <2>3 DEF Types
  <2>5. QED
    BY <1>enrolled, <1>2, <2>4, StatementTyped
    DEF SelectHash, UpdateOnly, Types, IndexTypes, RedisTypes, PlainTypes
<1>3. ASSUME NEW ok \in BOOLEAN, Strip(e, c, ok) PROVE Types'
  BY <1>3, <1>enrolled, UpdateMoved, DisownedTypes DEF Strip, UpdateStages
<1>4. ASSUME NEW ok \in BOOLEAN, Disown(e, c, ok) PROVE Types'
  BY <1>4, <1>enrolled, UpdateMoved, DisownedTypes DEF Disown, UpdateStages, Filling
<1>filled. /\ \A x \in Cells : Refilled(e, c, x) \subseteq Users
           /\ Fills(e, c) \subseteq Cells
  <2>2. \A x \in Cells : Refilled(e, c, x) \subseteq Users
    BY <1>enrolled DEF Refilled, Others
  <2>3. Had(e, c) \subseteq Cells
    <3> HIDE DEF p
    <3>1. p.seen \subseteq Cells \X Users
      BY <1>p DEF UpdateSet
    <3>2. QED
      BY <3>1 DEF Had, p
  <2>4. QED
    BY <1>new, <2>2, <2>3 DEF Fills
<1>5. ASSUME NEW ok \in BOOLEAN, Drop(e, c, ok) PROVE Types'
  <2>1. update' \in [Enrols \X Clusters -> UpdateSet]
    BY <1>5, UpdateMoved DEF Drop, UpdateStages, Filling
  <2>2. hash' \in [Cells -> SUBSET Users]
    BY <1>5 DEF Drop, Types, IndexTypes
  <2>3. QED
    BY <1>enrolled, <1>5, <2>1, <2>2, StatementTyped, ChangedTyped
    DEF Drop, UpdateOnly, Types, IndexTypes, RedisTypes, PlainTypes
<1>6. ASSUME NEW ok \in BOOLEAN, Write(e, c, ok) PROVE Types'
  <2>1. update' \in [Enrols \X Clusters -> UpdateSet]
    BY <1>6, UpdateMoved DEF Write, UpdateStages
  <2>2. hash' \in [Cells -> SUBSET Users]
    BY <1>6, <1>filled DEF Write, Types, IndexTypes
  <2>3. stored' \subseteq Cells \X Users
    BY <1>6, <1>filled DEF Write, Types, IndexTypes
  <2>4. QED
    BY <1>enrolled, <1>6, <2>1, <2>2, <2>3, StatementTyped, ChangedTyped
    DEF Write, UpdateOnly, Types, IndexTypes, RedisTypes, PlainTypes
<1>7. ASSUME NEW ok \in BOOLEAN, Own(e, c, ok) PROVE Types'
  <2>1. update' \in [Enrols \X Clusters -> UpdateSet]
    <3>1. [NoUpdate EXCEPT !.at = "done"] \in UpdateSet
      BY NoUpdateTyped DEF UpdateSet, UpdateStages
    <3>2. QED
      BY <1>7, <3>1 DEF Own, Types
  <2>2. owned' \in [Users -> SUBSET Cells]
    BY <1>7, <1>new DEF Own, Types, IndexTypes
  <2>3. QED
    BY <1>enrolled, <1>7, <2>1, <2>2, StatementTyped, ChangedTyped
    DEF Own, UpdateOnly, Types, IndexTypes, RedisTypes, PlainTypes
<1>8. CASE UpdateBreak(e, c)
  <2>1. update' \in [Enrols \X Clusters -> UpdateSet]
    BY <1>8, UpdateMoved DEF UpdateBreak, UpdateStages
  <2>2. QED
    BY <1>enrolled, <1>8, <2>1, FaultTyped DEF UpdateBreak, UpdateOnly, Types, IndexTypes, RedisTypes, PlainTypes
<1>9. QED
  BY <1>1, <1>2, <1>3, <1>4, <1>5, <1>6, <1>7, <1>8 DEF UpdateStep

LEMMA RestartTypes ==
  ASSUME Types, Restart
  PROVE  Types'
<1>1. run' \in [Runs -> RunSet]
  BY DEF Restart, Types, RunSet, RunStages
<1>2. job' \in [Runs \X Clusters -> JobSet]
  <2>1. \A k \in JobSet : [k EXCEPT !.at = "lost"] \in JobSet
    BY DEF JobSet, JobStages
  <2>2. QED
    BY <2>1 DEF Restart, Types
<1>3. enrol' \in [Enrols -> EnrolSet]
  BY DEF Restart, Types, EnrolSet, EnrolStages
<1>4. update' \in [Enrols \X Clusters -> UpdateSet]
  <2>1. \A p \in UpdateSet : [p EXCEPT !.at = "lost"] \in UpdateSet
    BY DEF UpdateSet, UpdateStages
  <2>2. QED
    BY <2>1 DEF Restart, Types
<1>5. Enrolled'
  BY DEF Restart, Types, Enrolled, EnrolSet
<1>6. QED
  BY <1>1, <1>2, <1>3, <1>4, <1>5, FaultTyped
  DEF Restart, redisVars, Types, IndexTypes, RedisTypes, PlainTypes

LEMMA NextTypes ==
  ASSUME Types, [Next]_vars
  PROVE  Types'
<1>1. CASE UNCHANGED vars
  BY <1>1 DEF vars, indexVars, redisVars, Types, IndexTypes, RedisTypes, PlainTypes, Enrolled
<1>2. CASE Next
  BY <1>2, RunStepTypes, JobStepTypes, EnrolStepTypes, UpdateStepTypes, RestartTypes DEF Next
<1>3. QED
  BY <1>1, <1>2

-----------------------------------------------------------------------------
(* Who is named was stored: every copy of a vector, in the index, in Redis, in *)
(* a job or in an update, is of one that was stored, and the hits of a job are *)
(* in the buckets of its run's samples.                                        *)

Known(x, u) == <<x, u>> \in stored
IndexKnown ==
  \A x \in Cells, u \in Users : u \in hash[x] \/ u \in cache[x] => Known(x, u)
JobKnown(r, c) ==
  LET j == job[<<r, c>>] IN
  /\ j.seen \subseteq stored /\ j.hits \subseteq stored
  /\ j.left \subseteq run[r].sample
  /\ \A x \in Cells, u \in Users : <<x, u>> \in j.hits => x \in run[r].sample
  /\ run[r].at \in {"none", "start"} => j.hits = {} /\ j.left = {}
UpdateKnown(e, c) == update[<<e, c>>].seen \subseteq stored
RunKnown(r) ==
  /\ run[r].at \in {"none", "start"} => run[r].verdict = None
  /\ run[r].verdict \in Users => \E x \in run[r].sample : Known(x, run[r].verdict)
AllKnown ==
  /\ IndexKnown
  /\ \A r \in Runs : RunKnown(r) /\ \A c \in Clusters : JobKnown(r, c)
  /\ \A e \in Enrols, c \in Clusters : UpdateKnown(e, c)

LEMMA InitKnown == Init => AllKnown
<1> SUFFICES ASSUME Init PROVE AllKnown
  OBVIOUS
<1>1. IndexKnown
  BY DEF Init, Vectors, IndexKnown, Known
<1>2. ASSUME NEW r \in Runs PROVE RunKnown(r)
  BY IdentificationConstants DEF Init, RunKnown, NoRun
<1>3. ASSUME NEW r \in Runs, NEW c \in Clusters PROVE JobKnown(r, c)
  BY DEF Init, JobKnown, NoJob
<1>4. ASSUME NEW e \in Enrols, NEW c \in Clusters PROVE UpdateKnown(e, c)
  BY DEF Init, UpdateKnown, NoUpdate
<1>5. QED
  BY <1>1, <1>2, <1>3, <1>4 DEF AllKnown

\* A job, and what its run knows, where the job, the sample and the stage of the
\* run are as they were.
LEMMA JobKept ==
  ASSUME NEW r \in Runs, NEW c \in Clusters, JobKnown(r, c), stored \subseteq stored',
         run'[r].sample = run[r].sample,
         run'[r].at \in {"none", "start"} => run[r].at \in {"none", "start"},
         job'[<<r, c>>].seen \subseteq job[<<r, c>>].seen,
         job'[<<r, c>>].hits = job[<<r, c>>].hits, job'[<<r, c>>].left = job[<<r, c>>].left
  PROVE  JobKnown(r, c)'
BY DEF JobKnown

LEMMA RunKept ==
  ASSUME NEW r \in Runs, RunKnown(r), stored \subseteq stored',
         run'[r].sample = run[r].sample, run'[r].verdict = run[r].verdict,
         run'[r].at \in {"none", "start"} => run[r].at \in {"none", "start"}
  PROVE  RunKnown(r)'
BY DEF RunKnown, Known

\* A run that only moves on.
LEMMA GoesKept ==
  ASSUME Types, NEW r \in Runs, NEW s \in RunStages \ {"none"}, Goes(r, s),
         s = "start" => run[r].at = "none", NEW q \in Runs
  PROVE  /\ run'[q].sample = run[q].sample /\ run'[q].verdict = run[q].verdict
         /\ run'[q].at \in {"none", "start"} => run[q].at \in {"none", "start"}
BY DEF Goes, Types, RunSet

LEMMA GoesKnown ==
  ASSUME Types, AllKnown, NEW r \in Runs, NEW s \in RunStages \ {"none"}, Goes(r, s),
         s = "start" => run[r].at = "none",
         UNCHANGED <<hash, cache, stored, job, update>>
  PROVE  AllKnown'
<1>1. IndexKnown'
  BY DEF AllKnown, IndexKnown, Known
<1>2. ASSUME NEW q \in Runs PROVE RunKnown(q)'
  BY GoesKept, RunKept DEF AllKnown
<1>3. ASSUME NEW q \in Runs, NEW c \in Clusters PROVE JobKnown(q, c)'
  BY GoesKept, JobKept DEF AllKnown
<1>4. ASSUME NEW e \in Enrols, NEW c \in Clusters PROVE UpdateKnown(e, c)'
  BY DEF AllKnown, UpdateKnown
<1>5. QED
  BY <1>1, <1>2, <1>3, <1>4 DEF AllKnown

LEMMA RunStepKnown ==
  ASSUME Types, AllKnown, NEW r \in Runs, Identify(r) \/ RunStep(r) \/ Answer(r) \/ Break(r)
  PROVE  AllKnown'
<1> USE DEF indexVars, redisVars, ChainOnly
<1>1. CASE Identify(r)
  <2>1. run[r].at = "none"
    BY <1>1 DEF Identify, Admits, Begun
  <2>2. QED
    BY <1>1, <2>1, GoesKnown DEF Identify, RunStages
<1>2. CASE Prepare(r)
  BY <1>2, GoesKnown DEF Prepare, RunStages
<1>3. ASSUME NEW ok \in BOOLEAN, LoadUsers(r, ok) PROVE AllKnown'
  BY <1>3, GoesKnown DEF LoadUsers, RunStages
<1>4. CASE Answer(r)
  BY <1>4, GoesKnown DEF Answer, RunStages
<1>5. CASE Break(r)
  BY <1>5, GoesKnown DEF Break, RunStages
<1>6. CASE Spread(r)
  <2>1. CASE Sampled(r) = {}
    BY <1>6, <2>1, GoesKnown DEF Spread, RunStages
  <2>2. CASE Sampled(r) # {}
    <3>1. Goes(r, "jobs")
      BY <1>6, <2>2 DEF Spread
    <3>2. IndexKnown'
      BY <1>6 DEF Spread, AllKnown, IndexKnown, Known
    <3>3. ASSUME NEW q \in Runs PROVE RunKnown(q)'
      BY <1>6, <3>1, GoesKept, RunKept DEF Spread, AllKnown, RunStages
    <3>4. ASSUME NEW q \in Runs, NEW c \in Clusters PROVE JobKnown(q, c)'
      <4>1. CASE q = r /\ c \in Sampled(r)
        <5>1. job'[<<q, c>>] = [NoJob EXCEPT !.at = "owners", !.left = In(run[r].sample, c)]
          BY <1>6, <2>2, <4>1 DEF Spread
        <5>2. run'[q].at = "jobs" /\ run'[q].sample = run[r].sample
          BY <3>1, <4>1 DEF Goes, Types, RunSet
        <5>3. QED
          BY <5>1, <5>2 DEF JobKnown, NoJob, In
      <4>2. CASE ~(q = r /\ c \in Sampled(r))
        <5>1. job'[<<q, c>>] = job[<<q, c>>]
          BY <1>6, <2>2, <4>2 DEF Spread
        <5>2. QED
          BY <1>6, <3>1, <5>1, GoesKept, JobKept DEF Spread, AllKnown, RunStages
      <4>3. QED
        BY <4>1, <4>2
    <3>5. ASSUME NEW e \in Enrols, NEW c \in Clusters PROVE UpdateKnown(e, c)'
      BY <1>6 DEF Spread, AllKnown, UpdateKnown
    <3>6. QED
      BY <3>2, <3>3, <3>4, <3>5 DEF AllKnown
  <2>3. QED
    BY <2>1, <2>2
<1>7. ASSUME NEW S \in SUBSET Cells, Begin(r, S) PROVE AllKnown'
  <2>1. IndexKnown'
    BY <1>7 DEF Begin, AllKnown, IndexKnown, Known
  <2>2. ASSUME NEW q \in Runs PROVE RunKnown(q)'
    BY <1>7, IdentificationConstants DEF Begin, At, AllKnown, RunKnown, Known, Types, RunSet
  <2>3. ASSUME NEW q \in Runs, NEW c \in Clusters PROVE JobKnown(q, c)'
    <3>1. CASE q = r
      <4>1. JobKnown(q, c) /\ run[q].at = "start" /\ run'[q].at = "prepare"
        BY <1>7, <3>1 DEF Begin, At, AllKnown, Types, RunSet
      <4>2. QED
        BY <1>7, <4>1 DEF Begin, JobKnown
    <3>2. CASE q # r
      <4>1. JobKnown(q, c) /\ run'[q] = run[q]
        BY <1>7, <3>2 DEF Begin, AllKnown, Types
      <4>2. QED
        BY <1>7, <4>1 DEF Begin, JobKnown
    <3>3. QED
      BY <3>1, <3>2
  <2>4. ASSUME NEW e \in Enrols, NEW c \in Clusters PROVE UpdateKnown(e, c)'
    BY <1>7 DEF Begin, AllKnown, UpdateKnown
  <2>5. QED
    BY <2>1, <2>2, <2>3, <2>4 DEF AllKnown
<1>8. ASSUME NEW v \in Users \cup {Nobody}, Finish(r, v) PROVE AllKnown'
  <2>1. IndexKnown'
    BY <1>8 DEF Finish, AllKnown, IndexKnown, Known
  <2>2. ASSUME v \in Users PROVE \E x \in run[r].sample : Known(x, v)
    <3>1. Hits(r, v) # {}
      BY <1>8, <2>2, IdentificationConstants DEF Finish, Named, Nobody
    <3>2. PICK i \in run[r].results \X Cells : <<i[2], v>> \in job[<<r, i[1]>>].hits
      BY <3>1 DEF Hits
    <3>3. i[1] \in Clusters /\ i[2] \in Cells
      BY DEF Types, RunSet
    <3>4. JobKnown(r, i[1])
      BY <3>3 DEF AllKnown
    <3>5. QED
      BY <2>2, <3>2, <3>3, <3>4 DEF JobKnown, Known
  <2>3. ASSUME NEW q \in Runs PROVE RunKnown(q)'
    <3>1. CASE q = r
      <4>1. run'[q].sample = run[r].sample /\ run'[q].at = "news" /\ run'[q].verdict = v
        BY <1>8, <3>1 DEF Finish, Types, RunSet
      <4>2. stored' = stored
        BY <1>8 DEF Finish
      <4>3. ASSUME v \in Users PROVE \E x \in run'[q].sample : Known(x, v)'
        BY <2>2, <3>1, <4>1, <4>2, <4>3 DEF Known
      <4>4. QED
        BY <4>1, <4>3 DEF RunKnown, Known
    <3>2. CASE q # r
      BY <1>8, <3>2, RunKept DEF Finish, AllKnown, Types
    <3>3. QED
      BY <3>1, <3>2
  <2>4. ASSUME NEW q \in Runs, NEW c \in Clusters PROVE JobKnown(q, c)'
    <3>1. CASE q = r
      <4>1. job'[<<q, c>>] = NoJob
        BY <1>8, <3>1 DEF Finish
      <4>2. QED
        BY <4>1 DEF JobKnown, NoJob
    <3>2. CASE q # r
      <4>1. job'[<<q, c>>] = job[<<q, c>>] /\ run'[q] = run[q]
        BY <1>8, <3>2 DEF Finish, Types
      <4>2. QED
        BY <1>8, <4>1 DEF Finish, AllKnown, JobKnown
    <3>3. QED
      BY <3>1, <3>2
  <2>5. ASSUME NEW e \in Enrols, NEW c \in Clusters PROVE UpdateKnown(e, c)'
    BY <1>8 DEF Finish, AllKnown, UpdateKnown
  <2>6. QED
    BY <2>1, <2>3, <2>4, <2>5 DEF AllKnown
<1>9. QED
  BY <1>1, <1>2, <1>3, <1>4, <1>5, <1>6, <1>7, <1>8 DEF RunStep

\* A job's step changes no run but by the gathering.
LEMMA JobStepKnown ==
  ASSUME Types, AllKnown, NEW r \in Runs, NEW c \in Clusters, JobStep(r, c) \/ JobBreak(r, c)
  PROVE  AllKnown'
<1> DEFINE j == job[<<r, c>>]
<1> USE DEF indexVars, redisVars
<1>typed. <<r, c>> \in Runs \X Clusters /\ j \in JobSet /\ job' \in [Runs \X Clusters -> JobSet]
  <2>1. <<r, c>> \in Runs \X Clusters
    OBVIOUS
  <2>2. QED
    BY <2>1, JobStepTypes DEF Types
<1>known. JobKnown(r, c) /\ run[r] \in RunSet
  BY DEF AllKnown, Types
<1>same. /\ stored' = stored /\ hash' = hash /\ update' = update
         /\ \A i \in Runs \X Clusters : i # <<r, c>> => job'[i] = job[i]
         /\ \A q \in Runs : /\ run'[q].sample = run[q].sample /\ run'[q].verdict = run[q].verdict
                            /\ run'[q].at \in {"none", "start"} => run[q].at \in {"none", "start"}
  <2>1. stored' = stored /\ hash' = hash /\ update' = update
    BY DEF JobStep, JobBreak, IndexOnly, JobOnly, SelectOwners, SelectBuckets, Load, Put, Score,
           Append, Count, Gather
  <2>2. \A i \in Runs \X Clusters : i # <<r, c>> => job'[i] = job[i]
    BY DEF JobStep, JobBreak, JobGoes, SelectOwners, SelectBuckets, Load, Put, Score,
           Append, Count, Gather, Types
  <2>3. CASE Gather(r, c)
    BY <2>1, <2>2, <2>3 DEF Gather, Types, RunSet
  <2>4. CASE run' = run
    BY <2>1, <2>2, <2>4
  <2>5. QED
    BY <2>3, <2>4 DEF JobStep, JobBreak, IndexOnly, JobOnly, SelectOwners, SelectBuckets, Load,
           Put, Score, Append, Count
<1>sample. /\ run'[r].sample = run[r].sample
           /\ run'[r].at \in {"none", "start"} => run[r].at \in {"none", "start"}
  BY <1>same
\* What is left to show: the step's own job, and the cells it stores.
<1>show. ASSUME IndexKnown', JobKnown(r, c)' PROVE AllKnown'
  <2>1. ASSUME NEW q \in Runs PROVE RunKnown(q)'
    <3>1. RunKnown(q)
      BY DEF AllKnown
    <3>2. QED
      BY <1>same, <3>1, RunKept
  <2>2. ASSUME NEW q \in Runs, NEW d \in Clusters PROVE JobKnown(q, d)'
    <3>1. CASE q = r /\ d = c
      BY <1>show, <3>1
    <3>2. CASE ~(q = r /\ d = c)
      <4>1. job'[<<q, d>>] = job[<<q, d>>] /\ JobKnown(q, d)
        BY <1>same, <3>2 DEF AllKnown
      <4>2. QED
        BY <1>same, <4>1, JobKept
    <3>3. QED
      BY <3>1, <3>2
  <2>3. ASSUME NEW e \in Enrols, NEW d \in Clusters PROVE UpdateKnown(e, d)'
    BY <1>same DEF AllKnown, UpdateKnown
  <2>4. QED
    BY <1>show, <2>1, <2>2, <2>3 DEF AllKnown
<1>index. ASSUME cache' = cache PROVE IndexKnown'
  BY <1>index, <1>same DEF AllKnown, IndexKnown, Known
<1>1. ASSUME cache' = cache, job'[<<r, c>>].seen \subseteq j.seen, job'[<<r, c>>].hits = j.hits,
             job'[<<r, c>>].left = j.left
      PROVE  AllKnown'
  BY <1>1, <1>same, <1>sample, <1>known, <1>index, <1>show, JobKept
<1>2. CASE SelectOwners(r, c)
  BY <1>1, <1>2, <1>typed DEF SelectOwners, IndexOnly, Types, JobSet
<1>3. CASE SelectBuckets(r, c)
  <2> DEFINE L == {x \in j.load : hash[x] # {}}
             s == {i \in L \X Users : i[2] \in hash[i[1]]}
  <2>1. /\ job'[<<r, c>>].seen = s /\ job'[<<r, c>>].hits = j.hits
        /\ job'[<<r, c>>].left = j.left /\ cache' = cache
    BY <1>3, <1>typed DEF SelectBuckets, IndexOnly, Types, JobSet
  <2>2. s \subseteq stored
    BY <1>typed DEF AllKnown, IndexKnown, Known, JobSet
  <2>3. JobKnown(r, c)'
    <3> HIDE DEF s
    <3> QED
      BY <1>known, <1>same, <1>sample, <2>1, <2>2 DEF JobKnown
  <2>4. QED
    BY <2>1, <2>3, <1>index, <1>show
<1>4. CASE Put(r, c)
  <2>1. /\ job'[<<r, c>>].seen \subseteq j.seen /\ job'[<<r, c>>].hits = j.hits
        /\ job'[<<r, c>>].left = j.left
    BY <1>4, <1>typed DEF Put, Types, JobSet
  <2>2. JobKnown(r, c)'
    BY <1>known, <1>same, <1>sample, <2>1, JobKept
  <2>3. IndexKnown'
    BY <1>4, <1>known, <1>same DEF Put, AllKnown, IndexKnown, Known, JobKnown, Types, IndexTypes
  <2>4. QED
    BY <2>2, <2>3, <1>show
<1>5. ASSUME NEW x \in Cells, Load(r, c, x) PROVE AllKnown'
  <2>1. /\ job'[<<r, c>>].seen = j.seen /\ job'[<<r, c>>].hits = j.hits
        /\ job'[<<r, c>>].left = j.left
    BY <1>5, <1>typed DEF Load, Types, JobSet
  <2>2. JobKnown(r, c)'
    BY <1>known, <1>same, <1>sample, <2>1, JobKept
  <2>3. IndexKnown'
    BY <1>5, <1>same DEF Load, AllKnown, IndexKnown, Known, Types, IndexTypes
  <2>4. QED
    BY <2>2, <2>3, <1>show
<1>6. ASSUME NEW x \in Cells, Score(r, c, x) PROVE AllKnown'
  <2>1. /\ job'[<<r, c>>].seen = j.seen /\ job'[<<r, c>>].hits = j.hits \cup ({x} \X cache[x])
        /\ job'[<<r, c>>].left = j.left \ {x} /\ cache' = cache
    BY <1>6, <1>typed DEF Score, Found, IndexOnly, Types, JobSet
  <2>2. {x} \X cache[x] \subseteq stored /\ x \in run[r].sample /\ x \in j.left
    <3>1. cache[x] \subseteq Users
      BY DEF Types, IndexTypes
    <3>2. \A u \in cache[x] : <<x, u>> \in stored
      BY <3>1 DEF AllKnown, IndexKnown, Known
    <3>3. QED
      BY <1>6, <1>known, <3>2 DEF Score, JobKnown
  <2>3. JobKnown(r, c)'
    BY <1>known, <1>same, <1>sample, <2>1, <2>2 DEF JobKnown
  <2>4. QED
    BY <2>1, <2>3, <1>index, <1>show
<1>7. ASSUME NEW s \in JobStages, JobGoes(r, c, s), cache' = cache PROVE AllKnown'
  BY <1>1, <1>7, <1>typed DEF JobGoes, Types, JobSet
<1>8. QED
  BY <1>2, <1>3, <1>4, <1>5, <1>6, <1>7
  DEF JobStep, JobBreak, Append, Count, Gather, JobStages, JobOnly

\* What runs and jobs know is not touched by steps of others that store vectors.
LEMMA OthersKnown ==
  ASSUME AllKnown, stored \subseteq stored', UNCHANGED <<run, job>>
  PROVE  \A r \in Runs : RunKnown(r)' /\ \A c \in Clusters : JobKnown(r, c)'
<1>1. ASSUME NEW r \in Runs PROVE RunKnown(r)'
  BY RunKept DEF AllKnown
<1>2. ASSUME NEW r \in Runs, NEW c \in Clusters PROVE JobKnown(r, c)'
  BY JobKept DEF AllKnown
<1>3. QED
  BY <1>1, <1>2

LEMMA EnrolStepKnown ==
  ASSUME Types, AllKnown, NEW e \in Enrols,
         EnrolStep(e) \/ EnrolBreak(e) \/ \E u \in Users : Enrol(e, u)
  PROVE  AllKnown'
<1>1. UNCHANGED <<hash, cache, stored, run, job>>
  BY DEF EnrolStep, EnrolBreak, Enrol, Greet, InitUpdate, EnrolOnly, indexVars
<1>2. IndexKnown'
  BY <1>1 DEF AllKnown, IndexKnown, Known
<1>3. ASSUME NEW f \in Enrols, NEW c \in Clusters PROVE UpdateKnown(f, c)'
  <2>1. update'[<<f, c>>] = update[<<f, c>>] \/ update'[<<f, c>>].seen = {}
    BY DEF EnrolStep, EnrolBreak, Enrol, Greet, InitUpdate, EnrolOnly, NoUpdate
  <2>2. QED
    BY <1>1, <2>1 DEF AllKnown, UpdateKnown
<1>4. QED
  BY <1>1, <1>2, <1>3, OthersKnown DEF AllKnown

LEMMA UpdateStepKnown ==
  ASSUME Types, AllKnown, NEW e \in Enrols, NEW c \in Clusters,
         UpdateStep(e, c) \/ UpdateBreak(e, c)
  PROVE  AllKnown'
<1> DEFINE p == update[<<e, c>>]
<1> USE DEF indexVars, UpdateOnly
<1>typed. /\ <<e, c>> \in Enrols \X Clusters /\ p \in UpdateSet
          /\ update' \in [Enrols \X Clusters -> UpdateSet]
  <2>1. <<e, c>> \in Enrols \X Clusters
    OBVIOUS
  <2>2. QED
    BY <2>1, UpdateStepTypes DEF Types
<1>same. UNCHANGED <<cache, run, job>> /\ stored \subseteq stored'
  BY DEF UpdateStep, UpdateBreak, SelectOwned, SelectHash, Strip, Disown, Disowned, Drop, Write, Own
<1>others. ASSUME NEW f \in Enrols, NEW d \in Clusters, <<f, d>> # <<e, c>>
           PROVE  UpdateKnown(f, d)'
  <2>1. update'[<<f, d>>] = update[<<f, d>>]
    BY <1>others DEF UpdateStep, UpdateBreak, UpdateGoes, SelectOwned, SelectHash, Strip, Disown,
                     Drop, Write, Own, Types
  <2>2. QED
    BY <1>same, <2>1 DEF AllKnown, UpdateKnown
<1>show. ASSUME IndexKnown', update'[<<e, c>>].seen \subseteq stored' PROVE AllKnown'
  BY <1>same, <1>others, <1>show, OthersKnown DEF AllKnown, UpdateKnown
<1>seen. p.seen \subseteq stored
  BY DEF AllKnown, UpdateKnown
<1>1. ASSUME hash' = hash, update'[<<e, c>>].seen \subseteq p.seen PROVE AllKnown'
  <2>1. IndexKnown'
    BY <1>1, <1>same DEF AllKnown, IndexKnown, Known
  <2>2. QED
    BY <1>1, <1>same, <1>seen, <1>show, <2>1
<1>2. CASE SelectOwned(e, c)
  BY <1>1, <1>2, <1>typed DEF SelectOwned, Types, UpdateSet
<1>3. ASSUME NEW ok \in BOOLEAN, SelectHash(e, c, ok) PROVE AllKnown'
  <2>1. CASE ok
    <3> DEFINE s == {i \in p.old \X Users : i[2] \in hash[i[1]]}
    <3>1. update'[<<e, c>>].seen = s /\ hash' = hash /\ stored' = stored
      BY <1>3, <1>typed, <2>1 DEF SelectHash, Types, UpdateSet
    <3>2. s \subseteq stored
      <4>1. p.old \subseteq Cells
        <5> HIDE DEF p
        <5> QED
          BY <1>typed DEF UpdateSet
      <4>2. QED
        BY <4>1 DEF AllKnown, IndexKnown, Known
    <3>3. IndexKnown'
      BY <1>same, <3>1 DEF AllKnown, IndexKnown, Known
    <3>4. QED
      BY <1>show, <3>1, <3>2, <3>3
  <2>2. CASE ~ok
    BY <1>1, <1>3, <1>typed, <2>2 DEF SelectHash, Types, UpdateSet
  <2>3. QED
    BY <2>1, <2>2
<1>goes. ASSUME NEW s, UpdateGoes(e, c, s) PROVE update'[<<e, c>>].seen = p.seen
  BY <1>goes, <1>typed DEF UpdateGoes, Types, UpdateSet
<1>4. ASSUME NEW ok \in BOOLEAN, Strip(e, c, ok) \/ Disown(e, c, ok) PROVE AllKnown'
  BY <1>1, <1>4, <1>goes DEF Strip, Disown, Disowned
<1>5. ASSUME NEW ok \in BOOLEAN, Drop(e, c, ok) PROVE AllKnown'
  <2>1. \A x \in Cells : hash'[x] \subseteq hash[x]
    BY <1>5 DEF Drop, Types, IndexTypes
  <2>2. IndexKnown'
    BY <1>same, <2>1 DEF AllKnown, IndexKnown, Known
  <2>3. QED
    BY <1>5, <1>same, <1>goes, <1>seen, <1>show, <2>2 DEF Drop
<1>6. ASSUME NEW ok \in BOOLEAN, Write(e, c, ok) PROVE AllKnown'
  <2>1. ASSUME NEW x \in Cells, NEW u \in Users, u \in hash'[x] PROVE Known(x, u)'
    <3>1. u \in hash[x] \/ (ok /\ x \in Fills(e, c) /\ u \in Refilled(e, c, x))
      BY <1>6, <2>1 DEF Write, Types, IndexTypes
    <3>2. CASE u \in hash[x]
      BY <1>same, <3>2 DEF AllKnown, IndexKnown, Known
    <3>3. CASE ok /\ x \in Fills(e, c) /\ u \in Refilled(e, c, x)
      BY <1>6, <3>3 DEF Write, Known
    <3>4. QED
      BY <3>1, <3>2, <3>3
  <2>2. IndexKnown'
    BY <1>same, <2>1 DEF AllKnown, IndexKnown, Known
  <2>3. QED
    BY <1>6, <1>same, <1>goes, <1>seen, <1>show, <2>2 DEF Write
<1>7. ASSUME NEW ok \in BOOLEAN, Own(e, c, ok) PROVE AllKnown'
  BY <1>1, <1>7, <1>typed DEF Own, NoUpdate, Types
<1>8. CASE UpdateBreak(e, c)
  BY <1>1, <1>8, <1>goes DEF UpdateBreak
<1>9. QED
  BY <1>2, <1>3, <1>4, <1>5, <1>6, <1>7, <1>8 DEF UpdateStep

LEMMA RestartKnown ==
  ASSUME Types, AllKnown, Restart
  PROVE  AllKnown'
<1>1. IndexKnown'
  BY DEF Restart, AllKnown, IndexKnown, Known
<1>2. ASSUME NEW r \in Runs
      PROVE  /\ run'[r].sample = run[r].sample /\ run'[r].verdict = run[r].verdict
             /\ run'[r].at \in {"none", "start"} => run[r].at \in {"none", "start"}
  BY DEF Restart, Types, RunSet
<1>3. ASSUME NEW r \in Runs PROVE RunKnown(r)'
  BY <1>2, RunKept DEF Restart, AllKnown
<1>4. ASSUME NEW r \in Runs, NEW c \in Clusters PROVE JobKnown(r, c)'
  <2>1. job[<<r, c>>] \in JobSet
    BY DEF Types
  <2>2. job'[<<r, c>>] \in {job[<<r, c>>], [job[<<r, c>>] EXCEPT !.at = "lost"]}
    BY DEF Restart
  <2>3. /\ job'[<<r, c>>].seen = job[<<r, c>>].seen /\ job'[<<r, c>>].hits = job[<<r, c>>].hits
        /\ job'[<<r, c>>].left = job[<<r, c>>].left
    BY <2>1, <2>2 DEF JobSet
  <2>4. QED
    BY <1>2, <2>3, JobKept DEF Restart, AllKnown
<1>5. ASSUME NEW e \in Enrols, NEW c \in Clusters PROVE UpdateKnown(e, c)'
  <2>1. update[<<e, c>>] \in UpdateSet
    BY DEF Types
  <2>2. update'[<<e, c>>].seen = update[<<e, c>>].seen
    BY <2>1 DEF Restart, UpdateSet
  <2>3. QED
    BY <2>2 DEF Restart, AllKnown, UpdateKnown
<1>6. QED
  BY <1>1, <1>3, <1>4, <1>5 DEF AllKnown

LEMMA NextKnown ==
  ASSUME Types, AllKnown, [Next]_vars
  PROVE  AllKnown'
<1>1. CASE UNCHANGED vars
  <2>1. UNCHANGED <<hash, cache, stored, run, job, update>>
    BY <1>1 DEF vars, indexVars
  <2>2. QED
    BY <2>1, OthersKnown DEF AllKnown, IndexKnown, Known, UpdateKnown
<1>2. CASE Next
  BY <1>2, RunStepKnown, JobStepKnown, EnrolStepKnown, UpdateStepKnown, RestartKnown DEF Next
<1>3. QED
  BY <1>1, <1>2

\* Type correctness, but for the counter's being no integer below zero.
THEOREM Typed == Spec => []Types
<1>1. Types /\ [Next]_vars => Types'
  BY NextTypes
<1>2. QED
  BY <1>1, InitTypes, PTL DEF Spec

\* Who is named has had a vector in a bucket of the samples, for any number of
\* identifications and enrolments that interleave, fail and restart.
THEOREM NamedWasStored == Spec => []FoundWasStored
<1>1. Types /\ AllKnown /\ [Next]_vars => AllKnown'
  BY NextKnown
<1>2. AllKnown => FoundWasStored
  BY DEF AllKnown, RunKnown, Known, FoundWasStored
<1>3. QED
  BY <1>1, <1>2, InitKnown, Typed, PTL DEF Spec

-----------------------------------------------------------------------------
(* An estimate is whole: the counter of a run is never less than the number of *)
(* its clusters whose results are not counted, those of lost jobs included.    *)

Working == {"owners", "buckets", "load", "put", "score", "append", "count"}
Open(r) == {c \in Sampled(r) : job[<<r, c>>].at \in Working \/ c \notin partial[r]}

\* While the jobs work ...
CountHolds(r) ==
  /\ counter[r] \in Nat /\ Cardinality(Open(r)) <= counter[r]
  /\ partial[r] \subseteq Sampled(r)
  /\ \A c \in Clusters :
       /\ JobAt(r, c, "count") => c \in partial[r]
       /\ JobAt(r, c, "gather") => counter[r] = 0
       /\ job[<<r, c>>].at \in Working \cup {"gather"} => c \in Sampled(r)
  /\ \A c, d \in Clusters : JobAt(r, c, "gather") /\ JobAt(r, d, "gather") => c = d
\* ... and before and after.
CountOver(r) ==
  /\ counter[r] = None /\ partial[r] = {}
  /\ \A c \in Clusters : job[<<r, c>>].at \notin Working \cup {"gather"}
Counted(r) ==
  /\ IF At(r, "jobs") THEN CountHolds(r) ELSE CountOver(r)
  /\ run[r].at \in {"estimate", "news", "over"} => run[r].results = Sampled(r)
  /\ r \in kept => run[r].at \in {"users", "lost"}
AllCounted == \A r \in Runs : Counted(r)

LEMMA InitCounted == Init => AllCounted
BY DEF Init, AllCounted, Counted, CountOver, At, NoRun, NoJob, Working

LEMMA OpenFinite ==
  ASSUME Types, NEW r \in Runs
  PROVE  IsFiniteSet(Open(r)) /\ Cardinality(Open(r)) \in Nat
BY SampledFinite, FS_Subset, FS_CardinalityType DEF Open

\* Steps that do not count: a job may move on to another piece of work, or be lost.
LEMMA CountKept ==
  ASSUME Types, NEW r \in Runs, Counted(r),
         run'[r].sample = run[r].sample, run'[r].results = run[r].results,
         counter'[r] = counter[r], partial'[r] = partial[r],
         run'[r].at = "jobs" <=> run[r].at = "jobs",
         run'[r].at \in {"estimate", "news", "over"} =>
           run[r].at \in {"estimate", "news", "over"},
         r \in kept' => run'[r].at \in {"users", "lost"},
         \A c \in Clusters :
           /\ job'[<<r, c>>].at \in Working => job[<<r, c>>].at \in Working
           /\ job'[<<r, c>>].at = "count" => job[<<r, c>>].at = "count"
           /\ job'[<<r, c>>].at = "gather" => job[<<r, c>>].at = "gather"
  PROVE  Counted(r)'
<1>1. Sampled(r)' = Sampled(r) /\ Sampled(r) \subseteq Clusters
  BY SampledFinite DEF Sampled
<1>2. CASE At(r, "jobs")
  <2>1. CountHolds(r)
    BY <1>2 DEF Counted
  <2>2. Open(r)' \subseteq Open(r)
    BY <1>1 DEF Open
  <2>3. Cardinality(Open(r)') <= counter'[r]
    <3>1. Cardinality(Open(r)') <= Cardinality(Open(r)) /\ Cardinality(Open(r)') \in Nat
      BY <2>2, OpenFinite, FS_Subset, FS_CardinalityType
    <3>2. QED
      BY <2>1, <3>1, OpenFinite DEF CountHolds
  <2>4. CountHolds(r)'
    BY <1>1, <2>1, <2>3 DEF CountHolds, JobAt
  <2>5. QED
    BY <1>2, <2>4 DEF Counted, At
<1>3. CASE ~At(r, "jobs")
  BY <1>1, <1>3 DEF Counted, CountOver, At
<1>4. QED
  BY <1>2, <1>3

\* A run that only moves on, outside of its jobs.
LEMMA GoesCounted ==
  ASSUME Types, AllCounted, NEW r \in Runs, NEW s \in RunStages, Goes(r, s),
         run[r].at # "jobs", s # "jobs",
         s \in {"estimate", "news", "over"} => run[r].at \in {"estimate", "news", "over"},
         kept' \subseteq (kept \ {r}) \cup (IF s \in {"users", "lost"} THEN {r} ELSE {}),
         UNCHANGED <<job, counter, partial>>, NEW q \in Runs
  PROVE  Counted(q)'
<1>1. CASE q = r
  <2>1. run'[q] = [run[q] EXCEPT !.at = s] /\ run[q] \in RunSet
    BY <1>1 DEF Goes, Types
  <2>2. run'[q].at = s /\ run'[q].sample = run[q].sample /\ run'[q].results = run[q].results
    BY <2>1 DEF RunSet
  <2>3. QED
    BY <1>1, <2>2, CountKept DEF AllCounted
<1>2. CASE q # r
  <2>1. run'[q] = run[q]
    BY <1>2 DEF Goes, Types
  <2>2. q \in kept' => run[q].at \in {"users", "lost"}
    BY <1>2 DEF AllCounted, Counted
  <2>3. QED
    BY <2>1, <2>2, CountKept DEF AllCounted
<1>3. QED
  BY <1>1, <1>2

LEMMA RunStepCounted ==
  ASSUME Types, AllCounted, NEW r \in Runs, Identify(r) \/ RunStep(r) \/ Answer(r) \/ Break(r)
  PROVE  AllCounted'
<1> USE DEF indexVars, redisVars, ChainOnly
<1>kept. r \in kept => run[r].at \in {"users", "lost"}
  BY DEF AllCounted, Counted
<1>goes. ASSUME NEW s \in RunStages, Goes(r, s), run[r].at # "jobs", s # "jobs",
                s \in {"estimate", "news", "over"} => run[r].at \in {"estimate", "news", "over"},
                kept' \subseteq (kept \ {r}) \cup (IF s \in {"users", "lost"} THEN {r} ELSE {}),
                UNCHANGED <<job, counter, partial>>
         PROVE  AllCounted'
  BY <1>goes, GoesCounted DEF AllCounted
<1>1. CASE Identify(r)
  <2>1. run[r].at = "none"
    BY <1>1 DEF Identify, Admits, Begun
  <2>2. kept' \subseteq kept \ {r}
    BY <1>1, <1>kept, <2>1 DEF Identify
  <2>3. QED
    BY <1>1, <1>goes, <2>1, <2>2 DEF Identify, RunStages
<1>2. CASE Prepare(r)
  BY <1>2, <1>goes DEF Prepare, At, RunStages
<1>3. ASSUME NEW ok \in BOOLEAN, LoadUsers(r, ok) PROVE AllCounted'
  BY <1>3, <1>goes DEF LoadUsers, At, RunStages
<1>4. CASE Answer(r)
  BY <1>4, <1>goes, <1>kept DEF Answer, At, RunStages
<1>5. CASE Break(r)
  BY <1>5, <1>goes DEF Break, ChainJobs, RunStages
<1>6. CASE Spread(r)
  <2>1. CASE Sampled(r) = {}
    BY <1>6, <2>1, <1>goes DEF Spread, At, RunStages
  <2>2. CASE Sampled(r) # {}
    <3>1. /\ run'[r].at = "jobs" /\ Sampled(r)' = Sampled(r)
          /\ \A q \in Runs : q # r => run'[q] = run[q]
      BY <1>6, <2>2 DEF Spread, Goes, Sampled, Types, RunSet
    <3>2. \A c \in Clusters : /\ c \in Sampled(r) => job'[<<r, c>>].at = "owners"
                              /\ c \notin Sampled(r) => job'[<<r, c>>] = job[<<r, c>>]
      BY <1>6, <2>2 DEF Spread, NoJob
    <3>3. CountOver(r)
      BY <1>6 DEF Spread, At, AllCounted, Counted
    <3>4. counter'[r] \in Nat /\ Cardinality(Open(r)') <= counter'[r]
      <4>1. counter'[r] = Cardinality(Sampled(r))
        BY <1>6, <2>2 DEF Spread, Waited, Types, RedisTypes
      <4>2. Open(r)' \subseteq Sampled(r)
        BY <3>1 DEF Open
      <4>3. QED
        BY <4>1, <4>2, SampledFinite, FS_Subset, FS_CardinalityType
    <3>5. Counted(r)'
      <4>1. partial'[r] = {}
        BY <1>6, <3>3 DEF Spread, CountOver
      <4>2. CountHolds(r)'
        BY <3>1, <3>2, <3>3, <3>4, <4>1 DEF CountHolds, CountOver, JobAt, Working
      <4>3. QED
        BY <1>6, <1>kept, <3>1, <4>2 DEF Spread, Counted, At
    <3>6. ASSUME NEW q \in Runs, q # r PROVE Counted(q)'
      <4>1. \A c \in Clusters : job'[<<q, c>>] = job[<<q, c>>]
        BY <1>6, <2>2, <3>6 DEF Spread
      <4>2. counter'[q] = counter[q] /\ partial'[q] = partial[q] /\ kept' = kept
        BY <1>6, <2>2, <3>6 DEF Spread, Types, RedisTypes
      <4>3. Counted(q) /\ run'[q] = run[q]
        BY <3>1, <3>6 DEF AllCounted
      <4>4. q \in kept' => run'[q].at \in {"users", "lost"}
        BY <4>2, <4>3 DEF Counted
      <4>5. QED
        BY <4>1, <4>2, <4>3, <4>4, CountKept
    <3>7. QED
      BY <3>5, <3>6 DEF AllCounted
  <2>3. QED
    BY <2>1, <2>2
<1>7. ASSUME NEW S \in SUBSET Cells, Begin(r, S) PROVE AllCounted'
  <2>1. ASSUME NEW q \in Runs PROVE Counted(q)'
    <3>1. CASE q = r
      <4>1. run[r].at = "start" /\ run'[q].at = "prepare"
        BY <1>7, <3>1 DEF Begin, At, Types, RunSet
      <4>2. Counted(q) /\ UNCHANGED <<counter, partial, kept, job>>
        BY <1>7 DEF Begin, AllCounted
      <4>3. QED
        BY <3>1, <4>1, <4>2 DEF Counted, CountOver, At
    <3>2. CASE q # r
      <4>1. Counted(q) /\ run'[q] = run[q] /\ UNCHANGED <<counter, partial, kept, job>>
        BY <1>7, <3>2 DEF Begin, AllCounted, Types
      <4>2. q \in kept' => run'[q].at \in {"users", "lost"}
        BY <4>1 DEF Counted
      <4>3. QED
        BY <4>1, <4>2, CountKept
    <3>3. QED
      BY <3>1, <3>2
  <2>2. QED
    BY <2>1 DEF AllCounted
<1>8. ASSUME NEW v \in Users \cup {Nobody}, Finish(r, v) PROVE AllCounted'
  <2>1. ASSUME NEW q \in Runs PROVE Counted(q)'
    <3>1. Counted(q) /\ UNCHANGED <<counter, partial, kept>>
      BY <1>8 DEF Finish, AllCounted
    <3>2. /\ run'[q].sample = run[q].sample /\ run'[q].results = run[q].results
          /\ run'[q].at = IF q = r THEN "news" ELSE run[q].at
          /\ run[r].at = "estimate"
      BY <1>8 DEF Finish, At, Types, RunSet
    <3>3. \A c \in Clusters : job'[<<q, c>>] \in {NoJob, job[<<q, c>>]}
      BY <1>8 DEF Finish
    <3>4. q \in kept' => run'[q].at \in {"users", "lost"}
      BY <3>1, <3>2, <1>kept DEF Counted
    <3>5. \A c \in Clusters :
            /\ job'[<<q, c>>].at \in Working => job[<<q, c>>].at \in Working
            /\ job'[<<q, c>>].at = "count" => job[<<q, c>>].at = "count"
            /\ job'[<<q, c>>].at = "gather" => job[<<q, c>>].at = "gather"
      BY <3>3 DEF NoJob, Working
    <3>6. QED
      BY <3>1, <3>2, <3>4, <3>5, CountKept
  <2>2. QED
    BY <2>1 DEF AllCounted
<1>9. QED
  BY <1>1, <1>2, <1>3, <1>4, <1>5, <1>6, <1>7, <1>8 DEF RunStep

LEMMA JobStepCounted ==
  ASSUME Types, AllCounted, NEW r \in Runs, NEW c \in Clusters, JobStep(r, c) \/ JobBreak(r, c)
  PROVE  AllCounted'
<1> DEFINE j == job[<<r, c>>]
<1> USE DEF indexVars, redisVars
<1>typed. /\ <<r, c>> \in Runs \X Clusters /\ j \in JobSet
          /\ \A s : JobGoes(r, c, s) => job'[<<r, c>>].at = s
  <2>1. <<r, c>> \in Runs \X Clusters
    OBVIOUS
  <2>2. j \in JobSet
    BY <2>1 DEF Types
  <2>3. QED
    BY <2>1, <2>2 DEF JobGoes, Types, JobSet
<1>others. \A i \in Runs \X Clusters : i # <<r, c>> => job'[i] = job[i]
  BY DEF JobStep, JobBreak, JobGoes, SelectOwners, SelectBuckets, Load, Put, Score,
         Append, Count, Gather, Types
<1>kept. kept' = kept
  BY DEF JobStep, JobBreak, IndexOnly, JobOnly, SelectOwners, SelectBuckets, Load, Put, Score,
         Append, Count, Gather
\* Only the step's own run is concerned.
<1>show. ASSUME Counted(r)',
                \A q \in Runs : q # r => /\ run'[q] = run[q] /\ counter'[q] = counter[q]
                                         /\ partial'[q] = partial[q]
         PROVE  AllCounted'
  <2>1. ASSUME NEW q \in Runs, q # r PROVE Counted(q)'
    <3>1. \A d \in Clusters : job'[<<q, d>>] = job[<<q, d>>]
      BY <1>others, <2>1
    <3>2. Counted(q) /\ run'[q] = run[q] /\ counter'[q] = counter[q] /\ partial'[q] = partial[q]
      BY <1>show, <2>1 DEF AllCounted
    <3>3. q \in kept' => run'[q].at \in {"users", "lost"}
      BY <1>kept, <3>2 DEF Counted
    <3>4. QED
      BY <3>1, <3>2, <3>3, CountKept
  <2>2. QED
    BY <1>show, <2>1 DEF AllCounted
<1>counted. Counted(r) /\ (r \in kept => run[r].at \in {"users", "lost"})
  BY DEF AllCounted, Counted
<1>at. ASSUME j.at \in Working \cup {"gather"} PROVE At(r, "jobs") /\ CountHolds(r)
  BY <1>at, <1>counted DEF Counted, CountOver
\* The job goes on working, or is lost, and counts nothing.
<1>1. ASSUME UNCHANGED <<run, counter, partial>>, job'[<<r, c>>].at # "gather",
             job'[<<r, c>>].at # "count",
             job'[<<r, c>>].at \in Working => j.at \in Working
      PROVE  AllCounted'
  <2>1. \A d \in Clusters :
          /\ job'[<<r, d>>].at \in Working => job[<<r, d>>].at \in Working
          /\ job'[<<r, d>>].at = "count" => job[<<r, d>>].at = "count"
          /\ job'[<<r, d>>].at = "gather" => job[<<r, d>>].at = "gather"
    <3>1. ASSUME NEW d \in Clusters, d # c PROVE job'[<<r, d>>] = job[<<r, d>>]
      BY <1>others, <3>1
    <3>2. QED
      BY <1>1, <3>1
  <2>2. Counted(r)'
    BY <1>1, <1>counted, <1>kept, <2>1, CountKept
  <2>3. QED
    BY <1>1, <1>show, <2>2
<1>2. CASE SelectOwners(r, c)
  <2>1. j.at = "owners" /\ job'[<<r, c>>].at \in {"score", "buckets"}
    BY <1>2, <1>typed DEF SelectOwners, JobAt, Types, JobSet
  <2>2. QED
    BY <1>1, <1>2, <2>1 DEF SelectOwners, IndexOnly, JobOnly, Working
<1>3. CASE SelectBuckets(r, c)
  <2>1. j.at = "buckets" /\ job'[<<r, c>>].at \in {"score", "load"}
    BY <1>3, <1>typed DEF SelectBuckets, JobAt, Types, JobSet
  <2>2. QED
    BY <1>1, <1>3, <2>1 DEF SelectBuckets, IndexOnly, JobOnly, Working
<1>4. CASE Put(r, c)
  <2>1. j.at = "put" /\ job'[<<r, c>>].at \in {"score", "load"}
    BY <1>4, <1>typed DEF Put, JobAt, Types, JobSet
  <2>2. QED
    BY <1>1, <1>4, <2>1 DEF Put, IndexOnly, JobOnly, Working
<1>5. ASSUME NEW x \in Cells, Load(r, c, x) PROVE AllCounted'
  <2>1. j.at = "load" /\ job'[<<r, c>>].at = "put"
    BY <1>5, <1>typed DEF Load, JobAt, Types, JobSet
  <2>2. QED
    BY <1>1, <1>5, <2>1 DEF Load, IndexOnly, JobOnly, Working
<1>6. ASSUME NEW x \in Cells, Score(r, c, x) PROVE AllCounted'
  <2>1. j.at = "score" /\ job'[<<r, c>>].at \in {"append", "score"}
    BY <1>6, <1>typed DEF Score, JobAt, Types, JobSet
  <2>2. QED
    BY <1>1, <1>6, <2>1 DEF Score, IndexOnly, JobOnly, Working
<1>7. CASE JobBreak(r, c)
  BY <1>1, <1>7, <1>typed DEF JobBreak, Working
\* The result is in the list before it is counted.
<1>8. CASE Append(r, c)
  <2>1. j.at = "append" /\ job'[<<r, c>>].at = "count" /\ run' = run /\ counter' = counter
    BY <1>8, <1>typed DEF Append, JobAt, JobOnly
  <2>2. /\ partial'[r] = partial[r] \cup {c}
        /\ \A q \in Runs : q # r => partial'[q] = partial[q]
    BY <1>8 DEF Append, Types, RedisTypes
  <2>3. At(r, "jobs") /\ CountHolds(r)
    BY <1>at, <2>1 DEF Working
  <2>4. Sampled(r)' = Sampled(r) /\ c \in Sampled(r)
    BY <2>1, <2>3 DEF Sampled, CountHolds, Working
  <2>5. \A d \in Clusters : d # c => job'[<<r, d>>] = job[<<r, d>>]
    BY <1>others
  <2>6. Open(r)' \subseteq Open(r)
    BY <2>1, <2>2, <2>4, <2>5, SampledFinite DEF Open, Working
  <2>7. Cardinality(Open(r)') <= counter[r]
    <3>1. Cardinality(Open(r)') <= Cardinality(Open(r)) /\ Cardinality(Open(r)') \in Nat
      BY <2>6, OpenFinite, FS_Subset, FS_CardinalityType
    <3>2. QED
      BY <2>3, <3>1, OpenFinite DEF CountHolds
  <2>8. CountHolds(r)'
    BY <2>1, <2>2, <2>3, <2>4, <2>5, <2>7 DEF CountHolds, JobAt, Working
  <2>9. Counted(r)'
    BY <1>counted, <1>kept, <2>1, <2>3, <2>8 DEF Counted, At
  <2>10. QED
    BY <2>1, <2>2, <2>9, <1>show
\* The last job that counts finds every result in the list.
<1>9. CASE Count(r, c)
  <2>1. j.at = "count" /\ run' = run /\ partial' = partial
    BY <1>9, <1>typed DEF Count, JobAt, JobOnly
  <2>2. At(r, "jobs") /\ CountHolds(r)
    BY <1>at, <2>1 DEF Working
  <2>3. c \in Open(r) /\ c \in partial[r] /\ counter[r] \in Nat
    BY <2>1, <2>2 DEF CountHolds, Open, JobAt, Working
  <2>4. Cardinality(Open(r)) # 0 /\ counter[r] # 0 /\ counter[r] # None
    <3>1. Cardinality(Open(r)) # 0
      BY <2>3, OpenFinite, FS_EmptySet
    <3>2. QED
      BY <2>2, <2>3, <3>1, OpenFinite, IdentificationConstants DEF CountHolds
  <2>5. /\ counter'[r] = counter[r] - 1
        /\ job'[<<r, c>>].at = IF counter[r] = 1 THEN "gather" ELSE "done"
        /\ \A q \in Runs : q # r => counter'[q] = counter[q]
    <3>1. Decremented(counter[r]) = counter[r] - 1
      BY <2>4 DEF Decremented
    <3>2. Last(counter[r] - 1) <=> counter[r] = 1
      BY <2>3, <2>4 DEF Last
    <3>3. QED
      BY <1>9, <1>typed, <3>1, <3>2 DEF Count, Types, RedisTypes
  <2>6. Sampled(r)' = Sampled(r) /\ c \in Sampled(r)
    BY <2>1, <2>3 DEF Sampled, Open
  <2>7. \A d \in Clusters : d # c => job'[<<r, d>>] = job[<<r, d>>]
    BY <1>others
  <2>8. Open(r)' \subseteq Open(r) \ {c}
    BY <2>1, <2>3, <2>5, <2>6, <2>7, SampledFinite DEF Open, Working
  <2>9. counter'[r] \in Nat /\ Cardinality(Open(r)') <= counter'[r]
    <3>1. Cardinality(Open(r) \ {c}) = Cardinality(Open(r)) - 1 /\ IsFiniteSet(Open(r) \ {c})
      BY <2>3, OpenFinite, FS_RemoveElement
    <3>2. /\ Cardinality(Open(r)') <= Cardinality(Open(r) \ {c})
          /\ Cardinality(Open(r)') \in Nat
      BY <2>8, <3>1, FS_Subset, FS_CardinalityType
    <3>3. QED
      BY <2>2, <2>3, <2>4, <2>5, <3>1, <3>2, OpenFinite DEF CountHolds
  <2>10. \A d \in Clusters : ~JobAt(r, d, "gather")
    BY <2>2, <2>4 DEF CountHolds
  <2>11. CountHolds(r)'
    BY <2>1, <2>2, <2>3, <2>5, <2>6, <2>7, <2>9, <2>10 DEF CountHolds, JobAt, Working
  <2>12. Counted(r)'
    BY <1>counted, <1>kept, <2>1, <2>2, <2>11 DEF Counted, At
  <2>13. QED
    BY <2>1, <2>5, <2>12, <1>show
<1>10. CASE Gather(r, c)
  <2>1. At(r, "jobs") /\ CountHolds(r) /\ j.at = "gather"
    BY <1>10, <1>at DEF Gather, JobAt
  <2>2. Open(r) = {}
    <3>1. Cardinality(Open(r)) = 0
      BY <2>1, OpenFinite DEF CountHolds, JobAt
    <3>2. QED
      BY <3>1, OpenFinite, FS_EmptySet
  <2>3. partial[r] = Sampled(r)
    BY <2>1, <2>2 DEF CountHolds, Open
  <2>4. /\ run'[r].at = "estimate" /\ run'[r].results = partial[r]
        /\ run'[r].sample = run[r].sample /\ counter'[r] = None /\ partial'[r] = {}
        /\ \A q \in Runs : q # r => /\ run'[q] = run[q] /\ counter'[q] = counter[q]
                                    /\ partial'[q] = partial[q]
    BY <1>10 DEF Gather, Types, RedisTypes, RunSet
  <2>5. ASSUME NEW d \in Clusters PROVE job'[<<r, d>>].at \notin Working \cup {"gather"}
    <3>1. CASE d = c
      BY <1>10, <1>typed, <3>1 DEF Gather, Working
    <3>2. CASE d # c
      <4>1. job'[<<r, d>>] = job[<<r, d>>]
        BY <1>others, <3>2
      <4>2. job[<<r, d>>].at \notin Working \cup {"gather"}
        BY <2>1, <2>2, <3>2 DEF CountHolds, Open, JobAt
      <4>3. QED
        BY <4>1, <4>2
    <3>3. QED
      BY <3>1, <3>2
  <2>6. Counted(r)'
    <3>1. Sampled(r)' = Sampled(r)
      BY <2>4 DEF Sampled
    <3>2. r \notin kept
      BY <2>1, <1>counted DEF At
    <3>3. QED
      BY <1>kept, <2>3, <2>4, <2>5, <3>1, <3>2 DEF Counted, CountOver, At
  <2>7. QED
    BY <2>4, <2>6, <1>show
<1>11. QED
  BY <1>2, <1>3, <1>4, <1>5, <1>6, <1>7, <1>8, <1>9, <1>10 DEF JobStep

\* Enrolments and their updates do not touch the runs.
LEMMA SameCounted ==
  ASSUME Types, AllCounted, UNCHANGED <<run, job, redisVars>>
  PROVE  AllCounted'
<1>1. ASSUME NEW r \in Runs PROVE Counted(r)'
  <2>1. Counted(r) /\ UNCHANGED <<counter, partial, kept>>
    BY DEF AllCounted, redisVars
  <2>2. r \in kept' => run'[r].at \in {"users", "lost"}
    BY <2>1 DEF Counted
  <2>3. QED
    BY <2>1, <2>2, CountKept
<1>2. QED
  BY <1>1 DEF AllCounted

LEMMA RestartCounted ==
  ASSUME Types, AllCounted, Restart
  PROVE  AllCounted'
<1>1. ASSUME NEW r \in Runs PROVE Counted(r)'
  <2>1. Counted(r) /\ UNCHANGED <<counter, partial, kept>>
    BY DEF AllCounted, Restart, redisVars
  <2>2. run[r] \in RunSet /\ \A c \in Clusters : job[<<r, c>>] \in JobSet
    BY DEF Types
  <2>3. /\ run'[r].sample = run[r].sample /\ run'[r].results = run[r].results
        /\ run'[r].at = IF run[r].at \in ChainJobs THEN "lost" ELSE run[r].at
    BY <2>2 DEF Restart, RunSet
  <2>4. \A c \in Clusters : job'[<<r, c>>].at \in {job[<<r, c>>].at, "lost"}
    BY <2>2 DEF Restart, JobSet
  <2>5. r \in kept' => run'[r].at \in {"users", "lost"}
    BY <2>1, <2>3 DEF Counted
  <2>6. \A c \in Clusters :
          /\ job'[<<r, c>>].at \in Working => job[<<r, c>>].at \in Working
          /\ job'[<<r, c>>].at = "count" => job[<<r, c>>].at = "count"
          /\ job'[<<r, c>>].at = "gather" => job[<<r, c>>].at = "gather"
    BY <2>4 DEF Working
  <2>7. /\ run'[r].at = "jobs" <=> run[r].at = "jobs"
        /\ run'[r].at \in {"estimate", "news", "over"} =>
             run[r].at \in {"estimate", "news", "over"}
    BY <2>3 DEF ChainJobs
  <2>8. QED
    BY <2>1, <2>3, <2>5, <2>6, <2>7, CountKept
<1>2. QED
  BY <1>1 DEF AllCounted

LEMMA NextCounted ==
  ASSUME Types, AllCounted, [Next]_vars
  PROVE  AllCounted'
<1>1. CASE UNCHANGED vars
  BY <1>1, SameCounted DEF vars
<1>2. ASSUME NEW e \in Enrols, EnrolStep(e) \/ EnrolBreak(e) \/ \E u \in Users : Enrol(e, u)
      PROVE  AllCounted'
  BY <1>2, SameCounted DEF EnrolStep, EnrolBreak, Enrol, Greet, InitUpdate, EnrolOnly
<1>3. ASSUME NEW e \in Enrols, NEW c \in Clusters, UpdateStep(e, c) \/ UpdateBreak(e, c)
      PROVE  AllCounted'
  BY <1>3, SameCounted
  DEF UpdateStep, UpdateBreak, UpdateOnly, SelectOwned, SelectHash, Strip, Disown, Disowned,
      Drop, Write, Own
<1>4. CASE Next
  BY <1>2, <1>3, <1>4, RunStepCounted, JobStepCounted, RestartCounted DEF Next
<1>5. QED
  BY <1>1, <1>4

THEOREM CountsHold == Spec => []AllCounted
<1>1. Types /\ AllCounted /\ [Next]_vars => AllCounted'
  BY NextCounted
<1>2. QED
  BY <1>1, InitCounted, Typed, PTL DEF Spec

\* Every variable stays in its set; a counter of results is never below zero.
THEOREM IdentTyped == Spec => []IdentTypeOK
<1>1. Types /\ AllCounted => IdentTypeOK
  <2> SUFFICES ASSUME Types, AllCounted PROVE IdentTypeOK
    OBVIOUS
  <2>1. \A r \in Runs : counter[r] \in Nat \cup {None}
    BY DEF AllCounted, Counted, CountHolds, CountOver
  <2>2. counter \in [Runs -> Nat \cup {None}]
    BY <2>1 DEF Types, RedisTypes
  <2>3. QED
    BY <2>2 DEF Types, IndexTypes, RedisTypes, PlainTypes, IdentTypeOK, RunSet, JobSet, EnrolSet,
                UpdateSet
<1>2. QED
  BY <1>1, Typed, CountsHold, PTL

\* A verdict is made from the results of all clusters of its run, whatever the
\* number of clusters, of runs, of lost jobs and of restarts.
THEOREM EstimatesAreWhole == Spec => []WholeEstimate
<1>1. AllCounted => WholeEstimate
  BY DEF AllCounted, Counted, CountOver, WholeEstimate, At
<1>2. QED
  BY <1>1, CountsHold, PTL

-----------------------------------------------------------------------------
(* The rows cover the vectors: in a cluster whose updates neither overlapped   *)
(* nor failed half way, an update knows what it has to find and to remove.     *)

\* The cells of a cluster that hold vectors of an enrolment's user.
Holds(e, c) == {x \in In(Cells, c) : enrol[e].user \in hash[x]}
Fits(e, c) ==
  LET p == update[<<e, c>>]
      u == enrol[e].user IN
  /\ p.at # "strip"
  /\ p.at = "buckets" => p.old = In(owned[u], c) /\ Holds(e, c) \subseteq p.old
  /\ p.at \in {"disown", "drop"} => \A x \in Holds(e, c) : <<x, u>> \in p.seen
  /\ p.at \in {"disown", "drop", "write"} =>
       \A x \in Cells, v \in Users \ {u} : <<x, v>> \in p.seen => x \in owned[v]
  /\ p.at = "write" => Holds(e, c) \subseteq Fills(e, c)
  /\ p.at = "own" => Holds(e, c) \subseteq New(e, c)
Clean(c) ==
  /\ \A x \in In(Cells, c) : \A v \in hash[x] :
       x \in owned[v] \/ \E e \in Enrols : Midway(e, c) /\ enrol[e].user = v
  /\ \A e, f \in Enrols : Midway(e, c) /\ Midway(f, c) => e = f
  /\ \A e \in Enrols : Fits(e, c)
\* An update has to do with cells of its own cluster.
Within(e, c) ==
  /\ \A x \in update[<<e, c>>].old : x[1] = c
  /\ \A i \in update[<<e, c>>].seen : i[1][1] = c
AllClean ==
  /\ \A c \in Clusters : c \notin messy => Clean(c)
  /\ \A e \in Enrols, c \in Clusters : Within(e, c)

LEMMA InitClean == Init => AllClean
<1> SUFFICES ASSUME Init PROVE AllClean
  OBVIOUS
<1>1. \A e \in Enrols, c \in Clusters : update[<<e, c>>] = NoUpdate
  BY DEF Init
<1>2. ASSUME NEW x \in Cells, NEW v \in hash[x] PROVE x \in owned[v]
  <2>1. <<x, v>> \in Vectors
    BY <1>2 DEF Init, Vectors
  <2>2. QED
    BY <2>1 DEF Init, Rows
<1>3. QED
  BY <1>1, <1>2 DEF AllClean, Clean, Fits, Midway, Within, NoUpdate, In

\* A step that is not about a cluster.
LEMMA CleanKept ==
  ASSUME Types, NEW c \in Clusters, Clean(c),
         \A x \in In(Cells, c) : /\ hash'[x] = hash[x]
                                 /\ \A v \in Users : x \in owned'[v] <=> x \in owned[v],
         \A e \in Enrols : update'[<<e, c>>] = update[<<e, c>>] \/ ~Midway(e, c)',
         \A e \in Enrols : Midway(e, c) => /\ update'[<<e, c>>] = update[<<e, c>>]
                                           /\ enrol'[e].user = enrol[e].user
                                           /\ enrol'[e].vectors = enrol[e].vectors,
         owned' \in [Users -> SUBSET Cells], \A e \in Enrols : Within(e, c)
  PROVE  Clean(c)'
<1>typed. hash \in [Cells -> SUBSET Users] /\ owned \in [Users -> SUBSET Cells]
  BY DEF Types, IndexTypes
<1>cells. \A S \in SUBSET Cells : In(S, c) \subseteq In(Cells, c)
  BY DEF In
<1>midway. \A e \in Enrols : /\ Midway(e, c)' <=> Midway(e, c)
                             /\ Midway(e, c)' => /\ update'[<<e, c>>] = update[<<e, c>>]
                                                 /\ enrol'[e].user = enrol[e].user
                                                 /\ enrol'[e].vectors = enrol[e].vectors
  BY DEF Midway
<1>1. ASSUME NEW x \in In(Cells, c), NEW v \in hash'[x]
      PROVE  x \in owned'[v] \/ \E e \in Enrols : Midway(e, c)' /\ enrol'[e].user = v
  <2>1. v \in hash[x] /\ v \in Users
    BY <1>typed, <1>1 DEF In
  <2>2. x \in owned[v] \/ \E e \in Enrols : Midway(e, c) /\ enrol[e].user = v
    BY <2>1 DEF Clean
  <2>3. QED
    BY <1>midway, <2>1, <2>2
<1>2. ASSUME NEW e \in Enrols PROVE Fits(e, c)'
  <2>1. CASE ~Midway(e, c)'
    BY <2>1 DEF Midway, Fits
  <2>2. CASE Midway(e, c)'
    <3>1. /\ Fits(e, c) /\ update'[<<e, c>>] = update[<<e, c>>]
          /\ enrol'[e].user = enrol[e].user /\ enrol'[e].vectors = enrol[e].vectors
      BY <1>midway, <2>2 DEF Clean
    <3>2. enrol[e].user \in Users /\ update[<<e, c>>].seen \subseteq Cells \X Users
      <4>1. <<e, c>> \in Enrols \X Clusters /\ Midway(e, c)
        BY <1>midway, <2>2
      <4>2. update[<<e, c>>] \in UpdateSet /\ update[<<e, c>>].at # "none"
        BY <4>1 DEF Types, Midway
      <4>3. QED
        BY <4>2 DEF Types, Enrolled, UpdateSet, EnrolSet
    <3>3. Holds(e, c)' = Holds(e, c) /\ New(e, c)' = New(e, c) /\ Fills(e, c)' = Fills(e, c)
      <4>1. Holds(e, c)' = Holds(e, c)
        BY <3>1 DEF Holds
      <4>2. New(e, c)' = New(e, c)
        BY <3>1 DEF New
      <4>3. Fills(e, c)' = Fills(e, c)
        BY <3>1, <4>2 DEF Fills, Had, Refilled, Others
      <4>4. QED
        BY <4>1, <4>2, <4>3
    <3>4. In(owned'[enrol'[e].user], c) = In(owned[enrol[e].user], c)
      <4>1. owned'[enrol[e].user] \subseteq Cells /\ owned[enrol[e].user] \subseteq Cells
        BY <1>typed, <3>2
      <4>2. QED
        BY <3>1, <3>2, <4>1 DEF In
    <3>5. ASSUME NEW x \in Cells, NEW v \in Users, <<x, v>> \in update[<<e, c>>].seen
          PROVE  x \in owned'[v] <=> x \in owned[v]
      <4>1. x \in In(Cells, c)
        BY <3>5 DEF Within, In
      <4>2. QED
        BY <4>1
    <3>6. QED
      BY <3>1, <3>3, <3>4, <3>5 DEF Fits
  <2>3. QED
    BY <2>1, <2>2
<1>3. QED
  BY <1>midway, <1>1, <1>2 DEF Clean

LEMMA UpdateStepWithin ==
  ASSUME Types, AllClean, NEW e \in Enrols, NEW c \in Clusters,
         UpdateStep(e, c) \/ UpdateBreak(e, c)
  PROVE  \A f \in Enrols, d \in Clusters : Within(f, d)'
<1> DEFINE p == update[<<e, c>>]
           q == update'[<<e, c>>]
<1>typed. /\ <<e, c>> \in Enrols \X Clusters /\ p \in UpdateSet
          /\ \A i \in Enrols \X Clusters : i # <<e, c>> => update'[i] = update[i]
          /\ \A s : UpdateGoes(e, c, s) => q.old = p.old /\ q.seen = p.seen
  <2>1. <<e, c>> \in Enrols \X Clusters
    OBVIOUS
  <2>2. p \in UpdateSet
    BY <2>1 DEF Types
  <2>3. \A i \in Enrols \X Clusters : i # <<e, c>> => update'[i] = update[i]
    BY DEF UpdateStep, UpdateBreak, UpdateGoes, SelectOwned, SelectHash, Strip, Disown, Drop,
           Write, Own, Types
  <2>4. QED
    BY <2>1, <2>2, <2>3 DEF UpdateGoes, Types, UpdateSet
<1>within. Within(e, c)
  BY DEF AllClean
<1>1. CASE SelectOwned(e, c)
  <2>1. q.old = In(owned[enrol[e].user], c) /\ q.seen = p.seen
    BY <1>1, <1>typed DEF SelectOwned, Types, UpdateSet
  <2>2. Within(e, c)'
    BY <1>within, <2>1 DEF Within, In
  <2>3. QED
    BY <1>typed, <2>2 DEF AllClean, Within
<1>2. ASSUME NEW ok \in BOOLEAN, SelectHash(e, c, ok) PROVE Within(e, c)'
  <2>1. /\ q.old = p.old
        /\ q.seen = IF ok THEN {i \in p.old \X Users : i[2] \in hash[i[1]]} ELSE p.seen
    BY <1>2, <1>typed DEF SelectHash, Types, UpdateSet
  <2>2. QED
    BY <1>within, <2>1 DEF Within
<1>3. ASSUME NEW ok \in BOOLEAN, Own(e, c, ok) PROVE Within(e, c)'
  <2>1. q.old = {} /\ q.seen = {}
    BY <1>3, <1>typed DEF Own, NoUpdate, Types
  <2>2. QED
    BY <2>1 DEF Within
<1>4. ASSUME NEW s, UpdateGoes(e, c, s) PROVE Within(e, c)'
  BY <1>4, <1>typed, <1>within DEF Within
<1>5. Within(e, c)'
  BY <1>1, <1>2, <1>3, <1>4 DEF UpdateStep, UpdateBreak, Strip, Disown, Drop, Write
<1>6. QED
  BY <1>typed, <1>5 DEF AllClean, Within

\* What an update writes in cells of its cluster leaves the other clusters alone.
LEMMA OtherClusters ==
  ASSUME Types, AllClean, NEW e \in Enrols, NEW c \in Clusters,
         UpdateStep(e, c) \/ UpdateBreak(e, c), NEW d \in Clusters, d # c, d \notin messy'
  PROVE  Clean(d)'
<1> DEFINE p == update[<<e, c>>]
<1>typed. /\ <<e, c>> \in Enrols \X Clusters /\ p \in UpdateSet
          /\ \A i \in Enrols \X Clusters : i # <<e, c>> => update'[i] = update[i]
          /\ owned' \in [Users -> SUBSET Cells]
  <2>1. <<e, c>> \in Enrols \X Clusters
    OBVIOUS
  <2>2. p \in UpdateSet
    BY <2>1 DEF Types
  <2>3. \A i \in Enrols \X Clusters : i # <<e, c>> => update'[i] = update[i]
    BY DEF UpdateStep, UpdateBreak, UpdateGoes, SelectOwned, SelectHash, Strip, Disown, Drop,
           Write, Own, Types
  <2>4. owned' \in [Users -> SUBSET Cells]
    BY UpdateStepTypes DEF Types, IndexTypes
  <2>5. QED
    BY <2>1, <2>2, <2>3, <2>4
<1>cells. \A x \in In(Cells, d) : x \in Cells /\ x \notin Empties(e, c) /\ x \notin Fills(e, c)
                                  /\ x \notin New(e, c) /\ \A S : x \notin In(S, c)
  BY DEF In, Empties, Fills, Had, New, Within, AllClean
<1>1. Clean(d)
  BY DEF AllClean, UpdateStep, UpdateBreak, UpdateOnly, indexVars, SelectOwned, SelectHash, Strip,
         Disown, Disowned, Drop, Write, Own, Statement
<1>2. \A x \in In(Cells, d) : hash'[x] = hash[x]
  BY <1>cells DEF UpdateStep, UpdateBreak, indexVars, SelectOwned, SelectHash, Strip, Disown,
                  Disowned, Drop, Write, Own, Types, IndexTypes
<1>3. \A x \in In(Cells, d), v \in Users : x \in owned'[v] <=> x \in owned[v]
  <2>1. CASE owned' = owned
    BY <2>1
  <2>2. ASSUME NEW ok \in BOOLEAN, Disowned(e, c, ok)
        PROVE \A x \in In(Cells, d), v \in Users : x \in owned'[v] <=> x \in owned[v]
    BY <1>cells, <2>2 DEF Disowned, Types, IndexTypes
  <2>3. ASSUME NEW ok \in BOOLEAN, Own(e, c, ok)
        PROVE \A x \in In(Cells, d), v \in Users : x \in owned'[v] <=> x \in owned[v]
    BY <1>cells, <2>3 DEF Own, Types, IndexTypes
  <2>4. QED
    BY <2>1, <2>2, <2>3 DEF UpdateStep, UpdateBreak, indexVars, SelectOwned, SelectHash, Strip,
                            Disown, Drop, Write
<1>4. enrol' = enrol
  BY DEF UpdateStep, UpdateBreak, UpdateOnly, SelectOwned, SelectHash, Strip, Disown, Disowned,
         Drop, Write, Own
<1>5. QED
  BY <1>typed, <1>1, <1>2, <1>3, <1>4, CleanKept DEF AllClean

\* An update under way, or the one that begins, is the only one of its cluster.
LEMMA Alone ==
  ASSUME Types, AllClean, NEW e \in Enrols, NEW c \in Clusters,
         UpdateStep(e, c), c \notin messy'
  PROVE  /\ Clean(c) /\ Fits(e, c)
         /\ \A f \in Enrols \ {e} : ~Midway(f, c) /\ ~Midway(f, c)' /\ Fits(f, c)'
<1>1. Clean(c)
  BY DEF AllClean, UpdateStep, UpdateOnly, SelectOwned, SelectHash, Strip,
         Disown, Disowned, Drop, Write, Own, Statement
<1>2. ASSUME NEW f \in Enrols \ {e} PROVE ~Midway(f, c)
  <2>1. CASE SelectOwned(e, c)
    BY <2>1 DEF SelectOwned, Types, IndexTypes
  <2>2. CASE ~SelectOwned(e, c)
    <3>1. Midway(e, c)
      BY <2>2 DEF UpdateStep, Midway, UpdateAt, SelectHash, Strip, Disown, Drop, Write, Own
    <3>2. QED
      BY <1>1, <3>1 DEF Clean
  <2>3. QED
    BY <2>1, <2>2
<1>3. ASSUME NEW f \in Enrols \ {e} PROVE update'[<<f, c>>] = update[<<f, c>>]
  BY DEF UpdateStep, UpdateGoes, SelectOwned, SelectHash, Strip, Disown, Drop, Write, Own, Types
<1>4. ASSUME NEW f \in Enrols \ {e} PROVE ~Midway(f, c)' /\ Fits(f, c)'
  BY <1>2, <1>3 DEF Midway, Fits
<1>5. QED
  BY <1>1, <1>2, <1>4 DEF Clean

LEMMA UpdateStepClean ==
  ASSUME Types, AllClean, NEW e \in Enrols, NEW c \in Clusters,
         UpdateStep(e, c), c \notin messy'
  PROVE  Clean(c)'
<1> DEFINE p == update[<<e, c>>]
           q == update'[<<e, c>>]
           u == enrol[e].user
<1>typed. /\ <<e, c>> \in Enrols \X Clusters /\ p \in UpdateSet
          /\ owned \in [Users -> SUBSET Cells] /\ hash \in [Cells -> SUBSET Users]
          /\ owned' \in [Users -> SUBSET Cells] /\ hash' \in [Cells -> SUBSET Users]
          /\ u \in Users /\ enrol' = enrol
          /\ \A s : UpdateGoes(e, c, s) => q = [p EXCEPT !.at = s]
  <2>1. <<e, c>> \in Enrols \X Clusters
    OBVIOUS
  <2>2. p \in UpdateSet /\ p.at # "none"
    BY <2>1 DEF Types, UpdateStep, UpdateAt, SelectOwned, SelectHash, Strip, Disown, Drop, Write, Own
  <2>3. u \in Users /\ enrol' = enrol
    BY <2>2 DEF Types, Enrolled, UpdateStep, UpdateOnly, SelectOwned, SelectHash, Strip, Disown,
           Disowned, Drop, Write, Own, EnrolSet
  <2>4. Types'
    BY UpdateStepTypes
  <2>5. QED
    BY <2>1, <2>2, <2>3, <2>4 DEF Types, IndexTypes, UpdateGoes
<1>alone. /\ Clean(c) /\ Fits(e, c) /\ Within(e, c)
          /\ \A f \in Enrols \ {e} : ~Midway(f, c) /\ ~Midway(f, c)' /\ Fits(f, c)'
  BY Alone DEF AllClean
<1> HIDE DEF p, q, u
<1>goes. \A s : UpdateGoes(e, c, s) =>
           q.at = s /\ q.old = p.old /\ q.seen = p.seen
  BY <1>typed DEF UpdateSet
\* What the other users have in the cluster, they have rows for.
<1>rows. ASSUME NEW x \in In(Cells, c), NEW v \in hash[x], v # u PROVE v \in Users /\ x \in owned[v]
  <2>1. x \in owned[v] \/ \E f \in Enrols : Midway(f, c) /\ enrol[f].user = v
    BY <1>alone, <1>rows DEF Clean
  <2>2. QED
    BY <1>alone, <1>rows, <1>typed, <2>1 DEF In, u
\* So have they after the step; and what is left to show is about the user.
<1>show. ASSUME \A x \in In(Cells, c) : \A v \in hash'[x] : v # u => x \in owned'[v],
                Midway(e, c)' \/ \A x \in In(Cells, c) : u \in hash'[x] => x \in owned'[u],
                Fits(e, c)'
         PROVE  Clean(c)'
  <2>1. ASSUME NEW x \in In(Cells, c), NEW v \in hash'[x]
        PROVE  x \in owned'[v] \/ \E f \in Enrols : Midway(f, c)' /\ enrol'[f].user = v
    BY <1>typed, <1>show, <2>1 DEF u
  <2>2. \A f, g \in Enrols : Midway(f, c)' /\ Midway(g, c)' => f = g
    BY <1>alone
  <2>3. \A f \in Enrols : Fits(f, c)'
    BY <1>alone, <1>show
  <2>4. QED
    BY <2>1, <2>2, <2>3 DEF Clean
<1>mine. /\ Holds(e, c)' = {x \in In(Cells, c) : u \in hash'[x]}
         /\ Holds(e, c) = {x \in In(Cells, c) : u \in hash[x]}
         /\ New(e, c)' = New(e, c)
  BY <1>typed DEF Holds, New, u
\* While the update reads, it has seen where the user is, and whom it will put
\* back into the cells.
<1>1. CASE SelectOwned(e, c)
  <2>1. /\ UNCHANGED <<owned, hash>> /\ q.old = In(owned[u], c)
        /\ q.at = IF In(owned[u], c) = {} THEN "own" ELSE "buckets"
    BY <1>1, <1>typed DEF SelectOwned, Types, UpdateSet, p, q, u
  <2>2. ~Midway(e, c)
    BY <1>1 DEF SelectOwned, UpdateAt, Midway
  <2>3. Holds(e, c)' \subseteq In(owned[u], c)
    <3>1. ASSUME NEW x \in In(Cells, c), u \in hash[x] PROVE x \in owned[u]
      BY <1>alone, <2>2, <3>1 DEF Clean
    <3>2. QED
      BY <1>mine, <2>1, <3>1 DEF In
  <2>4. Fits(e, c)'
    BY <1>typed, <2>1, <2>3 DEF Fits, q, u
  <2>5. Midway(e, c)'
    BY <2>1 DEF Midway, q
  <2>6. QED
    BY <1>rows, <1>show, <2>1, <2>4, <2>5
<1>2. ASSUME NEW ok \in BOOLEAN, SelectHash(e, c, ok) PROVE Clean(c)'
  <2>1. ok
    BY <1>2 DEF SelectHash, Statement
  <2>2. /\ UNCHANGED <<owned, hash>> /\ q.at = "disown"
        /\ q.seen = {i \in p.old \X Users : i[2] \in hash[i[1]]}
    BY <1>2, <1>typed, <2>1 DEF SelectHash, Types, UpdateSet, p, q
  <2>3. p.old = In(owned[u], c) /\ Holds(e, c) \subseteq p.old
    BY <1>2, <1>alone DEF SelectHash, UpdateAt, Fits, p, u
  <2>4. \A x \in Holds(e, c) : <<x, u>> \in q.seen
    BY <1>mine, <1>typed, <2>2, <2>3
  <2>5. \A x \in Cells, v \in Users \ {u} : <<x, v>> \in q.seen => x \in owned[v]
    BY <1>rows, <2>2, <2>3 DEF In
  <2>6. Fits(e, c)'
    BY <1>typed, <1>mine, <2>2, <2>4, <2>5 DEF Fits, q, u
  <2>7. Midway(e, c)'
    BY <2>2 DEF Midway, q
  <2>8. QED
    BY <1>rows, <1>show, <2>2, <2>6, <2>7
<1>3. ASSUME NEW ok \in BOOLEAN, Strip(e, c, ok) PROVE Clean(c)'
  BY <1>3, <1>alone DEF Strip, UpdateAt, Fits
\* A cell that held the user and is not dropped is going to be written.
<1>filled. ASSUME NEW x \in Holds(e, c), <<x, u>> \in p.seen
           PROVE  x \in Empties(e, c) \cup Fills(e, c)
  BY <1>filled DEF Empties, Fills, Had, p
<1>fills. q.seen = p.seen => Fills(e, c)' = Fills(e, c)
  BY <1>typed, <1>mine DEF Fills, Had, Refilled, Others, p, q
<1>4. ASSUME NEW ok \in BOOLEAN, Disown(e, c, ok) PROVE Clean(c)'
  <2>1. ok /\ p.at = "disown"
    BY <1>4 DEF Disown, Disowned, Statement, UpdateAt, p
  <2>2. /\ hash' = hash /\ q.seen = p.seen
        /\ q.at = IF Empties(e, c) # {} THEN "drop" ELSE Filling(e, c)
        /\ owned' = [owned EXCEPT ![u] = @ \ In(@, c)]
    BY <1>4, <1>goes, <2>1 DEF Disown, Disowned, u
  <2>3. \A v \in Users \ {u} : owned'[v] = owned[v]
    BY <1>typed, <2>2
  <2>4. \A x \in Holds(e, c) : <<x, u>> \in p.seen
    BY <1>alone, <2>1 DEF Fits, p, u
  <2>5. \A x \in Cells, v \in Users \ {u} : <<x, v>> \in p.seen => x \in owned[v]
    BY <1>alone, <2>1 DEF Fits, p, u
  <2>6. Empties(e, c) = {} => Holds(e, c) \subseteq Fills(e, c)
    BY <1>filled, <2>4
  <2>7. Holds(e, c)' = Holds(e, c)
    BY <1>mine, <2>2
  <2>8. Fits(e, c)'
    BY <1>typed, <1>fills, <2>2, <2>3, <2>4, <2>5, <2>6, <2>7 DEF Fits, Filling, q, u
  <2>9. Midway(e, c)'
    BY <2>2 DEF Midway, Filling, q
  <2>10. QED
    BY <1>rows, <1>show, <2>2, <2>3, <2>8, <2>9
<1>5. ASSUME NEW ok \in BOOLEAN, Drop(e, c, ok) PROVE Clean(c)'
  <2>1. ok /\ p.at = "drop"
    BY <1>5 DEF Drop, Statement, UpdateAt, p
  <2>2. /\ owned' = owned /\ q.seen = p.seen /\ q.at = Filling(e, c)
        /\ \A x \in Cells : hash'[x] = IF x \in Empties(e, c) THEN {} ELSE hash[x]
    BY <1>5, <1>goes, <2>1 DEF Drop
  <2>3. \A x \in Holds(e, c) : <<x, u>> \in p.seen
    BY <1>alone, <2>1 DEF Fits, p, u
  <2>4. \A x \in Cells, v \in Users \ {u} : <<x, v>> \in p.seen => x \in owned[v]
    BY <1>alone, <2>1 DEF Fits, p, u
  <2>5. \A x \in In(Cells, c) : x \in Cells
    BY DEF In
  <2>6. Holds(e, c)' \subseteq Fills(e, c)
    BY <1>mine, <1>filled, <2>2, <2>3, <2>5
  <2>7. Fits(e, c)'
    BY <1>typed, <1>fills, <2>2, <2>4, <2>6 DEF Fits, Filling, q, u
  <2>8. Midway(e, c)'
    BY <2>2 DEF Midway, Filling, q
  <2>9. \A x \in In(Cells, c) : \A v \in hash'[x] : v # u => x \in owned'[v]
    BY <1>rows, <2>2, <2>5
  <2>10. QED
    BY <1>show, <2>7, <2>8, <2>9
<1>6. ASSUME NEW ok \in BOOLEAN, Write(e, c, ok) PROVE Clean(c)'
  <2>1. ok /\ p.at = "write"
    BY <1>6 DEF Write, Statement, UpdateAt, p
  <2>2. /\ owned' = owned /\ q.at = "own"
        /\ \A x \in Cells : hash'[x] = IF x \in Fills(e, c) THEN Refilled(e, c, x) ELSE hash[x]
    BY <1>6, <1>goes, <2>1 DEF Write
  <2>3. Holds(e, c) \subseteq Fills(e, c)
    BY <1>alone, <2>1 DEF Fits, p
  <2>4. \A x \in Cells, v \in Users \ {u} : <<x, v>> \in p.seen => x \in owned[v]
    BY <1>alone, <2>1 DEF Fits, p, u
  <2>5. \A x \in In(Cells, c) : x \in Cells
    BY DEF In
  <2>6. \A x \in Cells : \A v \in Refilled(e, c, x) :
          /\ v # u => v \in Users /\ <<x, v>> \in p.seen
          /\ v = u => x \in New(e, c)
    BY DEF Refilled, Others, p, u
  <2>7. Holds(e, c)' \subseteq New(e, c)
    BY <1>mine, <2>2, <2>3, <2>5, <2>6
  <2>8. Fits(e, c)'
    BY <1>typed, <1>mine, <2>2, <2>7 DEF Fits, q, u
  <2>9. Midway(e, c)'
    BY <2>2 DEF Midway, q
  <2>10. \A x \in In(Cells, c) : \A v \in hash'[x] : v # u => x \in owned'[v]
    BY <1>rows, <2>2, <2>4, <2>5, <2>6
  <2>11. QED
    BY <1>show, <2>8, <2>9, <2>10
<1>7. ASSUME NEW ok \in BOOLEAN, Own(e, c, ok) PROVE Clean(c)'
  <2>1. ok /\ p.at = "own"
    BY <1>7 DEF Own, Statement, UpdateAt, p
  <2>2. /\ hash' = hash /\ q.at = "done" /\ owned' = [owned EXCEPT ![u] = @ \cup New(e, c)]
    BY <1>7, <1>typed, <2>1 DEF Own, NoUpdate, Types, q, u
  <2>3. Holds(e, c) \subseteq New(e, c)
    BY <1>alone, <2>1 DEF Fits, p
  <2>4. \A x \in In(Cells, c) : u \in hash'[x] => x \in owned'[u]
    BY <1>mine, <1>typed, <2>2, <2>3
  <2>5. Fits(e, c)'
    BY <2>2 DEF Fits, q
  <2>6. \A x \in In(Cells, c) : \A v \in hash'[x] : v # u => x \in owned'[v]
    BY <1>rows, <1>typed, <2>2
  <2>7. QED
    BY <1>show, <2>4, <2>5, <2>6
<1>8. QED
  BY <1>1, <1>2, <1>3, <1>4, <1>5, <1>6, <1>7 DEF UpdateStep

\* Steps that do not touch the index: an update under way in a cluster that is
\* not messy stays as it was.
LEMMA QuietClean ==
  ASSUME Types, AllClean, UNCHANGED <<owned, hash>>, messy \subseteq messy',
         \A e \in Enrols, c \in Clusters :
           /\ update'[<<e, c>>] = update[<<e, c>>] \/ ~Midway(e, c)'
           /\ update'[<<e, c>>].old \subseteq update[<<e, c>>].old
           /\ update'[<<e, c>>].seen \subseteq update[<<e, c>>].seen
           /\ Midway(e, c) /\ c \notin messy' =>
                /\ update'[<<e, c>>] = update[<<e, c>>]
                /\ enrol'[e].user = enrol[e].user /\ enrol'[e].vectors = enrol[e].vectors
  PROVE  AllClean'
<1>1. ASSUME NEW e \in Enrols, NEW c \in Clusters PROVE Within(e, c)'
  <2>1. Within(e, c)
    BY DEF AllClean
  <2>2. /\ update'[<<e, c>>].old \subseteq update[<<e, c>>].old
        /\ update'[<<e, c>>].seen \subseteq update[<<e, c>>].seen
    OBVIOUS
  <2>3. QED
    BY <2>1, <2>2 DEF Within
<1>2. owned' \in [Users -> SUBSET Cells]
  BY DEF Types, IndexTypes
<1>3. ASSUME NEW c \in Clusters, c \notin messy' PROVE Clean(c)'
  BY <1>2, <1>3, CleanKept DEF AllClean
<1>4. QED
  BY <1>1, <1>3 DEF AllClean

LEMMA NextClean ==
  ASSUME Types, AllClean, [Next]_vars
  PROVE  AllClean'
<1>same. ASSUME UNCHANGED <<owned, hash, messy, enrol, update>> PROVE AllClean'
  BY <1>same, QuietClean
<1>1. CASE UNCHANGED vars
  BY <1>1, <1>same DEF vars, indexVars
<1>2. ASSUME NEW r \in Runs, Identify(r) \/ RunStep(r) \/ Answer(r) \/ Break(r) PROVE AllClean'
  BY <1>2, <1>same DEF RunStep, Identify, Answer, Break, ChainOnly, Begin, Prepare, LoadUsers,
                       Spread, Finish, indexVars
<1>3. ASSUME NEW r \in Runs, NEW c \in Clusters, JobStep(r, c) \/ JobBreak(r, c) PROVE AllClean'
  BY <1>3, <1>same DEF JobStep, JobBreak, IndexOnly, JobOnly, SelectOwners, SelectBuckets, Load,
                       Put, Score, Append, Count, Gather, indexVars
<1>4. ASSUME NEW e \in Enrols, EnrolStep(e) \/ EnrolBreak(e) \/ \E u \in Users : Enrol(e, u)
      PROVE  AllClean'
  <2>1. UNCHANGED <<owned, hash, messy>>
    BY <1>4 DEF EnrolStep, EnrolBreak, Enrol, InitUpdate, Greet, EnrolOnly, indexVars
  <2>2. enrol[e].at \in {"none", "start", "spread"} /\ \A f \in Enrols \ {e} : enrol'[f] = enrol[f]
    BY <1>4 DEF EnrolStep, EnrolBreak, Enrol, InitUpdate, Verified, Greet, EnrolGoes, Admits,
                Given, Types
  <2>3. \A c \in Clusters : update[<<e, c>>].at = "none"
    BY <2>2 DEF Types, Enrolled
  <2>4. ASSUME NEW f \in Enrols, NEW c \in Clusters
        PROVE  \/ update'[<<f, c>>] = update[<<f, c>>]
               \/ f = e /\ update'[<<f, c>>] = [NoUpdate EXCEPT !.at = "queued"]
    <3>1. CASE UNCHANGED update
      BY <3>1
    <3>2. ASSUME NEW ok \in BOOLEAN, InitUpdate(e, ok)
          PROVE  \/ update'[<<f, c>>] = update[<<f, c>>]
                 \/ f = e /\ update'[<<f, c>>] = [NoUpdate EXCEPT !.at = "queued"]
      <4>1. <<f, c>> \in Enrols \X Clusters
        OBVIOUS
      <4>2. QED
        BY <3>2, <4>1 DEF InitUpdate
    <3>3. QED
      BY <1>4, <3>1, <3>2 DEF EnrolStep, EnrolBreak, Enrol, Greet
  <2>5. ASSUME NEW f \in Enrols, NEW c \in Clusters
        PROVE  /\ update'[<<f, c>>] = update[<<f, c>>] \/ ~Midway(f, c)'
               /\ update'[<<f, c>>].old \subseteq update[<<f, c>>].old
               /\ update'[<<f, c>>].seen \subseteq update[<<f, c>>].seen
    BY <2>4 DEF Midway, NoUpdate
  <2>6. ASSUME NEW f \in Enrols, NEW c \in Clusters, Midway(f, c)
        PROVE  /\ update'[<<f, c>>] = update[<<f, c>>]
               /\ enrol'[f].user = enrol[f].user /\ enrol'[f].vectors = enrol[f].vectors
    <3>1. f # e
      BY <2>3, <2>6 DEF Midway
    <3>2. QED
      BY <2>2, <2>4, <3>1
  <2>7. QED
    BY <2>1, <2>5, <2>6, QuietClean
<1>5. ASSUME NEW e \in Enrols, NEW c \in Clusters, UpdateStep(e, c) PROVE AllClean'
  <2>1. \A f \in Enrols, d \in Clusters : Within(f, d)'
    BY <1>5, UpdateStepWithin
  <2>2. ASSUME NEW d \in Clusters, d \notin messy' PROVE Clean(d)'
    BY <1>5, <2>2, OtherClusters, UpdateStepClean
  <2>3. QED
    BY <2>1, <2>2 DEF AllClean
<1>6. ASSUME NEW e \in Enrols, NEW c \in Clusters, UpdateBreak(e, c) PROVE AllClean'
  <2>1. <<e, c>> \in Enrols \X Clusters /\ update[<<e, c>>] \in UpdateSet
    <3>1. <<e, c>> \in Enrols \X Clusters
      OBVIOUS
    <3>2. QED
      BY <3>1 DEF Types
  <2>2. update' = [update EXCEPT ![<<e, c>>].at = "lost"] /\ update[<<e, c>>].at = "queued"
    BY <1>6 DEF UpdateBreak, UpdateAt, UpdateGoes
  <2>3. UNCHANGED <<owned, hash, messy, enrol>>
    BY <1>6 DEF UpdateBreak, UpdateOnly, indexVars
  <2>4. ASSUME NEW f \in Enrols, NEW d \in Clusters
        PROVE  \/ update'[<<f, d>>] = update[<<f, d>>]
               \/ /\ update[<<f, d>>].at = "queued" /\ update'[<<f, d>>].at = "lost"
                  /\ update'[<<f, d>>].old = update[<<f, d>>].old
                  /\ update'[<<f, d>>].seen = update[<<f, d>>].seen
    <3>1. <<f, d>> \in Enrols \X Clusters /\ update \in [Enrols \X Clusters -> UpdateSet]
      BY DEF Types
    <3>2. CASE <<f, d>> = <<e, c>>
      BY <2>1, <2>2, <3>1, <3>2 DEF UpdateSet
    <3>3. CASE <<f, d>> # <<e, c>>
      BY <2>2, <3>1, <3>3
    <3>4. QED
      BY <3>2, <3>3
  <2>5. QED
    BY <2>3, <2>4, QuietClean DEF Midway
<1>7. CASE Restart
  <2>1. UNCHANGED <<owned, hash>>
    BY <1>7 DEF Restart
  <2>2. messy' = messy \cup {c \in Clusters : \E e \in Enrols : Midway(e, c)}
    BY <1>7 DEF Restart
  <2>3. ASSUME NEW f \in Enrols, NEW d \in Clusters
        PROVE  \/ update'[<<f, d>>] = update[<<f, d>>]
               \/ /\ update'[<<f, d>>].at = "lost"
                  /\ update'[<<f, d>>].old = update[<<f, d>>].old
                  /\ update'[<<f, d>>].seen = update[<<f, d>>].seen
    <3>1. <<f, d>> \in Enrols \X Clusters
      OBVIOUS
    <3>2. update[<<f, d>>] \in UpdateSet
      BY <3>1 DEF Types
    <3>3. QED
      BY <1>7, <3>1, <3>2 DEF Restart, UpdateSet
  <2>4. QED
    BY <2>1, <2>2, <2>3, QuietClean DEF Midway
<1>8. QED
  BY <1>1, <1>2, <1>3, <1>4, <1>5, <1>6, <1>7 DEF Next

\* The index has no vector its user has no row for, whatever the updates of
\* other clusters and the identifications do, but for updates of the cluster
\* that overlap or fail half way.
THEOREM RowsCoverVectors == Spec => []Indexed
<1>1. Types /\ AllClean /\ [Next]_vars => AllClean'
  BY NextClean
<1>2. AllClean => Indexed
  <2>1. ASSUME AllClean, NEW x \in Cells, x[1] \notin messy, NEW u \in hash[x]
        PROVE  x \in owned[u] \/ \E e \in Enrols : Midway(e, x[1]) /\ enrol[e].user = u
    <3>1. x[1] \in Clusters /\ x \in In(Cells, x[1])
      BY DEF Clusters, In
    <3>2. Clean(x[1])
      BY <2>1, <3>1 DEF AllClean
    <3>3. QED
      BY <2>1, <3>1, <3>2 DEF Clean
  <2>2. QED
    BY <2>1 DEF Indexed
<1>3. QED
  BY <1>1, <1>2, InitClean, Typed, PTL DEF Spec

-----------------------------------------------------------------------------
(* Nobody is missed: a job of a run that nobody disturbed has loaded, or is    *)
(* still going to load, everyone it has to find.                               *)

\* The vectors with a row, of the provider's users, in the cells of a cluster.
Targets(c) ==
  {i \in Cells \X Users : /\ i[1][1] = c /\ i[2] \in Provided
                          /\ i[2] \in hash[i[1]] /\ i[1] \in owned[i[2]]}
Busy(j) == j.at \notin {"none", "lost"}
Finding(r, c) ==
  LET j == job[<<r, c>>] IN
  /\ r \in Reading
  /\ \A x \in j.load : x[1] = c
  /\ j.at = "buckets" => \A i \in Targets(c) : i[1] \in j.load
  /\ j.at = "put" => j.now \in j.load
  /\ j.at \in {"load", "put"} =>
       \A i \in Targets(c) : IF i[1] \in j.load THEN i \in j.seen ELSE i[2] \in cache[i[1]]
  /\ j.at = "score" => \A i \in Targets(c) : i[2] \in cache[i[1]]
  /\ \A i \in Targets(c) : i[1] \in run[r].sample => i[1] \in j.left \/ i \in j.hits
  /\ j.at \in {"append", "count", "gather", "done"} => j.left = {}
Looks(r, c) == Busy(job[<<r, c>>]) => Finding(r, c)
AllFound == \A r \in Runs \ disturbed, c \in Clusters : Looks(r, c)

LEMMA InitFound == Init => AllFound
BY DEF Init, AllFound, Looks, Busy, NoJob

\* A step that neither moves a job nor changes what it looks at.
LEMMA LooksKept ==
  ASSUME NEW r \in Runs, NEW c \in Clusters, Looks(r, c),
         job'[<<r, c>>] = job[<<r, c>>] \/ ~Busy(job'[<<r, c>>]),
         r \in Reading => /\ r \in Reading' /\ run'[r].sample = run[r].sample
                          /\ UNCHANGED <<hash, owned>>
                          /\ \A x \in Cells : x[1] = c => cache'[x] = cache[x]
  PROVE  Looks(r, c)'
<1> SUFFICES ASSUME Busy(job'[<<r, c>>]) PROVE Finding(r, c)'
  BY DEF Looks
<1>1. job'[<<r, c>>] = job[<<r, c>>] /\ Finding(r, c)
  BY DEF Looks
<1>2. r \in Reading
  BY <1>1 DEF Finding
<1>3. Targets(c)' = Targets(c)
  BY <1>2 DEF Targets
<1>4. \A i \in Targets(c) : cache'[i[1]] = cache[i[1]]
  BY <1>2 DEF Targets
<1> HIDE DEF Targets, Reading
<1>5. QED
  BY <1>1, <1>2, <1>3, <1>4 DEF Finding

\* Steps of a run's chain: only Spread and Finish move jobs.
LEMMA RunStepFound ==
  ASSUME Types, AllFound, NEW q \in Runs,
         Identify(q) \/ RunStep(q) \/ Answer(q) \/ Break(q)
  PROVE  AllFound'
<1> SUFFICES ASSUME NEW r \in Runs \ disturbed', NEW c \in Clusters PROVE Looks(r, c)'
  BY DEF AllFound
<1> USE DEF indexVars, ChainOnly
<1>1. UNCHANGED <<owned, hash, cache, disturbed>>
  BY DEF Identify, RunStep, Prepare, Spread, LoadUsers, Begin, Finish, Answer, Break
<1>2. Looks(r, c)
  BY <1>1 DEF AllFound
<1>3. run[r] \in RunSet /\ run[q] \in RunSet
  BY DEF Types
<1>4. CASE Identify(q) \/ Prepare(q) \/ Answer(q) \/ Break(q)
           \/ (\E ok \in BOOLEAN : LoadUsers(q, ok))
           \/ (\E S \in SUBSET Cells : Begin(q, S))
  <2>1. UNCHANGED job
    BY <1>4 DEF Identify, Prepare, LoadUsers, Begin, Answer, Break
  <2>2. r \in Reading => r \in Reading' /\ run'[r].sample = run[r].sample
    <3>1. ASSUME r \in Reading, NEW s, run' = [run EXCEPT ![q].at = s],
                 s \in {"over", "lost"} \/ q # r
          PROVE  r \in Reading' /\ run'[r].sample = run[r].sample
      BY <1>3, <3>1 DEF Reading, Types, RunSet
    <3>2. r \in Reading => run[r].at \notin {"none", "start", "prepare", "users"}
      BY DEF Reading
    <3>3. CASE Identify(q)
      BY <3>1, <3>2, <3>3 DEF Identify, Goes, Admits, Begun
    <3>4. CASE Prepare(q)
      BY <3>1, <3>2, <3>4 DEF Prepare, Goes, At
    <3>5. CASE Answer(q) \/ Break(q)
      BY <3>1, <3>2, <3>5 DEF Answer, Break, Goes
    <3>6. ASSUME NEW ok \in BOOLEAN, LoadUsers(q, ok)
          PROVE  r \in Reading => r \in Reading' /\ run'[r].sample = run[r].sample
      BY <3>1, <3>2, <3>6 DEF LoadUsers, Goes, At
    <3>7. ASSUME NEW S \in SUBSET Cells, Begin(q, S)
          PROVE  r \in Reading => r \in Reading' /\ run'[r].sample = run[r].sample
      BY <3>2, <3>7 DEF Begin, At, Types, Reading
    <3>8. QED
      BY <1>4, <3>3, <3>4, <3>5, <3>6, <3>7
  <2>3. QED
    BY <1>1, <1>2, <2>1, <2>2, LooksKept
<1>5. CASE Spread(q)
  <2>1. run[q].at = "run"
    BY <1>5 DEF Spread, At
  <2>2. CASE r = q
    <3>1. r \notin Reading
      BY <2>1, <2>2 DEF Reading
    <3>2. CASE Sampled(q) = {} \/ c \notin Sampled(q)
      <4>1. job'[<<r, c>>] = job[<<r, c>>]
        BY <1>5, <3>2 DEF Spread, Types
      <4>2. QED
        BY <1>1, <1>2, <3>1, <4>1, LooksKept
    <3>3. CASE c \in Sampled(q)
      <4>1. job'[<<r, c>>] = [NoJob EXCEPT !.at = "owners", !.left = In(run[q].sample, c)]
        BY <1>5, <2>2, <3>3 DEF Spread
      <4>2. /\ job'[<<r, c>>].at = "owners" /\ job'[<<r, c>>].load = {}
            /\ job'[<<r, c>>].left = In(run[q].sample, c)
        BY <4>1 DEF NoJob
      <4>3. run'[r].at = "jobs" /\ run'[r].sample = run[r].sample
        <5>1. run' = [run EXCEPT ![q].at = "jobs"]
          BY <1>5, <3>3 DEF Spread, Goes
        <5>2. QED
          BY <1>3, <2>2, <5>1 DEF Types, RunSet
      <4>4. r \in Reading'
        BY <4>3 DEF Reading
      <4>5. \A i \in Targets(c)' : i[1] \in run[q].sample => i[1] \in In(run[q].sample, c)
        BY DEF Targets, In
      <4>6. QED
        BY <2>2, <4>2, <4>3, <4>4, <4>5 DEF Looks, Finding
    <3>4. QED
      BY <3>2, <3>3
  <2>3. CASE r # q
    <3>1. job'[<<r, c>>] = job[<<r, c>>]
      BY <1>5, <2>3 DEF Spread, Types
    <3>2. run'[r] = run[r]
      BY <1>5, <2>3 DEF Spread, Goes, Types
    <3>3. QED
      BY <1>1, <1>2, <3>1, <3>2, LooksKept DEF Reading
  <2>4. QED
    BY <2>2, <2>3
<1>6. ASSUME NEW v \in Users \cup {Nobody}, Finish(q, v) PROVE Looks(r, c)'
  <2>1. job'[<<r, c>>] = job[<<r, c>>] \/ job'[<<r, c>>] = NoJob
    BY <1>6 DEF Finish, Types
  <2>2. r \in Reading => r \in Reading' /\ run'[r].sample = run[r].sample
    BY <1>3, <1>6 DEF Finish, Reading, Types, RunSet
  <2>3. QED
    BY <1>1, <1>2, <2>1, <2>2, LooksKept DEF Busy, NoJob
<1>7. QED
  BY <1>4, <1>5, <1>6 DEF RunStep

\* The jobs of a run that is not the one that moves, and those of its other
\* clusters: only Load and Put touch the cache, in the cells of one cluster.
LEMMA OthersFound ==
  ASSUME Types, AllFound, NEW q \in Runs, NEW d \in Clusters, JobStep(q, d) \/ JobBreak(q, d),
         NEW r \in Runs \ disturbed', NEW c \in Clusters, <<r, c>> # <<q, d>>
  PROVE  Looks(r, c)'
<1> USE DEF indexVars, redisVars, JobOnly, IndexOnly
<1>1. UNCHANGED <<owned, hash>> /\ disturbed \subseteq disturbed'
  BY DEF JobStep, JobBreak, SelectOwners, SelectBuckets, Load, Put, Score, Append, Count, Gather
<1>2. Looks(r, c)
  BY <1>1 DEF AllFound
<1>3. job'[<<r, c>>] = job[<<r, c>>]
  <2>1. \E j : job' = [job EXCEPT ![<<q, d>>] = j]
    BY DEF JobStep, JobBreak, SelectOwners, SelectBuckets, Load, Put, Score, Append, Count,
         Gather, JobGoes
  <2>2. QED
    BY <2>1 DEF Types
<1>4. r \in Reading => r \in Reading' /\ run'[r].sample = run[r].sample
  <2>1. CASE Gather(q, d)
    BY <2>1 DEF Gather, Reading, Types, RunSet
  <2>2. CASE UNCHANGED run
    BY <2>2 DEF Reading
  <2>3. QED
    BY <2>1, <2>2 DEF JobStep, JobBreak, SelectOwners, SelectBuckets, Load, Put, Score, Append,
         Count
<1>5. ASSUME r \in Reading, NEW x \in Cells, x[1] = c PROVE cache'[x] = cache[x]
  <2>1. CASE UNCHANGED cache
    BY <2>1
  <2>2. ASSUME NEW y, Load(q, d, y) PROVE cache'[x] = cache[x]
    <3>1. r = q
      BY <1>5, <2>2 DEF Load
    <3>2. y[1] = d
      <4>1. Looks(q, d)
        BY <1>1, <3>1 DEF AllFound
      <4>2. QED
        BY <2>2, <4>1 DEF Load, JobAt, Looks, Busy, Finding
    <3>3. x # y
      BY <1>5, <3>1, <3>2
    <3>4. QED
      BY <2>2, <3>3 DEF Load, Types, IndexTypes
  <2>3. CASE Put(q, d)
    <3>1. r = q
      BY <1>5, <2>3 DEF Put
    <3>2. job[<<q, d>>].now[1] = d
      <4>1. Looks(q, d)
        BY <1>1, <3>1 DEF AllFound
      <4>2. QED
        BY <2>3, <4>1 DEF Put, JobAt, Looks, Busy, Finding
    <3>3. x # job[<<q, d>>].now
      BY <1>5, <3>1, <3>2
    <3>4. QED
      BY <2>3, <3>3 DEF Put, Types, IndexTypes
  <2>4. QED
    BY <2>1, <2>2, <2>3 DEF JobStep, JobBreak, SelectOwners, SelectBuckets, Score, Append,
         Count, Gather
<1>6. QED
  BY <1>1, <1>2, <1>3, <1>4, <1>5, LooksKept

\* The job that moves.
LEMMA OwnFound ==
  ASSUME Types, AllFound, NEW r \in Runs \ disturbed', NEW c \in Clusters, JobStep(r, c)
  PROVE  Looks(r, c)'
<1> DEFINE j == job[<<r, c>>]
           k == job'[<<r, c>>]
           L == In(UNION {owned[u] : u \in Provided}, c)
           B == {x \in j.load : hash[x] # {}}
<1> USE DEF indexVars, redisVars, JobOnly, IndexOnly
<1>1. UNCHANGED <<owned, hash>> /\ disturbed \subseteq disturbed'
  BY DEF JobStep, SelectOwners, SelectBuckets, Load, Put, Score, Append, Count, Gather
<1>2. j \in JobSet /\ job \in [Runs \X Clusters -> JobSet]
  BY DEF Types
<1>3. hash \in [Cells -> SUBSET Users] /\ cache \in [Cells -> SUBSET Users]
  BY DEF Types, IndexTypes
<1>4. Busy(j) /\ Finding(r, c)
  <2>1. Busy(j)
    BY DEF JobStep, SelectOwners, SelectBuckets, Load, Put, Score, Append, Count, Gather,
         JobAt, Busy
  <2>2. QED
    BY <1>1, <2>1 DEF AllFound, Looks
<1>5. /\ r \in Reading /\ \A x \in j.load : x[1] = c
      /\ \A i \in Targets(c) : i[1] \in run[r].sample => i[1] \in j.left \/ i \in j.hits
  BY <1>4 DEF Finding
<1>6. Targets(c)' = Targets(c)
  BY <1>1 DEF Targets
<1>7. \A i \in Targets(c) : /\ i \in Cells \X Users /\ i[1][1] = c
                            /\ i[2] \in hash[i[1]] /\ i[1] \in owned[i[2]] /\ i[2] \in Provided
  BY DEF Targets
<1>8. r \in Reading' /\ run'[r].sample = run[r].sample
  <2>1. CASE Gather(r, c)
    BY <1>5, <2>1 DEF Gather, Reading, Types, RunSet
  <2>2. CASE UNCHANGED run
    BY <1>5, <2>2 DEF Reading
  <2>3. QED
    BY <2>1, <2>2 DEF JobStep, SelectOwners, SelectBuckets, Load, Put, Score, Append, Count
<1> HIDE DEF Targets, Reading
<1> SUFFICES Finding(r, c)'
  BY DEF Looks
<1>9. CASE SelectOwners(r, c)
  <2>1. k = [j EXCEPT !.load = L, !.at = IF L = {} THEN "score" ELSE "buckets"]
    BY <1>2, <1>9 DEF SelectOwners
  <2>2. \A i \in Targets(c) : i[1] \in L
    BY <1>7 DEF In
  <2>3. \A x \in L : x[1] = c
    BY DEF In
  <2> HIDE DEF L
  <2>4. /\ k.load = L /\ k.left = j.left /\ k.hits = j.hits
        /\ k.at = IF L = {} THEN "score" ELSE "buckets"
    BY <1>2, <2>1 DEF JobSet
  <2>5. QED
    BY <1>5, <1>6, <1>8, <2>2, <2>3, <2>4 DEF Finding
<1>10. CASE SelectBuckets(r, c)
  <2>1. k = [j EXCEPT !.load = B, !.seen = {i \in B \X Users : i[2] \in hash[i[1]]},
                      !.at = IF B = {} THEN "score" ELSE "load"]
    BY <1>2, <1>10 DEF SelectBuckets
  <2>2. \A i \in Targets(c) : i[1] \in j.load
    BY <1>4, <1>10 DEF SelectBuckets, JobAt, Finding
  <2>3. /\ \A i \in Targets(c) : i[1] \in B /\ i \in {l \in B \X Users : l[2] \in hash[l[1]]}
        /\ \A x \in B : x[1] = c
    BY <1>5, <1>7, <2>2
  <2> HIDE DEF B
  <2>4. /\ k.load = B /\ k.left = j.left /\ k.hits = j.hits
        /\ k.seen = {i \in B \X Users : i[2] \in hash[i[1]]}
        /\ k.at = IF B = {} THEN "score" ELSE "load"
    BY <1>2, <2>1 DEF JobSet
  <2>5. QED
    BY <1>5, <1>6, <1>8, <2>3, <2>4 DEF Finding
<1>11. ASSUME NEW x \in Cells, Load(r, c, x) PROVE Finding(r, c)'
  <2>1. k = [j EXCEPT !.at = "put", !.now = x] /\ x \in j.load /\ j.at = "load"
    BY <1>2, <1>11 DEF Load, JobAt
  <2>2. /\ k.load = j.load /\ k.left = j.left /\ k.hits = j.hits /\ k.seen = j.seen
        /\ k.at = "put" /\ k.now = x
    BY <1>2, <2>1 DEF JobSet
  <2>3. \A i \in Targets(c) : IF i[1] \in j.load THEN i \in j.seen ELSE i[2] \in cache[i[1]]
    BY <1>4, <2>1 DEF Finding
  <2>4. \A i \in Targets(c) : i[1] \notin j.load => cache'[i[1]] = cache[i[1]]
    BY <1>3, <1>7, <1>11, <2>1 DEF Load
  <2>5. QED
    BY <1>5, <1>6, <1>8, <2>1, <2>2, <2>3, <2>4 DEF Finding
<1>12. CASE Put(r, c)
  <2> DEFINE M == j.load \ {j.now}
  <2>1. /\ k = [j EXCEPT !.load = M, !.now = None, !.seen = IF M = {} THEN {} ELSE @,
                         !.at = IF M = {} THEN "score" ELSE "load"]
        /\ j.at = "put"
    BY <1>2, <1>12 DEF Put, JobAt, LeftToLoad
  <2>2. /\ j.now \in j.load
        /\ \A i \in Targets(c) : IF i[1] \in j.load THEN i \in j.seen ELSE i[2] \in cache[i[1]]
    BY <1>4, <2>1 DEF Finding
  <2>3. ASSUME NEW i \in Targets(c), i[1] \notin M PROVE i[2] \in cache'[i[1]]
    <3>1. CASE i[1] = j.now
      <4>1. i \in j.seen /\ i = <<j.now, i[2]>> /\ i[2] \in Users /\ j.now \in Cells
        BY <1>7, <2>2, <3>1
      <4>2. cache'[j.now] = {u \in Users : <<j.now, u>> \in j.seen}
        BY <1>3, <1>12, <4>1 DEF Put
      <4>3. QED
        BY <3>1, <4>1, <4>2
    <3>2. CASE i[1] # j.now
      <4>1. cache'[i[1]] = cache[i[1]]
        BY <1>3, <1>7, <1>12, <3>2 DEF Put
      <4>2. QED
        BY <2>2, <2>3, <3>2, <4>1
    <3>3. QED
      BY <3>1, <3>2
  <2>4. \A i \in Targets(c) : i[1] \in M => i \in j.seen
    BY <2>2
  <2>5. \A x \in M : x[1] = c
    BY <1>5
  <2> HIDE DEF M
  <2>6. /\ k.load = M /\ k.left = j.left /\ k.hits = j.hits
        /\ k.seen = IF M = {} THEN {} ELSE j.seen
        /\ k.at = IF M = {} THEN "score" ELSE "load"
    BY <1>2, <2>1 DEF JobSet
  <2>7. QED
    BY <1>5, <1>6, <1>8, <2>3, <2>4, <2>5, <2>6 DEF Finding
<1>13. ASSUME NEW x \in Cells, Score(r, c, x) PROVE Finding(r, c)'
  <2>1. /\ k = [j EXCEPT !.hits = @ \cup ({x} \X cache[x]), !.left = @ \ {x},
                         !.at = IF j.left = {x} THEN "append" ELSE "score"]
        /\ x \in j.left /\ j.at = "score" /\ UNCHANGED cache
    BY <1>2, <1>13 DEF Score, JobAt, Found
  <2>2. \A i \in Targets(c) : i[2] \in cache[i[1]]
    BY <1>4, <2>1 DEF Finding
  <2>3. \A i \in Targets(c) : i[1] = x => i \in {x} \X cache[x]
    BY <1>7, <2>2
  <2>4. /\ k.load = j.load /\ k.left = j.left \ {x} /\ k.hits = j.hits \cup ({x} \X cache[x])
        /\ k.at = IF j.left = {x} THEN "append" ELSE "score"
    BY <1>2, <2>1 DEF JobSet
  <2>5. QED
    BY <1>5, <1>6, <1>8, <2>1, <2>2, <2>3, <2>4 DEF Finding
<1>14. CASE Append(r, c) \/ Count(r, c) \/ Gather(r, c)
  <2>1. /\ j.at \in {"append", "count", "gather"}
        /\ \E s \in {"count", "gather", "done"} : k = [j EXCEPT !.at = s]
    BY <1>2, <1>14 DEF Append, Count, Gather, JobAt, JobGoes
  <2>2. /\ k.load = j.load /\ k.left = j.left /\ k.hits = j.hits
        /\ k.at \in {"count", "gather", "done"}
    BY <1>2, <2>1 DEF JobSet
  <2>3. j.left = {}
    BY <1>4, <2>1 DEF Finding
  <2>4. QED
    BY <1>5, <1>6, <1>8, <2>2, <2>3 DEF Finding
<1>15. QED
  BY <1>9, <1>10, <1>11, <1>12, <1>13, <1>14 DEF JobStep

LEMMA JobStepFound ==
  ASSUME Types, AllFound, NEW q \in Runs, NEW d \in Clusters, JobStep(q, d) \/ JobBreak(q, d)
  PROVE  AllFound'
<1> SUFFICES ASSUME NEW r \in Runs \ disturbed', NEW c \in Clusters PROVE Looks(r, c)'
  BY DEF AllFound
<1>1. CASE <<r, c>> # <<q, d>>
  BY <1>1, OthersFound
<1>2. CASE r = q /\ c = d /\ JobStep(q, d)
  BY <1>2, OwnFound
<1>3. CASE r = q /\ c = d /\ JobBreak(q, d)
  BY <1>3 DEF JobBreak, JobGoes, Types, JobSet, Looks, Busy
<1>4. QED
  BY <1>1, <1>2, <1>3

\* An update changes the index under the runs that read it, and disturbs them.
LEMMA UpdateStepFound ==
  ASSUME Types, AllFound, NEW e \in Enrols, NEW d \in Clusters,
         UpdateStep(e, d) \/ UpdateBreak(e, d)
  PROVE  AllFound'
<1> SUFFICES ASSUME NEW r \in Runs \ disturbed', NEW c \in Clusters PROVE Looks(r, c)'
  BY DEF AllFound
<1> USE DEF indexVars, UpdateOnly
<1>1. UNCHANGED <<run, job, cache>> /\ disturbed \subseteq disturbed'
  BY DEF UpdateStep, UpdateBreak, SelectOwned, SelectHash, Strip, Disown, Disowned, Drop, Write,
       Own, Changed
<1>2. r \in Reading => UNCHANGED <<hash, owned>>
  BY DEF UpdateStep, UpdateBreak, SelectOwned, SelectHash, Strip, Disown, Disowned, Drop, Write,
       Own, Changed
<1>3. Looks(r, c)
  BY <1>1 DEF AllFound
<1>4. QED
  BY <1>1, <1>2, <1>3, LooksKept DEF Reading

LEMMA RestartFound ==
  ASSUME Types, AllFound, Restart
  PROVE  AllFound'
<1> SUFFICES ASSUME NEW r \in Runs \ disturbed', NEW c \in Clusters PROVE Looks(r, c)'
  BY DEF AllFound
<1>1. UNCHANGED <<owned, hash, cache, disturbed>>
  BY DEF Restart
<1>2. Looks(r, c)
  BY <1>1 DEF AllFound
<1>3. run[r] \in RunSet /\ job[<<r, c>>] \in JobSet
  BY DEF Types
<1>4. job'[<<r, c>>] = job[<<r, c>>] \/ ~Busy(job'[<<r, c>>])
  BY <1>3 DEF Restart, Busy, JobSet
<1>5. r \in Reading => r \in Reading' /\ run'[r].sample = run[r].sample
  BY <1>3 DEF Restart, Reading, RunSet
<1>6. QED
  BY <1>1, <1>2, <1>4, <1>5, LooksKept

LEMMA NextFound ==
  ASSUME Types, AllFound, [Next]_vars
  PROVE  AllFound'
<1>1. ASSUME UNCHANGED <<owned, hash, cache, run, job, disturbed>> PROVE AllFound'
  BY <1>1, LooksKept DEF AllFound, Reading
<1>2. CASE UNCHANGED vars
  BY <1>1, <1>2 DEF vars, indexVars
<1>3. ASSUME NEW e \in Enrols, EnrolStep(e) \/ EnrolBreak(e) \/ \E u \in Users : Enrol(e, u)
      PROVE  AllFound'
  BY <1>1, <1>3 DEF EnrolStep, EnrolBreak, Enrol, Greet, InitUpdate, EnrolOnly, indexVars
<1>4. CASE Next
  BY <1>3, <1>4, RunStepFound, JobStepFound, UpdateStepFound, RestartFound DEF Next
<1>5. QED
  BY <1>2, <1>4

\* A user of the provider whose row and vectors are in a bucket of the samples
\* is a hit of the job that looked it up, whatever earlier runs left in Redis,
\* if nobody changed the index or loaded cells meanwhile.
THEOREM EveryoneIsFound == Spec => []NobodyMissed
<1>1. Types /\ AllFound /\ [Next]_vars => AllFound'
  BY NextFound
<1>2. Types /\ AllFound => NobodyMissed
  <2> SUFFICES ASSUME Types, AllFound, NEW r \in Runs \ disturbed, NEW x \in run[r].sample,
                      NEW u \in Provided \cap hash[x], x \in owned[u],
                      job[<<r, x[1]>>].at \in {"append", "count", "gather", "done"}
               PROVE  <<x, u>> \in job[<<r, x[1]>>].hits
    BY DEF NobodyMissed
  <2>1. x \in Cells /\ x[1] \in Clusters
    BY DEF Types, RunSet, Clusters
  <2>2. <<x, u>> \in Targets(x[1])
    BY <2>1 DEF Targets, Types, IndexTypes
  <2>3. Finding(r, x[1])
    BY <2>1 DEF AllFound, Looks, Busy
  <2>4. QED
    BY <2>2, <2>3 DEF Finding
<1>3. QED
  BY <1>1, <1>2, InitFound, Typed, PTL DEF Spec
=============================================================================
