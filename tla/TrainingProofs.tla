---------------------------- MODULE TrainingProofs ----------------------------
(* Proofs about Training, for any number of codes, websockets, training jobs,  *)
(* attempts and faults, and any of the plugins.                                *)
EXTENDS Training, FiniteSetTheorems, TLAPS

USE DEF aiVars, Without

JobSet == [at : Stages, conn : 0..MaxConns, of : AllCodes \cup {None}, code : AllCodes,
           error : Errors, says : Answers \cup {None}, status : Statuses]

KeyTypes ==
  /\ key \in [AllCodes -> Values \cup {None}]
  /\ inbox \subseteq AllCodes /\ sub \in 0..MaxConns
\* A machine that waits for samples is bound to a key.
PhoneTypes ==
  /\ sock \in [Conns -> {"new", "open", "closed"}] /\ fsm \in [Conns -> States]
  /\ bound \in [Conns -> AllCodes \cup {None}] /\ engine \in [Conns -> {"ready", "trying"}]
  /\ request \in [Conns -> Requests \cup {None}]
  /\ \A c \in Conns : fsm[c] = "training" => bound[c] # None
\* The plugin holds the callback of a connection from the first run on.
PluginTypes ==
  /\ asking \in (Runs \X BOOLEAN) \cup {None} /\ plugin \in 0..MaxRuns
  /\ news \subseteq Runs /\ answered \subseteq Runs
  /\ asking # None => plugin # 0 /\ job[asking[1]].at = "none"
  /\ \A r \in Runs : job[r].at # "none" => plugin # 0
  /\ \A r \in news : job[r].at # "none"
  /\ plugin # 0 => job[plugin].conn \in Conns
RestTypes ==
  /\ tries \in Int \cup {None} /\ mark \in BOOLEAN /\ row \in Nat
  /\ told \in [AllCodes -> Statuses] /\ pipeline \in Pipelines
  /\ started \in 0..MaxCodes /\ expiries \in 0..MaxTroubles /\ faults \in 0..MaxTroubles
  /\ overlap \in BOOLEAN /\ canceled \subseteq Codes
Types ==
  /\ KeyTypes /\ PhoneTypes /\ PluginTypes /\ RestTypes
  /\ job \in [Runs -> JobSet]

LEMMA NoJobTyped == NoJob \in JobSet
BY TrainingConstants DEF NoJob, JobSet, Stages, AllCodes, NoCode, Errors, Statuses

LEMMA InitTypes == Init => Types
<1> SUFFICES ASSUME Init PROVE Types
  OBVIOUS
<1>1. KeyTypes /\ PhoneTypes
  BY TrainingConstants DEF Init, KeyTypes, PhoneTypes, States
<1>2. PluginTypes
  BY TrainingConstants DEF Init, PluginTypes, NoJob
<1>3. RestTypes
  <2>1. told \in [AllCodes -> Statuses]
    BY DEF Init, Statuses
  <2>2. started \in 0..MaxCodes /\ expiries \in 0..MaxTroubles /\ faults \in 0..MaxTroubles
    BY TrainingConstants DEF Init
  <2>3. /\ tries \in Int \cup {None} /\ mark \in BOOLEAN /\ row \in Nat /\ overlap \in BOOLEAN
        /\ canceled \subseteq Codes
    BY DEF Init
  <2>4. QED
    BY <2>1, <2>2, <2>3 DEF Init, RestTypes
<1>4. QED
  BY <1>1, <1>2, <1>3, NoJobTyped DEF Init, Types

\* A trouble is within the bound.
LEMMA SpareTyped ==
  ASSUME Types, Spare
  PROVE  expiries + 1 \in 0..MaxTroubles /\ faults + 1 \in 0..MaxTroubles
<1> DEFINE n == Cardinality({c \in Conns : sock[c] # "new"})
<1>1. n \in Nat
  <2>1. IsFiniteSet(Conns)
    BY FS_Interval, TrainingConstants DEF Conns
  <2>2. QED
    BY <2>1, FS_Subset, FS_CardinalityType
<1>2. Extra(n) \in Nat /\ Extra(started) \in Nat
  BY <1>1, TrainingConstants DEF Extra, Types, RestTypes
<1>3. expiries + faults + Extra(started) + Extra(n) < MaxTroubles
  BY DEF Spare
<1> HIDE DEF n
<1>4. QED
  BY <1>2, <1>3, TrainingConstants DEF Types, RestTypes

LEMMA MergedTyped ==
  ASSUME Types, NEW k \in AllCodes, NEW s \in States
  PROVE  Merged(k, s) \in Values
BY DEF Types, KeyTypes, Merged, Values, AllCodes, NoCode

LEMMA StoredTyped ==
  ASSUME Types, NEW c \in Conns, NEW s \in States
  PROVE  Stored(c, s) \in [AllCodes -> Values \cup {None}] /\ BoundKeys(c) \subseteq AllCodes
<1>1. BoundKeys(c) \subseteq AllCodes
  BY DEF Types, PhoneTypes, BoundKeys
<1>2. CASE bound[c] = None
  BY <1>1, <1>2 DEF Stored, Types, KeyTypes
<1>3. CASE bound[c] # None
  <2>1. bound[c] \in AllCodes
    BY <1>3 DEF Types, PhoneTypes
  <2>2. QED
    BY <1>1, <1>3, <2>1, MergedTyped DEF Stored, Types, KeyTypes
<1>4. QED
  BY <1>2, <1>3

LEMMA NoticeTyped ==
  ASSUME Types, NEW K \in SUBSET AllCodes, Notice(K)
  PROVE  inbox' \subseteq AllCodes
BY DEF Types, KeyTypes, Notice

\* What a try asks for.
LEMMA AskedTyped ==
  /\ PR!Asked([t \in PR!TrainingTypes |-> Need]) \in Requests
  /\ \A t \in PR!TrainingTypes :
       PR!Asked([u \in PR!TrainingTypes |-> Need]).need[t] = Need
<1>1. {t \in PR!TrainingTypes : [u \in PR!TrainingTypes |-> Need][t] > 0} = PR!TrainingTypes
  BY TrainingConstants
<1>2. QED
  BY <1>1, TrainingConstants DEF PR!Asked, Requests

LEMMA EnteredTyped ==
  ASSUME Types, NEW c \in Conns, NEW s \in States, Entered(c, s)
  PROVE  /\ fsm' \in [Conns -> States] /\ engine' \in [Conns -> {"ready", "trying"}]
         /\ request' \in [Conns -> Requests \cup {None}]
         /\ \A d \in Conns : fsm'[d] = IF d = c THEN s ELSE fsm[d]
BY AskedTyped DEF Types, PhoneTypes, Entered

LEMMA AbandonTyped ==
  ASSUME Types, NEW c \in Conns, Abandon(c)
  PROVE  /\ key' \in [AllCodes -> Values \cup {None}] /\ inbox' \subseteq AllCodes
         /\ bound' \in [Conns -> AllCodes \cup {None}] /\ fsm' \in [Conns -> States]
         /\ told' \in [AllCodes -> Statuses] /\ overlap' \in BOOLEAN /\ canceled' \subseteq Codes
         /\ tries' \in Int \cup {None} /\ row' \in Nat
         /\ \A d \in Conns : fsm'[d] = "training" => bound'[d] # None
<1>1. BoundKeys(c) \subseteq AllCodes
  BY DEF Types, PhoneTypes, BoundKeys
<1>2. inbox' \subseteq AllCodes
  BY <1>1, NoticeTyped DEF Abandon
<1>3. key' \in [AllCodes -> Values \cup {None}]
  BY DEF Abandon, Types, KeyTypes
<1>4. told' \in [AllCodes -> Statuses] /\ fsm' \in [Conns -> States]
  BY DEF Abandon, Types, PhoneTypes, RestTypes, States, Statuses
<1>5. bound' \in [Conns -> AllCodes \cup {None}]
  BY DEF Abandon, Types, PhoneTypes
<1>6. overlap' \in BOOLEAN /\ canceled' \subseteq Codes
  BY DEF Abandon, Types, RestTypes, Busy
<1>7. \A d \in Conns : fsm'[d] = "training" => bound'[d] # None
  BY DEF Abandon, Types, PhoneTypes
<1>8. QED
  BY <1>2, <1>3, <1>4, <1>5, <1>6, <1>7 DEF Abandon

LEMMA LeaveTyped ==
  ASSUME Types, NEW c \in Conns, Leave(c)
  PROVE  /\ key' \in [AllCodes -> Values \cup {None}] /\ inbox' \subseteq AllCodes
         /\ sub' \in 0..MaxConns
<1>1. fsm[c] \in States
  BY DEF Types, PhoneTypes
<1>2. QED
  BY <1>1, StoredTyped, TrainingConstants DEF Leave, Types, KeyTypes

LEMMA ClosedTyped ==
  ASSUME Types, NEW c \in Conns, Closed(c) \/ Drop(c)
  PROVE  Types'
<1>1. sock' \in [Conns -> {"new", "open", "closed"}]
  BY DEF Closed, Drop, Types, PhoneTypes
<1>2. UNCHANGED <<engine, request, pluginVars, mark, job, pipeline, started, expiries, faults>>
  BY DEF Closed, Drop
<1>3. CASE Abandon(c) /\ sub' \in {0, sub}
  <2>1. KeyTypes' /\ PhoneTypes'
    BY <1>1, <1>2, <1>3, AbandonTyped, TrainingConstants DEF KeyTypes, PhoneTypes, Types
  <2>2. PluginTypes' /\ RestTypes'
    BY <1>2, <1>3, AbandonTyped DEF PluginTypes, RestTypes, Types, pluginVars
  <2>3. QED
    BY <1>2, <2>1, <2>2 DEF Types
<1>4. CASE Leave(c)
  <2>1. KeyTypes' /\ PhoneTypes'
    BY <1>1, <1>2, <1>4, LeaveTyped DEF KeyTypes, PhoneTypes, Types, Leave
  <2>2. PluginTypes' /\ RestTypes'
    BY <1>2, <1>4 DEF PluginTypes, RestTypes, Types, pluginVars, Leave
  <2>3. QED
    BY <1>2, <2>1, <2>2 DEF Types
<1>5. QED
  BY <1>3, <1>4 DEF Closed, Drop

\* A connection, or the request of the AI.
LEMMA StartTypes ==
  ASSUME Types, NEW k \in Codes, Start(k)
  PROVE  Types'
<1>1. k \in AllCodes /\ Wanted(k) \in Values /\ started' \in 0..MaxCodes
  BY TrainingConstants DEF Start, Wanted, Values, States, Codes, AllCodes, Types, RestTypes
<1>2. KeyTypes'
  BY <1>1, NoticeTyped DEF Start, KeyTypes, Types
<1>3. PhoneTypes' /\ PluginTypes'
  BY DEF Start, phoneVars, pluginVars, PhoneTypes, PluginTypes, Types
<1>4. RestTypes' /\ UNCHANGED job
  BY <1>1 DEF Start, redisVars, RestTypes, Types
<1>5. QED
  BY <1>2, <1>3, <1>4 DEF Types

LEMMA ConnectTypes ==
  ASSUME Types, NEW c \in Conns, NEW k \in AllCodes \cup {None}, Connect(c, k)
  PROVE  Types'
<1>1. (IF k = None THEN "ready" ELSE key[k].state) \in States
  <2>1. CASE k = None
    BY <2>1 DEF States
  <2>2. CASE k # None
    <3>1. k \in AllCodes /\ key[k] # None
      BY <2>2 DEF Connect
    <3>2. QED
      BY <2>2, <3>1 DEF Types, KeyTypes, Values
  <2>3. QED
    BY <2>1, <2>2
<1>2. KeyTypes'
  BY TrainingConstants DEF Connect, KeyTypes, Types, Conns
<1>3. PhoneTypes'
  BY <1>1, EnteredTyped DEF Connect, PhoneTypes, Types
<1>4. PluginTypes' /\ RestTypes' /\ UNCHANGED job
  BY DEF Connect, pluginVars, redisVars, envVars, PluginTypes, RestTypes, Types
<1>5. QED
  BY <1>2, <1>3, <1>4 DEF Types

LEMMA NewsTypes ==
  ASSUME Types, NEW c \in Conns, NEW k \in AllCodes, News(c, k)
  PROVE  Types'
<1> DEFINE b == IF bound[c] # k /\ key[k] # None THEN k ELSE bound[c]
<1>1. b \in AllCodes \cup {None}
  BY DEF Types, PhoneTypes
<1>2. bound' \in [Conns -> AllCodes \cup {None}]
  BY <1>1 DEF News, Types, PhoneTypes
<1>3. PhoneTypes'
  <2>1. CASE UNCHANGED <<fsm, engine, request>>
    <3>1. \A d \in Conns : bound[d] # None => bound'[d] # None
      BY TrainingConstants DEF News, Types, PhoneTypes, AllCodes, Codes, NoCode
    <3>2. QED
      BY <1>2, <2>1, <3>1 DEF News, PhoneTypes, Types
  <2>2. CASE b # None /\ key[b] # None /\ Entered(c, key[b].state)
    <3>1. key[b].state \in States
      BY <1>1, <2>2 DEF Types, KeyTypes, Values
    <3>2. QED
      BY <1>2, <2>2, <3>1, EnteredTyped DEF News, PhoneTypes, Types
  <2>3. QED
    BY <2>1, <2>2 DEF News
<1>4. KeyTypes'
  BY DEF News, KeyTypes, Types
<1>5. PluginTypes' /\ RestTypes' /\ UNCHANGED job
  BY DEF News, pluginVars, redisVars, envVars, PluginTypes, RestTypes, Types
<1>6. QED
  BY <1>3, <1>4, <1>5 DEF Types

LEMMA CancelTypes ==
  ASSUME Types, NEW c \in Conns, Cancel(c)
  PROVE  Types'
<1>1. /\ engine' \in [Conns -> {"ready", "trying"}]
      /\ request' \in [Conns -> Requests \cup {None}]
  BY DEF Cancel, Types, PhoneTypes
<1>2. UNCHANGED <<sub, sock, pluginVars, mark, job, pipeline, started, expiries, faults>>
  BY DEF Cancel
<1>3. CASE Abandon(c)
  BY <1>1, <1>2, <1>3, AbandonTyped
     DEF Types, KeyTypes, PhoneTypes, PluginTypes, RestTypes, pluginVars
<1>4. CASE UNCHANGED <<told, canceled, key, inbox, bound, fsm, tries, row, overlap>>
  BY <1>1, <1>2, <1>4 DEF Types, KeyTypes, PhoneTypes, PluginTypes, RestTypes, pluginVars
<1>5. QED
  BY <1>3, <1>4 DEF Cancel

LEMMA SendSomeTypes ==
  ASSUME Types, NEW c \in Conns, NEW k \in 1..Need, SendSome(c, k)
  PROVE  Types'
<1>1. request[c] \in Requests /\ "face" \in PR!TrainingTypes /\ k \in Nat
  BY TrainingConstants DEF SendSome, Sending, Types, PhoneTypes, PR!TrainingTypes
<1>2. Batch(c, k) \in Requests
  BY <1>1 DEF Batch, PR!Added, Requests
<1>3. request' \in [Conns -> Requests \cup {None}]
  BY <1>2 DEF SendSome, Types, PhoneTypes
<1>4. QED
  BY <1>3 DEF SendSome, Types, KeyTypes, PhoneTypes, PluginTypes, RestTypes, keyVars, pluginVars,
              redisVars, envVars

\* The code a run is given.
LEMMA CodeTyped ==
  ASSUME Types, NEW c \in Conns, bound[c] \in AllCodes
  PROVE  CodeOf(c) \in AllCodes
BY MergedTyped DEF CodeOf, Values, States

LEMMA SubmitTypes ==
  ASSUME Types, NEW c \in Conns, NEW k \in 1..Need, NEW r \in Runs, Submit(c, k, r)
  PROVE  Types'
<1>1. bound[c] \in AllCodes /\ CodeOf(c) \in AllCodes
  BY CodeTyped DEF Submit, Types, PhoneTypes
<1>2. job' \in [Runs -> JobSet]
  <2>1. [NoJob EXCEPT !.conn = c, !.of = bound[c], !.code = CodeOf(c)] \in JobSet
    <3>1. c \in 0..MaxConns
      BY TrainingConstants DEF Conns
    <3>2. QED
      BY <1>1, <3>1, NoJobTyped DEF JobSet
  <2>2. QED
    BY <2>1 DEF Submit, Types
<1>3. KeyTypes'
  BY StoredTyped, NoticeTyped DEF Submit, KeyTypes, Types, States
<1>4. PhoneTypes'
  BY DEF Submit, PhoneTypes, Types, States
<1>5. PluginTypes'
  <2>1. r # 0 /\ plugin' = r /\ r \in 0..MaxRuns
    BY TrainingConstants DEF Submit, Runs
  <2>2. asking' \in Runs \X BOOLEAN /\ asking'[1] = r
    BY DEF Submit, Queued
  <2>3. job'[r].at = "none"
    BY DEF Submit, NoJob, Types
  <2>4. \A s \in Runs \ {r} : job'[s] = job[s]
    BY DEF Submit, Types
  <2>5. news' = news /\ answered' = answered /\ r \notin news /\ job'[r].conn = c
    BY DEF Submit, Unused, Types, PluginTypes
  <2>6. QED
    BY <2>1, <2>2, <2>3, <2>4, <2>5 DEF PluginTypes, Types
<1>6. RestTypes'
  BY DEF Submit, redisVars, RestTypes, Types, Busy
<1>7. QED
  BY <1>2, <1>3, <1>4, <1>5, <1>6 DEF Types

LEMMA EnqueueTypes ==
  ASSUME Types, Enqueue
  PROVE  Types'
<1>1. asking \in Runs \X BOOLEAN /\ asking[1] \in Runs
  BY DEF Enqueue, Types, PluginTypes
<1>2. job' \in [Runs -> JobSet]
  BY <1>1 DEF Enqueue, Types, JobSet, Stages
<1>3. KeyTypes' /\ PhoneTypes' /\ PluginTypes'
  BY <1>1 DEF Enqueue, keyVars, phoneVars, KeyTypes, PhoneTypes, PluginTypes, Types
<1>4. RestTypes'
  BY TrainingConstants DEF Enqueue, Counter, envVars, RestTypes, Types
<1>5. QED
  BY <1>2, <1>3, <1>4 DEF Types

LEMMA ExpireTypes ==
  ASSUME Types, NEW k \in AllCodes, Lost(k) \/ Expire(k)
  PROVE  Types'
<1>1. KeyTypes'
  BY NoticeTyped DEF Lost, Expire, KeyTypes, Types
<1>2. PhoneTypes' /\ PluginTypes' /\ UNCHANGED job
  BY DEF Lost, Expire, phoneVars, pluginVars, PhoneTypes, PluginTypes, Types
<1>3. RestTypes'
  BY SpareTyped DEF Lost, Expire, redisVars, envVars, RestTypes, Types
<1>4. QED
  BY <1>1, <1>2, <1>3 DEF Types

LEMMA HandleTypes ==
  ASSUME Types, NEW r \in Runs, Handle(r)
  PROVE  Types'
<1> DEFINE w == plugin
<1>1. w \in Runs /\ job[w] \in JobSet /\ job[w].conn \in Conns
  BY TrainingConstants DEF Handle, Types, PluginTypes, Runs
<1>2. UNCHANGED <<sub, sock, engine, request, asking, plugin, redisVars, job, told, envVars>>
  BY DEF Handle
<1>3. PluginTypes' /\ RestTypes'
  BY <1>1, <1>2 DEF Handle, PluginTypes, RestTypes, Types, redisVars, envVars
<1>4. KeyTypes' /\ PhoneTypes'
  <2>1. CASE UNCHANGED <<key, inbox, fsm, bound>>
    BY <1>2, <2>1 DEF KeyTypes, PhoneTypes, Types
  <2>2. CASE Retrained(w)
    <3>1. job[w].code \in AllCodes /\ Wanted(job[w].code) \in Values
      BY <1>1 DEF JobSet, Wanted, Values, States
    <3>2. QED
      BY <1>2, <2>2, <3>1, NoticeTyped DEF Retrained, KeyTypes, PhoneTypes, Types
  <2>3. ASSUME NEW c \in Conns, c = job[w].conn, fsm[c] = "inprogress", Trained(w)
        PROVE  KeyTypes' /\ PhoneTypes'
    <3>1. BoundKeys(c) \subseteq AllCodes
      BY DEF BoundKeys, Types, PhoneTypes
    <3>2. KeyTypes'
      BY <1>2, <2>3, <3>1, NoticeTyped DEF Trained, KeyTypes, Types
    <3>3. PhoneTypes'
      BY <1>2, <2>3 DEF Trained, PhoneTypes, Types, States
    <3>4. QED
      BY <3>2, <3>3
  <2>4. QED
    BY <1>1, <2>1, <2>2, <2>3 DEF Handle, Trained
<1>5. QED
  BY <1>2, <1>3, <1>4 DEF Types

-----------------------------------------------------------------------------
(* The steps of a job leave the server, the phone and the keys alone.          *)

\* What a run is about stays as it was.
Same(s) == job'[s].conn = job[s].conn /\ job'[s].of = job[s].of /\ job'[s].code = job[s].code
Quiet == UNCHANGED <<phoneVars, keyVars, asking, plugin, answered, started, expiries, pipeline>>

LEMMA GoesTyped ==
  ASSUME Types, NEW r \in Runs, NEW s \in Stages, Goes(r, s)
  PROVE  job' \in [Runs -> JobSet] /\ job'[r] = [job[r] EXCEPT !.at = s]
BY DEF Types, Goes, JobSet

LEMMA BeginStage == Begin \in {"assess", "pack"}
BY DEF Begin

LEMMA JobMoves ==
  ASSUME Types, NEW r \in Runs, JobStep(r)
  PROVE  /\ job' \in [Runs -> JobSet] /\ \A s \in Runs \ {r} : job'[s] = job[s]
         /\ Same(r) /\ job'[r].at # "none" /\ job[r].at \notin {"none", "done", "lost"}
<1>type. job \in [Runs -> JobSet] /\ job[r] \in JobSet
  BY DEF Types
<1>1. ASSUME NEW s \in Stages \ {"none"}, Goes(r, s)
      PROVE  /\ job' \in [Runs -> JobSet] /\ \A t \in Runs \ {r} : job'[t] = job[t]
             /\ Same(r) /\ job'[r].at # "none"
  <2>1. job'[r] = [job[r] EXCEPT !.at = s] /\ job' \in [Runs -> JobSet]
    BY <1>1, GoesTyped
  <2>2. \A t \in Runs \ {r} : job'[t] = job[t]
    BY <1>1, <1>type DEF Goes
  <2>3. QED
    BY <1>type, <2>1, <2>2 DEF Same, JobSet
<1>2. ASSUME NEW j \in JobSet, job' = [job EXCEPT ![r] = j], j.at # "none",
             j.conn = job[r].conn, j.of = job[r].of, j.code = job[r].code
      PROVE  /\ job' \in [Runs -> JobSet] /\ \A t \in Runs \ {r} : job'[t] = job[t]
             /\ Same(r) /\ job'[r].at # "none"
  BY <1>2, <1>type DEF Same
<1>at. job[r].at \notin {"none", "done", "lost"}
  BY BeginStage DEF JobStep, Greet, Tell, Mark, Load, Pack, PackFailed, PackRefused, Handover,
     Processed, Assess, Count, Remark, Forget, Publish, Break, Fragile, At
<1>stage. ASSUME NEW s \in {"mark", "load", "assess", "pack", "lost", "handover", "pipeline",
                            "publish", "tell"}
          PROVE  s \in Stages \ {"none"}
  BY DEF Stages
<1>3. CASE \E h \in BOOLEAN : Greet(r, h)
  BY <1>1, <1>3, <1>stage, <1>at DEF Greet
<1>4. CASE Mark(r) \/ Load(r) \/ Pack(r) \/ Break(r)
  BY <1>1, <1>4, <1>stage, <1>at, BeginStage DEF Mark, Load, Pack, Break
<1>5. CASE Handover(r) \/ Processed(r) \/ Remark(r) \/ Forget(r) \/ Publish(r)
  BY <1>1, <1>5, <1>stage, <1>at DEF Handover, Processed, Remark, Forget, Publish
<1>6. CASE \E h \in BOOLEAN : Tell(r, h)
  <2> DEFINE j == [job[r] EXCEPT !.at = "done", !.status = "none"]
  <2>1. j \in JobSet /\ j.at # "none"
        /\ j.conn = job[r].conn /\ j.of = job[r].of /\ j.code = job[r].code
    BY <1>type DEF JobSet, Stages, Statuses
  <2>2. job' = [job EXCEPT ![r] = j]
    BY <1>6, <1>type DEF Tell
  <2> HIDE DEF j
  <2>3. QED
    BY <1>2, <1>at, <2>1, <2>2
<1>7. CASE PackFailed(r)
  <2> DEFINE j == [job[r] EXCEPT !.at = "count", !.error = "images", !.says = "no",
                                 !.status = "success"]
  <2>1. j \in JobSet /\ j.at # "none"
        /\ j.conn = job[r].conn /\ j.of = job[r].of /\ j.code = job[r].code
    BY <1>type DEF JobSet, Stages, Statuses, Errors, Answers
  <2>2. job' = [job EXCEPT ![r] = j]
    BY <1>7, <1>type DEF PackFailed
  <2> HIDE DEF j
  <2>3. QED
    BY <1>2, <1>at, <2>1, <2>2
<1>8. CASE PackRefused(r)
  <2> DEFINE j == [job[r] EXCEPT !.at = "forget", !.says = "unread", !.status = "success"]
  <2>1. j \in JobSet /\ j.at # "none"
        /\ j.conn = job[r].conn /\ j.of = job[r].of /\ j.code = job[r].code
    BY <1>type DEF JobSet, Stages, Statuses, Answers
  <2>2. job' = [job EXCEPT ![r] = j]
    BY <1>8, <1>type DEF PackRefused
  <2> HIDE DEF j
  <2>3. QED
    BY <1>2, <1>at, <2>1, <2>2
<1>9. ASSUME NEW o \in PhotoOutcomes, Assess(r, o)
      PROVE  /\ job' \in [Runs -> JobSet] /\ \A t \in Runs \ {r} : job'[t] = job[t]
             /\ Same(r) /\ job'[r].at # "none"
  <2> DEFINE a == IF MoreSamples(o) THEN "count" ELSE "forget"
             y == IF Templates(o) THEN "yes" ELSE "no"
             e == IF MoreSamples(o) THEN "samples" ELSE "none"
             j == [job[r] EXCEPT !.at = a, !.says = y, !.error = e, !.status = StatusOf(o)]
  <2>1. a \in Stages \ {"none"} /\ y \in Answers /\ e \in Errors /\ StatusOf(o) \in Statuses
    BY DEF Stages, Answers, Errors, StatusOf, Statuses
  <2>2. job' = [job EXCEPT ![r] = j]
    BY <1>9, <1>type DEF Assess
  <2> HIDE DEF a, y, e
  <2>3. j \in JobSet /\ j.at # "none"
        /\ j.conn = job[r].conn /\ j.of = job[r].of /\ j.code = job[r].code
    BY <1>type, <2>1 DEF JobSet
  <2> HIDE DEF j
  <2>4. QED
    BY <1>2, <2>2, <2>3
<1>10. CASE Count(r)
  <2> DEFINE n == Decremented(tries)
             a == IF Last(n) THEN "forget" ELSE "remark"
             y == IF Last(n) \/ job[r].error = "images" THEN "no" ELSE "retry"
             s == IF Last(n) THEN "failed" ELSE job[r].status
             j == [job[r] EXCEPT !.at = a, !.says = y, !.error = "none", !.status = s]
  <2>1. /\ a \in Stages \ {"none"} /\ y \in Answers /\ s \in Statuses /\ "none" \in Errors
    BY <1>type DEF Stages, Answers, Errors, Statuses, JobSet
  <2>2. job' = [job EXCEPT ![r] = j]
    BY <1>10, <1>type DEF Count
  <2> HIDE DEF a, y, s
  <2>3. j \in JobSet /\ j.at # "none"
        /\ j.conn = job[r].conn /\ j.of = job[r].of /\ j.code = job[r].code
    BY <1>type, <2>1 DEF JobSet
  <2> HIDE DEF j
  <2>4. QED
    BY <1>2, <1>at, <2>2, <2>3
<1>11. QED
  BY <1>3, <1>4, <1>5, <1>6, <1>7, <1>8, <1>9, <1>10, <1>at DEF JobStep

LEMMA JobQuiet ==
  ASSUME NEW r \in Runs, JobStep(r)
  PROVE  Quiet /\ UNCHANGED overlap /\ news' \in {news, news \cup {r}}
BY DEF JobStep, Quiet, Only, pluginVars, keyVars, phoneVars, envVars, Greet, Tell, Mark, Load, Pack,
       PackFailed, PackRefused, Handover, Processed, Assess, Count, Remark, Forget, Publish, Break

LEMMA HeardTyped ==
  ASSUME Types, NEW h \in BOOLEAN, Heard(h)
  PROVE  faults' \in 0..MaxTroubles
BY SpareTyped DEF Heard, Types, RestTypes

LEMMA PostedTyped ==
  ASSUME Types, NEW k \in AllCodes, NEW s \in Statuses, NEW h \in BOOLEAN, Posted(k, s, h)
  PROVE  told' \in [AllCodes -> Statuses] /\ canceled' = canceled
BY DEF Posted, Types, RestTypes

LEMMA JobRest ==
  ASSUME Types, NEW r \in Runs, JobStep(r)
  PROVE  RestTypes'
<1>type. job[r] \in JobSet
  BY DEF Types
<1>quiet. UNCHANGED <<pipeline, started, expiries, overlap>>
  BY JobQuiet DEF Quiet
<1>1. ASSUME UNCHANGED <<redisVars, canceled>>, faults' \in 0..MaxTroubles,
             told' \in [AllCodes -> Statuses]
      PROVE  RestTypes'
  BY <1>1, <1>quiet DEF redisVars, RestTypes, Types
<1>2. ASSUME NEW h \in BOOLEAN, Greet(r, h) PROVE RestTypes'
  <2>1. job[r].code \in AllCodes /\ "in-progress" \in Statuses
    BY <1>type DEF JobSet, Statuses
  <2>2. QED
    BY <1>1, <1>2, <2>1, HeardTyped, PostedTyped DEF Greet, Only
<1>3. ASSUME NEW h \in BOOLEAN, Tell(r, h) PROVE RestTypes'
  <2>1. job[r].code \in AllCodes /\ job[r].status \in Statuses
    BY <1>type DEF JobSet
  <2>2. QED
    BY <1>1, <1>3, <2>1, HeardTyped, PostedTyped DEF Tell, Only
<1>4. CASE Load(r) \/ Remark(r) \/ Forget(r)
  <2>1. UNCHANGED <<told, canceled, faults>>
    BY <1>4 DEF Load, Remark, Forget, Only
  <2>2. mark' \in BOOLEAN /\ tries' \in {None, tries} /\ row' \in {0, row}
    BY <1>4 DEF Load, Remark, Forget, Only, RestTypes, Types
  <2>3. QED
    BY <1>quiet, <2>1, <2>2 DEF RestTypes, Types
<1>5. CASE Count(r)
  <2>1. tries' \in Int \cup {None} /\ row' \in Nat
    BY <1>5 DEF Count, Decremented, RestTypes, Types
  <2>2. QED
    BY <1>quiet, <1>5, <2>1 DEF Count, Only, RestTypes, Types
<1>6. CASE PackFailed(r) \/ PackRefused(r) \/ Break(r)
  BY <1>quiet, <1>6, SpareTyped DEF PackFailed, PackRefused, Break, Only, redisVars, RestTypes, Types
<1>7. CASE \/ Mark(r) \/ Pack(r) \/ Handover(r) \/ Processed(r) \/ Publish(r)
           \/ \E o \in PhotoOutcomes : Assess(r, o)
  BY <1>quiet, <1>7 DEF Mark, Pack, Handover, Processed, Publish, Assess, Only, redisVars,
                        RestTypes, Types, envVars
<1>8. QED
  BY <1>2, <1>3, <1>4, <1>5, <1>6, <1>7 DEF JobStep

LEMMA JobStepTypes ==
  ASSUME Types, NEW r \in Runs, JobStep(r)
  PROVE  Types'
<1>1. KeyTypes' /\ PhoneTypes'
  BY JobQuiet DEF Quiet, keyVars, phoneVars, KeyTypes, PhoneTypes, Types
<1>2. PluginTypes'
  <2>1. /\ UNCHANGED <<asking, plugin, answered>> /\ news' \in {news, news \cup {r}}
        /\ plugin \in 0..MaxRuns /\ (plugin # 0 => plugin \in Runs)
    BY JobQuiet, TrainingConstants DEF Quiet, Types, PluginTypes, Runs
  <2>2. /\ \A s \in Runs : job'[s].conn = job[s].conn /\ (job'[s].at = "none" <=> job[s].at = "none")
        /\ job[r].at # "none"
    BY JobMoves DEF Same
  <2>3. asking # None => asking[1] \in Runs
    BY DEF Types, PluginTypes
  <2>4. QED
    BY <2>1, <2>2, <2>3 DEF Types, PluginTypes
<1>3. QED
  BY <1>1, <1>2, JobMoves, JobRest DEF Types

LEMMA RestartMoves ==
  ASSUME Types, Restart
  PROVE  /\ job' \in [Runs -> JobSet] /\ Quiet /\ UNCHANGED news
         /\ \A s \in Runs : /\ Same(s) /\ job'[s].says = job[s].says /\ job'[s].status = job[s].status
                            /\ job'[s].at = IF job[s].at \in {"none", "handover", "done"}
                                            THEN job[s].at ELSE "lost"
BY DEF Restart, Types, JobSet, Stages, Same, Quiet, pluginVars

LEMMA RestartTypes ==
  ASSUME Types, Restart
  PROVE  Types'
<1>1. KeyTypes' /\ PhoneTypes'
  BY DEF Restart, keyVars, phoneVars, KeyTypes, PhoneTypes, Types
<1>2. PluginTypes'
  <2>1. UNCHANGED <<asking, plugin, news, answered>>
    BY DEF Restart, pluginVars
  <2>2. \A s \in Runs : job'[s].conn = job[s].conn /\ (job'[s].at = "none" <=> job[s].at = "none")
    BY RestartMoves DEF Same
  <2>3. (plugin # 0 => plugin \in Runs) /\ (asking # None => asking[1] \in Runs)
    BY TrainingConstants DEF Types, PluginTypes, Runs
  <2>4. QED
    BY <2>1, <2>2, <2>3 DEF Types, PluginTypes
<1>3. RestTypes'
  BY SpareTyped DEF Restart, redisVars, RestTypes, Types
<1>4. QED
  BY <1>1, <1>2, <1>3, RestartMoves DEF Types

LEMMA ConnStepTypes ==
  ASSUME Types, NEW c \in Conns, ConnStep(c)
  PROVE  Types'
<1>1. CASE Drop(c) \/ Close(c) \/ \E n \in 1..Need : SendRefused(c, n)
  BY <1>1, ClosedTyped DEF Close, SendRefused
<1>2. QED
  BY <1>1, ConnectTypes, NewsTypes, CancelTypes, SendSomeTypes, SubmitTypes DEF ConnStep

LEMMA NextTypes ==
  ASSUME Types, [Next]_vars
  PROVE  Types'
<1>1. CASE UNCHANGED vars
  BY <1>1 DEF vars, keyVars, phoneVars, pluginVars, redisVars, envVars, Types, KeyTypes, PhoneTypes,
              PluginTypes, RestTypes
<1>2. CASE Next
  BY <1>2, StartTypes, ExpireTypes, ConnStepTypes, EnqueueTypes, JobStepTypes, HandleTypes,
     RestartTypes DEF Next
<1>3. QED
  BY <1>1, <1>2

THEOREM Typed == Spec => []Types
<1>1. Types /\ [Next]_vars => Types'
  BY NextTypes
<1>2. QED
  BY <1>1, InitTypes, PTL DEF Spec

\* Type correctness, whatever the numbers of codes, websockets, jobs and faults.
THEOREM TrainingTyped == Spec => []TrainingTypeOK
<1>1. Types => TrainingTypeOK
  BY DEF Types, KeyTypes, PhoneTypes, PluginTypes, RestTypes, JobSet, TrainingTypeOK
<1>2. QED
  BY <1>1, Typed, PTL

-----------------------------------------------------------------------------
(* A try is out.                                                               *)

Trying(c) ==
  /\ engine[c] = "trying" => request[c] # None
  /\ fsm[c] = "training" => engine[c] = "trying"
AllTrying == \A c \in Conns : Trying(c)

LEMMA EnteredTrying ==
  ASSUME Types, AllTrying, NEW c \in Conns, NEW s \in States, Entered(c, s)
  PROVE  AllTrying'
<1> DEFINE q == PR!Asked([t \in PR!TrainingTypes |-> Need])
<1>1. q # None
  BY AskedTyped, NoneIsNothingElse
<1>2. \A d \in Conns \ {c} : UNCHANGED <<fsm[d], engine[d], request[d]>>
  BY DEF Entered, Types, PhoneTypes
<1>3. Trying(c)'
  <2>1. CASE s = "training" /\ fsm[c] # s /\ engine[c] = "ready"
    <3>1. fsm'[c] = s /\ engine'[c] = "trying" /\ request'[c] = q
      BY <2>1 DEF Entered, Types, PhoneTypes
    <3>2. QED
      BY <1>1, <3>1 DEF Trying
  <2>2. CASE ~(s = "training" /\ fsm[c] # s /\ engine[c] = "ready")
    <3>1. fsm'[c] = s /\ engine' = engine /\ request' = request
      BY <2>2 DEF Entered, Types, PhoneTypes
    <3>2. engine[c] \in {"ready", "trying"}
      BY DEF Types, PhoneTypes
    <3>3. QED
      BY <2>2, <3>1, <3>2 DEF AllTrying, Trying
  <2>3. QED
    BY <2>1, <2>2
<1>4. QED
  BY <1>2, <1>3 DEF AllTrying, Trying

LEMMA NextTrying ==
  ASSUME Types, AllTrying, [Next]_vars
  PROVE  AllTrying'
<1>same. ASSUME UNCHANGED <<engine, request>>,
                \A c \in Conns : fsm'[c] = "training" => fsm[c] = "training"
         PROVE  AllTrying'
  BY <1>same DEF AllTrying, Trying
<1>1. CASE UNCHANGED vars
  BY <1>1, <1>same DEF vars, phoneVars
<1>2. ASSUME NEW k \in Codes, Start(k) PROVE AllTrying'
  BY <1>2, <1>same DEF Start, phoneVars
<1>3. ASSUME NEW k \in AllCodes, Lost(k) \/ Expire(k) PROVE AllTrying'
  BY <1>3, <1>same DEF Lost, Expire, phoneVars
<1>4. ASSUME NEW c \in Conns, ConnStep(c) PROVE AllTrying'
  <2>1. ASSUME NEW k \in AllCodes \cup {None}, Connect(c, k) PROVE AllTrying'
    <3>1. (IF k = None THEN "ready" ELSE key[k].state) \in States
      <4>1. k # None => k \in AllCodes /\ key[k] # None
        BY <2>1 DEF Connect
      <4>2. QED
        BY <4>1 DEF Types, KeyTypes, Values, States
    <3>2. QED
      BY <2>1, <3>1, EnteredTrying DEF Connect
  <2>2. ASSUME NEW k \in AllCodes, News(c, k) PROVE AllTrying'
    <3> DEFINE b == IF bound[c] # k /\ key[k] # None THEN k ELSE bound[c]
    <3>1. CASE UNCHANGED <<fsm, engine, request>>
      BY <3>1, <1>same
    <3>2. CASE b # None /\ key[b] # None /\ Entered(c, key[b].state)
      <4>1. b \in AllCodes
        BY <3>2 DEF Types, PhoneTypes
      <4>2. key[b].state \in States
        BY <3>2, <4>1 DEF Types, KeyTypes, Values
      <4>3. QED
        BY <3>2, <4>2, EnteredTrying
    <3>3. QED
      BY <2>2, <3>1, <3>2 DEF News
  <2>leave. ASSUME Abandon(c) \/ UNCHANGED fsm
            PROVE  \A d \in Conns : fsm'[d] = fsm[d] \/ (d = c /\ fsm'[d] = "canceled")
    BY <2>leave DEF Abandon, Types, PhoneTypes
  <2>3. CASE Cancel(c)
    <3>1. /\ \A d \in Conns \ {c} : UNCHANGED <<engine[d], request[d], fsm[d]>>
          /\ engine'[c] = "ready"
      BY <2>3, <2>leave DEF Cancel, Types, PhoneTypes
    <3>2. fsm'[c] # "training"
      <4>1. CASE fsm[c] = "training"
        BY <2>3, <4>1 DEF Cancel, Abandon, Types, PhoneTypes
      <4>2. CASE fsm[c] # "training"
        BY <2>3, <4>2 DEF Cancel
      <4>3. QED
        BY <4>1, <4>2
    <3>3. QED
      BY <3>1, <3>2 DEF AllTrying, Trying
  <2>4. CASE Drop(c) \/ Closed(c)
    <3>1. Abandon(c) \/ UNCHANGED fsm
      BY <2>4 DEF Drop, Closed, Leave
    <3>2. UNCHANGED <<engine, request>>
      BY <2>4 DEF Drop, Closed
    <3>3. QED
      BY <1>same, <2>leave, <3>1, <3>2
  <2>5. ASSUME NEW k \in 1..Need, SendSome(c, k) PROVE AllTrying'
    <3>1. request' = [request EXCEPT ![c] = Batch(c, k)] /\ UNCHANGED <<fsm, engine>>
      BY <2>5 DEF SendSome
    <3>2. Batch(c, k) # None
      <4>1. request[c] \in Requests /\ "face" \in PR!TrainingTypes /\ k \in Nat
        BY <2>5, TrainingConstants DEF SendSome, Sending, Types, PhoneTypes, PR!TrainingTypes
      <4>2. Batch(c, k) \in Requests
        BY <4>1 DEF Batch, PR!Added, Requests
      <4>3. QED
        BY <4>2, NoneIsNothingElse
    <3>3. QED
      BY <3>1, <3>2 DEF AllTrying, Trying, Types, PhoneTypes
  <2>6. ASSUME NEW k \in 1..Need, NEW r \in Runs, Submit(c, k, r) PROVE AllTrying'
    <3>1. /\ \A d \in Conns \ {c} : UNCHANGED <<engine[d], request[d], fsm[d]>>
          /\ engine'[c] = "ready" /\ fsm'[c] = "inprogress"
      BY <2>6 DEF Submit, Types, PhoneTypes
    <3>2. QED
      BY <3>1 DEF AllTrying, Trying
  <2>7. QED
    BY <1>4, <2>1, <2>2, <2>3, <2>4, <2>5, <2>6 DEF ConnStep, Close, SendRefused
<1>5. CASE Enqueue
  BY <1>5, <1>same DEF Enqueue, phoneVars
<1>6. ASSUME NEW r \in Runs, Handle(r) PROVE AllTrying'
  <2>1. UNCHANGED <<engine, request>>
    BY <1>6 DEF Handle
  <2>2. \A d \in Conns : fsm'[d] = "training" => fsm[d] = "training"
    BY <1>6 DEF Handle, Retrained, Trained, Types, PhoneTypes
  <2>3. QED
    BY <1>same, <2>1, <2>2
<1>7. ASSUME NEW r \in Runs, JobStep(r) PROVE AllTrying'
  BY <1>7, <1>same, JobQuiet DEF Quiet, phoneVars
<1>8. CASE Restart
  BY <1>8, <1>same DEF Restart, phoneVars
<1>9. QED
  BY <1>1, <1>2, <1>3, <1>4, <1>5, <1>6, <1>7, <1>8 DEF Next

\* A machine that waits for samples has a try out at its phone, however many
\* requests, reconnects and results have moved it.
THEOREM TriesAreOut == Spec => []TryIsOut
<1>1. Types /\ AllTrying /\ [Next]_vars => AllTrying'
  BY NextTrying
<1>2. AllTrying => TryIsOut
  BY DEF AllTrying, Trying, TryIsOut
<1>3. Init => AllTrying
  BY DEF Init, AllTrying, Trying
<1>4. QED
  BY <1>1, <1>2, <1>3, Typed, PTL DEF Spec

-----------------------------------------------------------------------------
(* The attempts: while no two runs of the phone overlap, the counter and the   *)
(* answers that asked for more add up to all attempts, and the counter is zero *)
(* only until the job that found it so has deleted it.                         *)

Engaged(r) ==
  \/ job[r].at \notin {"none", "done", "lost"} \/ r \in news
  \/ asking # None /\ asking[1] = r
\* Stages of a job that may still use up an attempt.
Early == {"greet", "mark", "load", "pack", "handover", "pipeline", "assess", "count"}
AddedUp ==
  /\ tries = None => row = 0
  /\ tries # None => \/ tries \in 1..MaxAttempts /\ tries + row = MaxAttempts
                     \/ /\ tries = 0 /\ row < MaxAttempts
                        /\ \E r \in Runs : job[r].at = "forget"
Attempted ==
  /\ \A r, s \in Runs : Engaged(r) /\ Engaged(s) => r = s
  /\ AddedUp
  /\ asking # None => (asking[2] <=> tries = None)
  /\ \A r \in Runs : job[r].at \in Early => tries # None
AttemptInv == ~overlap => Attempted

LEMMA AttemptsSame ==
  ASSUME AttemptInv, UNCHANGED <<overlap, tries, row, asking>>, news' \subseteq news,
         \A r \in Runs : job'[r].at = job[r].at
  PROVE  AttemptInv'
<1>1. \A r \in Runs : Engaged(r)' => Engaged(r)
  BY DEF Engaged
<1>2. QED
  BY <1>1 DEF AttemptInv, Attempted, AddedUp

\* Nobody is engaged when the server's thread is free and no run is busy.
LEMMA NotBusy ==
  ASSUME Types, Free, ~Busy
  PROVE  \A r \in Runs : ~Engaged(r)
<1>1. ASSUME NEW r \in Runs, r \in news PROVE r \notin Unused
  BY <1>1 DEF Types, PluginTypes, Unused, Busy, Over
<1>2. QED
  BY <1>1 DEF Engaged, Free, Busy, Unused, Over

LEMMA JobStepAttempts ==
  ASSUME Types, AttemptInv, NEW r \in Runs, JobStep(r)
  PROVE  AttemptInv'
<1> SUFFICES ASSUME ~overlap' PROVE Attempted'
  BY DEF AttemptInv
<1>type. /\ tries \in Int \cup {None} /\ row \in Nat /\ MaxAttempts \in Nat \ {0}
         /\ job[r] \in JobSet
  BY TrainingConstants DEF Types, RestTypes
<1>held. Attempted
  BY JobQuiet DEF AttemptInv
<1>moves. /\ \A s \in Runs \ {r} : job'[s] = job[s]
          /\ job'[r].at # "none" /\ job[r].at \notin {"none", "done", "lost"}
          /\ UNCHANGED asking /\ news' \in {news, news \cup {r}}
  BY JobMoves, JobQuiet DEF Quiet
<1>alone. asking = None /\ \A s \in Runs \ {r} : ~Engaged(s) /\ ~Engaged(s)'
  <2>1. Engaged(r)
    BY <1>moves DEF Engaged
  <2>2. \A s \in Runs \ {r} : ~Engaged(s)
    BY <1>held, <2>1 DEF Attempted
  <2>3. asking = None
    <3>1. ASSUME asking # None PROVE FALSE
      <4>1. asking[1] \in Runs /\ job[asking[1]].at = "none"
        BY <3>1 DEF Types, PluginTypes
      <4>2. Engaged(asking[1])
        BY <3>1, <4>1 DEF Engaged
      <4>3. asking[1] = r
        BY <2>1, <4>1, <4>2, <1>held DEF Attempted
      <4>4. QED
        BY <1>moves, <4>1, <4>3
    <3>2. QED
      BY <3>1
  <2>4. \A s \in Runs \ {r} : ~Engaged(s)'
    BY <1>moves, <2>2, <2>3 DEF Engaged
  <2>5. QED
    BY <2>2, <2>3, <2>4
\* The counter is zero only when the run is to delete it.
<1>zero. tries # None /\ job[r].at # "forget" => tries \in 1..MaxAttempts /\ tries + row = MaxAttempts
  <2>1. ASSUME NEW s \in Runs, job[s].at = "forget" PROVE s = r
    <3>1. Engaged(s)
      BY <2>1 DEF Engaged
    <3>2. QED
      BY <1>alone, <3>1
  <2>2. QED
    BY <1>held, <2>1 DEF Attempted, AddedUp
<1>show. ASSUME AddedUp', job'[r].at \in Early => tries' # None PROVE Attempted'
  <2>1. \A s \in Runs \ {r} : job'[s].at \notin Early
    <3>1. \A s \in Runs \ {r} : job[s].at \in {"none", "done", "lost"}
      BY <1>alone DEF Engaged
    <3>2. QED
      BY <1>moves, <3>1 DEF Early
  <2>2. \A s, t \in Runs : Engaged(s)' /\ Engaged(t)' => s = t
    BY <1>alone
  <2>3. QED
    BY <1>alone, <1>moves, <1>show, <2>1, <2>2 DEF Attempted
<1>kept. ASSUME UNCHANGED <<tries, row>>, job[r].at # "forget",
                job'[r].at \in Early => job[r].at \in Early
         PROVE  Attempted'
  <2>1. AddedUp'
    BY <1>held, <1>kept, <1>zero DEF Attempted, AddedUp
  <2>2. job'[r].at \in Early => tries' # None
    BY <1>held, <1>kept DEF Attempted
  <2>3. QED
    BY <1>show, <2>1, <2>2
<1>goes. ASSUME NEW s \in Stages, Goes(r, s) PROVE job'[r].at = s
  <2>1. job'[r] = [job[r] EXCEPT !.at = s]
    BY <1>goes, GoesTyped
  <2>2. QED
    BY <1>type, <2>1 DEF JobSet
<1>stage. /\ \A s \in {"mark", "load", "assess", "pack", "lost", "handover", "pipeline",
                       "publish", "tell"} : s \in Stages
          /\ \A s \in {"greet", "mark", "load", "assess", "pack", "handover", "pipeline", "count"} :
               s \in Early
          /\ \A s \in {"lost", "publish", "tell", "done", "forget"} : s \notin Early
  BY DEF Stages, Early
<1>1. CASE \E h \in BOOLEAN : Greet(r, h)
  BY <1>1, <1>kept, <1>stage DEF Greet, At, Only, redisVars
<1>2. CASE Mark(r) \/ Pack(r) \/ Handover(r) \/ Processed(r)
  BY <1>2, <1>kept, <1>stage DEF Mark, Pack, Handover, Processed, At, Only, redisVars
<1>3. CASE Load(r)
  BY <1>3, <1>kept, <1>stage DEF Load, At, Only
<1>4. CASE PackFailed(r) \/ PackRefused(r) \/ \E o \in PhotoOutcomes : Assess(r, o)
  BY <1>4, <1>kept, <1>stage DEF PackFailed, PackRefused, Assess, At, Only, redisVars
<1>5. CASE Break(r)
  <2>1. job[r].at \in Early
    BY <1>5, <1>stage, BeginStage DEF Break, Fragile, At
  <2>2. QED
    BY <1>5, <1>kept, <1>stage, <2>1 DEF Break, Only, redisVars
<1>6. CASE Remark(r) \/ Publish(r)
  <2>1. UNCHANGED <<tries, row>> /\ job[r].at \in {"remark", "publish"}
    BY <1>6 DEF Remark, Publish, At, Only, redisVars
  <2>2. job'[r].at \in {"publish", "tell"}
    BY <1>6, <1>goes, <1>stage DEF Remark, Publish
  <2>3. QED
    BY <1>kept, <1>stage, <2>1, <2>2
<1>7. CASE \E h \in BOOLEAN : Tell(r, h)
  <2>1. UNCHANGED <<tries, row>> /\ job[r].at = "tell" /\ job'[r].at = "done"
    BY <1>7, <1>type DEF Tell, At, Only, redisVars, JobSet, Types
  <2>2. QED
    BY <1>kept, <1>stage, <2>1
<1>8. CASE Forget(r)
  <2>1. tries' = None /\ row' = 0 /\ job'[r].at = "publish"
    BY <1>8, <1>goes, <1>stage DEF Forget
  <2>2. QED
    BY <1>show, <1>stage, <2>1 DEF AddedUp
<1>9. CASE Count(r)
  <2>1. job[r].at = "count" /\ tries # None
    BY <1>9, <1>held, <1>stage DEF Count, At, Attempted
  <2>2. /\ tries' = tries - 1 /\ row' = (IF tries - 1 = 0 THEN row ELSE row + 1)
        /\ job'[r].at = (IF tries - 1 = 0 THEN "forget" ELSE "remark")
    BY <1>9, <1>type, <2>1 DEF Count, Decremented, Last, JobSet, Types
  <2>3. tries \in 1..MaxAttempts /\ tries + row = MaxAttempts
    BY <1>zero, <2>1
  <2>4. AddedUp'
    <3>1. tries' # None
      BY <2>2, <2>3, TrainingConstants
    <3>2. CASE tries = 1
      BY <1>type, <2>2, <2>3, <3>1, <3>2 DEF AddedUp
    <3>3. CASE tries # 1
      <4>1. tries' \in 1..MaxAttempts /\ tries' + row' = MaxAttempts
        BY <1>type, <2>2, <2>3, <3>3
      <4>2. QED
        BY <3>1, <4>1 DEF AddedUp
    <3>4. QED
      BY <3>2, <3>3
  <2>5. job'[r].at \notin Early
    BY <2>2 DEF Early
  <2>6. QED
    BY <1>show, <2>4, <2>5
<1>10. QED
  BY <1>1, <1>2, <1>3, <1>4, <1>5, <1>6, <1>7, <1>8, <1>9 DEF JobStep

LEMMA SubmitAttempts ==
  ASSUME Types, AttemptInv, NEW c \in Conns, NEW k \in 1..Need, NEW r \in Runs, Submit(c, k, r)
  PROVE  AttemptInv'
<1> SUFFICES ASSUME ~overlap' PROVE Attempted'
  BY DEF AttemptInv
<1>1. Attempted /\ ~Busy /\ Free
  BY DEF Submit, Sending, AttemptInv
<1>2. \A s \in Runs : ~Engaged(s)
  BY <1>1, NotBusy
<1>3. /\ UNCHANGED <<tries, row, news>> /\ job'[r].at = "none"
      /\ \A s \in Runs \ {r} : job'[s] = job[s]
      /\ asking' = <<r, tries = None>>
  BY DEF Submit, redisVars, NoJob, Types, Queued
<1>4. \A s \in Runs : job[s].at \in {"none", "done", "lost"} /\ s \notin news
  BY <1>2 DEF Engaged
<1>5. \A s \in Runs : Engaged(s)' => s = r
  BY <1>3, <1>4 DEF Engaged
<1>6. AddedUp'
  BY <1>1, <1>3, <1>4 DEF Attempted, AddedUp
<1>7. \A s \in Runs : job'[s].at \notin Early
  BY <1>3, <1>4 DEF Early
<1>8. QED
  BY <1>3, <1>5, <1>6, <1>7 DEF Attempted

LEMMA EnqueueAttempts ==
  ASSUME Types, AttemptInv, Enqueue
  PROVE  AttemptInv'
<1> SUFFICES ASSUME ~overlap' PROVE Attempted'
  BY DEF AttemptInv
<1> DEFINE r == asking[1]
<1>1. Attempted
  BY DEF Enqueue, envVars, AttemptInv
<1>2. asking # None /\ r \in Runs /\ asking[2] \in BOOLEAN /\ job[r].at = "none"
  BY DEF Enqueue, Types, PluginTypes
<1>3. \A s \in Runs \ {r} : job[s].at \in {"none", "done", "lost"} /\ s \notin news
  BY <1>1, <1>2 DEF Attempted, Engaged
<1>4. /\ asking' = None /\ job'[r].at = "greet" /\ \A s \in Runs \ {r} : job'[s] = job[s]
      /\ UNCHANGED <<row, news>> /\ tries' = (IF asking[2] THEN MaxAttempts ELSE tries)
  BY <1>2 DEF Enqueue, Counter, Types, JobSet
<1>5. \A s \in Runs : Engaged(s)' => s = r
  BY <1>3, <1>4 DEF Engaged
<1>6. AddedUp' /\ tries' # None
  <2>1. ~ \E s \in Runs : job[s].at = "forget"
    BY <1>2, <1>3
  <2>2. CASE asking[2]
    <3>1. row' = 0 /\ tries' = MaxAttempts
      BY <1>1, <1>2, <1>4, <2>2 DEF Attempted, AddedUp
    <3>2. QED
      BY <3>1, TrainingConstants DEF AddedUp
  <2>3. CASE ~asking[2]
    <3>1. tries # None /\ tries' = tries /\ row' = row
      BY <1>1, <1>2, <1>4, <2>3 DEF Attempted
    <3>2. QED
      BY <1>1, <2>1, <3>1 DEF Attempted, AddedUp
  <2>4. QED
    BY <1>2, <2>2, <2>3
<1>7. QED
  BY <1>4, <1>5, <1>6 DEF Attempted

\* A cancelled training leaves no counter behind.
LEMMA AbandonAttempts ==
  ASSUME Types, AttemptInv, NEW c \in Conns, Free, Abandon(c), UNCHANGED <<pluginVars, job>>
  PROVE  AttemptInv'
<1> SUFFICES ASSUME ~overlap' PROVE Attempted'
  BY DEF AttemptInv
<1>1. ~Busy /\ tries' = None /\ row' = 0
  BY DEF Abandon
<1>2. \A r \in Runs : ~Engaged(r)
  BY <1>1, NotBusy
<1>3. \A r \in Runs : ~Engaged(r)' /\ job'[r].at \notin Early
  BY <1>2 DEF Engaged, Early, pluginVars
<1>4. asking' = None
  BY DEF Free, pluginVars
<1>5. QED
  BY <1>1, <1>3, <1>4 DEF Attempted, AddedUp

LEMMA NextAttempts ==
  ASSUME Types, AttemptInv, [Next]_vars
  PROVE  AttemptInv'
<1>1. CASE UNCHANGED vars
  BY <1>1, AttemptsSame DEF vars, redisVars, pluginVars, envVars
<1>2. ASSUME NEW k \in Codes, Start(k) PROVE AttemptInv'
  BY <1>2, AttemptsSame DEF Start, redisVars, pluginVars
<1>3. ASSUME NEW k \in AllCodes, Lost(k) \/ Expire(k) PROVE AttemptInv'
  BY <1>3, AttemptsSame DEF Lost, Expire, redisVars, pluginVars, envVars
<1>4. ASSUME NEW c \in Conns, ConnStep(c) PROVE AttemptInv'
  <2>1. ASSUME NEW k, Connect(c, k) \/ News(c, k) \/ SendSome(c, k) PROVE AttemptInv'
    BY <2>1, AttemptsSame DEF Connect, News, SendSome, redisVars, pluginVars, envVars
  <2>2. CASE Cancel(c) \/ Drop(c) \/ (Free /\ Closed(c))
    <3>1. Free /\ UNCHANGED <<pluginVars, job>>
      BY <2>2 DEF Cancel, Drop, Closed
    <3>2. Abandon(c) \/ UNCHANGED <<tries, row, overlap>>
      BY <2>2 DEF Cancel, Drop, Closed, Leave
    <3>3. QED
      BY <3>1, <3>2, AbandonAttempts, AttemptsSame DEF pluginVars
  <2>3. ASSUME NEW k \in 1..Need, SendRefused(c, k) PROVE Free /\ Closed(c)
    BY <2>3 DEF SendRefused, Sending
  <2>4. CASE \E k \in 1..Need, r \in Runs : Submit(c, k, r)
    BY <2>4, SubmitAttempts
  <2>5. \/ \E k \in AllCodes \cup {None} : Connect(c, k)
        \/ \E k \in AllCodes : News(c, k)
        \/ Cancel(c) \/ Drop(c) \/ (Free /\ Closed(c))
        \/ \E k \in 1..Need : SendSome(c, k)
        \/ \E k \in 1..Need, r \in Runs : Submit(c, k, r)
    BY <1>4, <2>3 DEF ConnStep, Close
  <2>6. QED
    BY <2>1, <2>2, <2>4, <2>5
<1>5. ASSUME NEW r \in Runs, Handle(r) PROVE AttemptInv'
  BY <1>5, AttemptsSame DEF Handle, redisVars, envVars
<1>6. CASE Restart
  <2> SUFFICES ASSUME ~overlap' PROVE Attempted'
    BY DEF AttemptInv
  <2>1. /\ Attempted /\ ~(tries = 0 /\ \E r \in Runs : job[r].at = "forget")
        /\ UNCHANGED <<tries, row, asking, news>>
    BY <1>6 DEF Restart, AttemptInv, redisVars, pluginVars, At
  <2>2. \A r \in Runs : job'[r].at \in {job[r].at, "lost"} /\ (job[r].at = "none" => job'[r].at = "none")
    BY <1>6, RestartMoves
  <2>3. \A r \in Runs : Engaged(r)' => Engaged(r)
    BY <2>1, <2>2 DEF Engaged
  <2>4. AddedUp'
    BY <2>1 DEF Attempted, AddedUp
  <2>5. \A r \in Runs : job'[r].at \in Early => job[r].at \in Early
    BY <2>2 DEF Early
  <2>6. QED
    BY <2>1, <2>3, <2>4, <2>5 DEF Attempted
<1>7. QED
  BY <1>1, <1>2, <1>3, <1>4, <1>5, <1>6, EnqueueAttempts, JobStepAttempts DEF Next

\* The counter stays within its bounds, and a phone is asked for more samples
\* less than MaxAttempts times in a row.
THEOREM AttemptsAreKept == Spec => []AttemptsKept
<1>1. Types /\ AttemptInv /\ [Next]_vars => AttemptInv'
  BY NextAttempts
<1>2. Types /\ AttemptInv => AttemptsKept
  BY TrainingConstants DEF AttemptInv, Attempted, AddedUp, AttemptsKept, Types, RestTypes
<1>3. Init => AttemptInv
  BY DEF Init, AttemptInv, Attempted, AddedUp, Engaged, Early, NoJob
<1>4. QED
  BY <1>1, <1>2, <1>3, InitTypes, NextTypes, Typed, PTL DEF Spec

-----------------------------------------------------------------------------
(* The code of a run: the key of a phone that waits for samples is there as    *)
(* long as no key expires.  Others remove keys too, so that one has to know    *)
(* that the answer of the run in the plugin removes no key somebody waits on.  *)

Alone ==
  /\ \A c, d \in Conns : c < d /\ sock[d] # "new" => sock[c] = "closed"
  /\ \A c \in Conns : sock[c] = "open" => sub = c
Coded ==
  /\ \A k \in AllCodes : key[k] # None =>
       /\ k <= started /\ key[k].code \in {k, NoCode}
       /\ key[k].state = "training" => key[k].code = k
  /\ \A c \in Conns : bound[c] # None => bound[c] <= started
  /\ \A r \in Runs : job[r].code <= started
Wants(c) == sock[c] = "open" /\ fsm[c] = "training"
\* The answer of the plugin's run will remove a key.
Awaits(c, b) ==
  /\ plugin # 0 /\ plugin \notin answered /\ job[plugin].conn = c
  /\ fsm[c] = "inprogress" /\ bound[c] = b
Held ==
  expiries = 0 =>
    /\ \A c \in Conns : Wants(c) => key[bound[c]] # None /\ key[bound[c]].code = bound[c]
    /\ \A c \in Conns, b \in AllCodes : Awaits(c, b) =>
         /\ \A d \in Conns \ {c} : Wants(d) => bound[d] # b
         /\ key[b] # None => key[b].state # "training"
Used(r) == job[r].at # "none" \/ (asking # None /\ asking[1] = r)
Named ==
  \A r \in Runs : Used(r) /\ job[r].code # job[r].of => job[r].code = NoCode /\ expiries > 0
CodeInv == Alone /\ Coded /\ Held /\ Named

LEMMA InitCode == Init => CodeInv
BY TrainingConstants DEF Init, CodeInv, Alone, Coded, Held, Named, Wants, Awaits, Used, NoJob, NoCode,
                         Runs, AllCodes, Codes

LEMMA Numbers ==
  ASSUME Types
  PROVE  /\ started \in Nat /\ AllCodes \subseteq Nat /\ expiries \in Nat /\ Conns \subseteq Nat
         /\ \A r \in Runs : job[r].code \in AllCodes
         /\ \A c \in Conns : bound[c] # None => bound[c] \in AllCodes
         /\ \A c \in Conns : Wants(c) => bound[c] \in AllCodes
         /\ plugin # 0 => plugin \in Runs
BY TrainingConstants DEF Types, RestTypes, PhoneTypes, PluginTypes, JobSet, AllCodes, Codes, NoCode,
                         Runs, Conns, Wants

\* What a step may write into keys, which keys a flow may adopt and which code a
\* run may be given.
LEMMA CodedKept ==
  ASSUME Types, Coded, started' = started,
         \A k \in AllCodes : key'[k] # None =>
           \/ key'[k] = key[k]
           \/ /\ k <= started /\ key'[k].code \in {k, NoCode}
              /\ key'[k].state = "training" => key'[k].code = k,
         \A c \in Conns : bound'[c] # None =>
           bound'[c] = bound[c] \/ (bound'[c] \in AllCodes /\ key[bound'[c]] # None),
         \A r \in Runs : job'[r].code = job[r].code \/ job'[r].code <= started
  PROVE  Coded'
<1>1. \A k \in AllCodes : key'[k] # None =>
        /\ k <= started' /\ key'[k].code \in {k, NoCode}
        /\ key'[k].state = "training" => key'[k].code = k
  BY DEF Coded
<1>2. \A c \in Conns : bound'[c] # None => bound'[c] <= started'
  BY DEF Coded
<1>3. \A r \in Runs : job'[r].code <= started'
  BY DEF Coded
<1>4. QED
  BY <1>1, <1>2, <1>3 DEF Coded

\* Steps after which nobody waits who did not wait before, on a key that is
\* still there, and no answer will remove a key that came to be waited on.
LEMMA HeldKept ==
  ASSUME Types, Held, expiries' = expiries,
         expiries = 0 => \A c \in Conns : Wants(c)' =>
           /\ Wants(c) /\ bound'[c] = bound[c]
           /\ key'[bound[c]] = key[bound[c]] \/ key'[bound[c]] = Wanted(bound[c]),
         expiries = 0 => \A c \in Conns, b \in AllCodes : Awaits(c, b)' =>
           /\ Awaits(c, b)
           /\ key'[b] # None => key'[b] = key[b] \/ key'[b].state # "training"
  PROVE  Held'
<1> SUFFICES ASSUME expiries = 0 PROVE Held'
  BY DEF Held
<1>1. ASSUME NEW c \in Conns, Wants(c)'
      PROVE  key'[bound'[c]] # None /\ key'[bound'[c]].code = bound'[c]
  <2>1. /\ Wants(c) /\ bound'[c] = bound[c] /\ bound[c] \in AllCodes
        /\ key'[bound[c]] = key[bound[c]] \/ key'[bound[c]] = Wanted(bound[c])
    BY <1>1, Numbers
  <2>2. key[bound[c]] # None /\ key[bound[c]].code = bound[c]
    BY <2>1 DEF Held
  <2>3. Wanted(bound[c]) # None /\ Wanted(bound[c]).code = bound[c]
    BY <2>1, NoneIsNothingElse DEF Wanted, Values, States
  <2>4. QED
    BY <2>1, <2>2, <2>3
<1>2. ASSUME NEW c \in Conns, NEW b \in AllCodes, Awaits(c, b)'
      PROVE  /\ \A d \in Conns \ {c} : Wants(d)' => bound'[d] # b
             /\ key'[b] # None => key'[b].state # "training"
  <2>1. Awaits(c, b)
    BY <1>2
  <2>2. \A d \in Conns \ {c} : Wants(d) => bound[d] # b
    BY <2>1 DEF Held
  <2>3. key[b] # None => key[b].state # "training"
    BY <2>1 DEF Held
  <2>4. QED
    BY <1>2, <2>2, <2>3
<1>3. QED
  BY <1>1, <1>2 DEF Held

\* Steps about nothing but the stages of jobs.
LEMMA CodeSame ==
  ASSUME Types, CodeInv, UNCHANGED <<key, sub, sock, fsm, bound, started, expiries, plugin, answered>>,
         \A r \in Runs : Same(r) /\ (Used(r)' => Used(r))
  PROVE  CodeInv'
<1>1. Alone'
  BY DEF CodeInv, Alone
<1>2. Coded'
  BY CodedKept DEF CodeInv, Same
<1>3. \A c \in Conns : Wants(c)' => Wants(c)
  BY DEF Wants
<1>4. \A c \in Conns, b \in AllCodes : Awaits(c, b)' => Awaits(c, b)
  BY Numbers DEF Awaits, Same
<1>5. Held'
  BY <1>3, <1>4, HeldKept DEF CodeInv
<1>6. Named'
  BY DEF CodeInv, Named, Same
<1>7. QED
  BY <1>1, <1>2, <1>5, <1>6 DEF CodeInv

LEMMA StartCode ==
  ASSUME Types, CodeInv, NEW k \in Codes, Start(k)
  PROVE  CodeInv'
<1>type. /\ k \in AllCodes /\ k \in Nat /\ k # NoCode /\ started \in Nat /\ started' = k
         /\ k = started + 1 /\ key \in [AllCodes -> Values \cup {None}]
  BY TrainingConstants DEF Start, Codes, AllCodes, NoCode, Types, RestTypes, KeyTypes
<1>1. /\ UNCHANGED <<sub, sock, fsm, bound, expiries, plugin, answered, job, asking>>
      /\ key'[k] = Wanted(k) /\ \A i \in AllCodes \ {k} : key'[i] = key[i]
  BY <1>type DEF Start, phoneVars, pluginVars
<1>2. Alone' /\ Named'
  BY <1>1 DEF CodeInv, Alone, Named, Used
<1>3. Coded'
  <2>1. \A c \in Conns : bound[c] # None => bound[c] <= k
    <3>1. ASSUME NEW c \in Conns, bound[c] # None PROVE bound[c] <= k
      <4>1. bound[c] \in Nat
        BY <3>1, Numbers
      <4>2. bound[c] <= started
        BY <3>1 DEF CodeInv, Coded
      <4>3. QED
        BY <4>1, <4>2, <1>type
    <3>2. QED
      BY <3>1
  <2>2. \A r \in Runs : job[r].code <= k
    <3>1. ASSUME NEW r \in Runs PROVE job[r].code <= k
      <4>1. job[r].code \in Nat
        BY Numbers
      <4>2. job[r].code <= started
        BY DEF CodeInv, Coded
      <4>3. QED
        BY <4>1, <4>2, <1>type
    <3>2. QED
      BY <3>1
  <2>3. ASSUME NEW i \in AllCodes, key'[i] # None
        PROVE  /\ i <= k /\ key'[i].code \in {i, NoCode}
               /\ key'[i].state = "training" => key'[i].code = i
    <3>1. CASE i = k
      BY <3>1, <1>1, <1>type DEF Wanted
    <3>2. CASE i # k
      <4>1. key'[i] = key[i] /\ i \in Nat
        BY <3>2, <1>1, Numbers
      <4>2. /\ i <= started /\ key[i].code \in {i, NoCode}
            /\ key[i].state = "training" => key[i].code = i
        BY <4>1, <2>3 DEF CodeInv, Coded
      <4>3. i <= k
        BY <4>1, <4>2, <1>type
      <4>4. QED
        BY <4>1, <4>2, <4>3
    <3>3. QED
      BY <3>1, <3>2
  <2>4. QED
    BY <1>type, <1>1, <2>1, <2>2, <2>3 DEF Coded
\* Nobody is bound to the new code's key.
<1>4. \A c \in Conns : bound[c] # k
  <2>1. ASSUME NEW c \in Conns, bound[c] = k PROVE FALSE
    <3>1. k <= started
      BY <2>1, <1>type, TrainingConstants DEF CodeInv, Coded
    <3>2. QED
      BY <3>1, <1>type
  <2>2. QED
    BY <2>1
<1>5. Held'
  <2>1. \A c \in Conns : Wants(c)' => Wants(c) /\ bound'[c] = bound[c] /\ key'[bound[c]] = key[bound[c]]
    BY <1>1, <1>4, Numbers DEF Wants
  <2>2. \A c \in Conns, b \in AllCodes : Awaits(c, b)' => Awaits(c, b) /\ key'[b] = key[b]
    BY <1>1, <1>4 DEF Awaits
  <2>3. QED
    BY <1>1, <2>1, <2>2, HeldKept DEF CodeInv
<1>6. QED
  BY <1>2, <1>3, <1>5 DEF CodeInv

LEMMA ExpireCode ==
  ASSUME Types, CodeInv, NEW k \in AllCodes, Lost(k) \/ Expire(k)
  PROVE  CodeInv'
<1>1. CASE Lost(k)
  BY <1>1, CodeSame DEF Lost, phoneVars, pluginVars, redisVars, envVars, Same, Used
<1>2. CASE Expire(k)
  <2>1. /\ UNCHANGED <<sub, sock, fsm, bound, started, plugin, answered, job, asking>>
        /\ expiries' = expiries + 1 /\ key' = [key EXCEPT ![k] = None]
    BY <1>2 DEF Expire, phoneVars, pluginVars
  <2>2. expiries' > 0 /\ expiries' # 0
    BY <2>1, TrainingConstants DEF Types, RestTypes
  <2>3. Alone' /\ Held' /\ Named'
    BY <2>1, <2>2 DEF CodeInv, Alone, Held, Named, Used
  <2>4. Coded'
    BY <2>1 DEF CodeInv, Coded, Types, KeyTypes
  <2>5. QED
    BY <2>3, <2>4 DEF CodeInv
<1>3. QED
  BY <1>1, <1>2

\* No other websocket is open.
LEMMA OnlyOne ==
  ASSUME Types, Alone, NEW c \in Conns, sock[c] = "open"
  PROVE  \A d \in Conns \ {c} : sock[d] # "open"
<1>1. ASSUME NEW d \in Conns \ {c}, sock[d] = "open" PROVE FALSE
  <2>1. c < d \/ d < c
    BY Numbers
  <2>2. QED
    BY <1>1, <2>1 DEF Alone
<1>2. QED
  BY <1>1

\* A state other than 'training' is stored.
LEMMA StoredCoded ==
  ASSUME Types, Coded, NEW c \in Conns, NEW s \in States \ {"training"}, NEW k \in AllCodes
  PROVE  \/ Stored(c, s)[k] = key[k]
         \/ /\ k = bound[c] /\ k <= started /\ Stored(c, s)[k].state = s
            /\ Stored(c, s)[k] = Merged(k, s) /\ Stored(c, s)[k].code \in {k, NoCode}
<1>1. CASE bound[c] = None \/ bound[c] # k
  BY <1>1 DEF Stored, Types, KeyTypes
<1>2. CASE bound[c] = k /\ k # None
  <2>1. Stored(c, s)[k] = Merged(k, s) /\ k <= started
    BY <1>2 DEF Stored, Coded, Types, KeyTypes
  <2>2. Merged(k, s).state = s /\ Merged(k, s).code \in {k, NoCode}
    BY DEF Merged, Coded
  <2>3. QED
    BY <1>2, <2>1, <2>2
<1>3. QED
  BY <1>1, <1>2, TrainingConstants DEF AllCodes, Codes, NoCode

LEMMA ConnectCode ==
  ASSUME Types, CodeInv, NEW c \in Conns, NEW k \in AllCodes \cup {None}, Connect(c, k)
  PROVE  CodeInv'
<1> DEFINE s == IF k = None THEN "ready" ELSE key[k].state
<1>1. /\ sock[c] = "new" /\ (\A d \in Conns : d < c => sock[d] = "closed")
      /\ sock' = [sock EXCEPT ![c] = "open"] /\ sub' = c /\ bound' = [bound EXCEPT ![c] = k]
      /\ fsm' = [fsm EXCEPT ![c] = s]
      /\ UNCHANGED <<started, expiries, plugin, answered, job, asking>>
  BY DEF Connect, Entered, pluginVars, envVars
<1>2. \A i \in AllCodes : key'[i] = None \/ key'[i] = key[i]
  BY DEF Connect
<1>3. k # None => k \in AllCodes /\ key[k] # None /\ key'[k] = key[k]
  BY DEF Connect
<1>type. /\ sock \in [Conns -> {"new", "open", "closed"}] /\ fsm \in [Conns -> States]
         /\ bound \in [Conns -> AllCodes \cup {None}]
  BY DEF Types, PhoneTypes
<1>4. Alone' /\ \A d \in Conns \ {c} : sock'[d] # "open"
  <2>1. ASSUME NEW d \in Conns \ {c} PROVE sock[d] # "open" /\ (c < d => sock[d] = "new")
    <3>1. c < d \/ d < c
      BY Numbers
    <3>2. QED
      BY <1>1, <1>type, <3>1 DEF CodeInv, Alone
  <2>2. \A d \in Conns : d # c => sock'[d] = sock[d]
    BY <1>1, <1>type
  <2>3. sock'[c] = "open"
    BY <1>1, <1>type
  <2>4. ASSUME NEW a \in Conns, NEW d \in Conns, a < d, sock'[d] # "new" PROVE sock'[a] = "closed"
    <3>1. a # d
      BY <2>4, Numbers
    <3>2. CASE d = c
      BY <1>1, <2>2, <2>4, <3>1, <3>2
    <3>3. CASE a = c
      BY <2>1, <2>2, <2>4, <3>1, <3>3
    <3>4. CASE a # c /\ d # c
      BY <2>2, <2>4, <3>4 DEF CodeInv, Alone
    <3>5. QED
      BY <3>2, <3>3, <3>4
  <2>5. QED
    BY <1>1, <2>1, <2>2, <2>4 DEF Alone
<1>5. Coded'
  BY <1>1, <1>2, <1>3, <1>type, CodedKept DEF CodeInv
<1>6. Held'
  <2> SUFFICES ASSUME expiries = 0 PROVE Held'
    BY <1>1 DEF Held
  <2>1. ASSUME NEW d \in Conns, Wants(d)'
        PROVE  d = c /\ bound'[d] = k /\ k # None /\ k \in AllCodes /\ key[k].state = "training"
    BY <1>1, <1>3, <1>4, <1>type, <2>1 DEF Wants
  <2>2. ASSUME NEW d \in Conns, Wants(d)'
        PROVE  key'[bound'[d]] # None /\ key'[bound'[d]].code = bound'[d]
    BY <2>1, <2>2, <1>3 DEF CodeInv, Coded
  <2>3. ASSUME NEW d \in Conns, NEW b \in AllCodes, Awaits(d, b)'
        PROVE  /\ \A e \in Conns \ {d} : Wants(e)' => bound'[e] # b
               /\ key'[b] # None => key'[b].state # "training"
    <3>1. CASE d = c
      <4>1. bound'[c] = b /\ bound'[c] = k /\ fsm'[c] = "inprogress" /\ fsm'[c] = s
        BY <2>3, <3>1, <1>1, <1>type DEF Awaits
      <4>2. key[b].state = "inprogress" /\ key'[b] = key[b]
        BY <4>1, <1>3
      <4>3. QED
        BY <3>1, <4>2, <2>1
    <3>2. CASE d # c
      <4>1. Awaits(d, b)
        BY <2>3, <3>2, <1>1, <1>type DEF Awaits
      <4>2. key[b] # None => key[b].state # "training"
        BY <4>1 DEF CodeInv, Held
      <4>3. QED
        BY <4>2, <1>2, <1>3, <2>1
    <3>3. QED
      BY <3>1, <3>2
  <2>4. QED
    BY <2>2, <2>3 DEF Held
<1>7. Named'
  BY <1>1 DEF CodeInv, Named, Used
<1>8. QED
  BY <1>4, <1>5, <1>6, <1>7 DEF CodeInv

LEMMA NewsCode ==
  ASSUME Types, CodeInv, NEW c \in Conns, NEW k \in AllCodes, News(c, k)
  PROVE  CodeInv'
<1> DEFINE b == IF bound[c] # k /\ key[k] # None THEN k ELSE bound[c]
           enters == b # None /\ key[b] # None
<1>1. /\ sub = c /\ bound' = [bound EXCEPT ![c] = b]
      /\ UNCHANGED <<key, sub, sock, started, expiries, plugin, answered, job, asking>>
  BY DEF News, pluginVars, envVars
<1>2. fsm' = IF enters THEN [fsm EXCEPT ![c] = key[b].state] ELSE fsm
  BY DEF News, Entered
<1>3. ~enters => b = bound[c]
  BY TrainingConstants DEF AllCodes, Codes, NoCode
<1>4. b # None => b \in AllCodes
  BY DEF Types, PhoneTypes
<1>5. b # bound[c] => b = k /\ key[k] # None
  OBVIOUS
<1>type. /\ sock \in [Conns -> {"new", "open", "closed"}] /\ fsm \in [Conns -> States]
         /\ bound \in [Conns -> AllCodes \cup {None}]
  BY DEF Types, PhoneTypes
<1> HIDE DEF b
<1>6. Alone' /\ \A d \in Conns : sock'[d] = "open" => d = c
  BY <1>1 DEF CodeInv, Alone
<1>7. Coded'
  <2>1. \A d \in Conns : bound'[d] # None =>
           bound'[d] = bound[d] \/ (bound'[d] \in AllCodes /\ key[bound'[d]] # None)
    BY <1>1, <1>4, <1>5, <1>type
  <2>2. QED
    BY <1>1, <2>1, CodedKept DEF CodeInv
<1>8. Held'
  <2> SUFFICES ASSUME expiries = 0 PROVE Held'
    BY <1>1 DEF Held
  <2>1. ASSUME NEW d \in Conns, Wants(d)'
        PROVE  /\ d = c /\ bound'[d] = b
               /\ (enters /\ key[b].state = "training") \/ (Wants(c) /\ b = bound[c])
    BY <1>1, <1>2, <1>3, <1>6, <1>type, <2>1 DEF Wants
  <2>2. ASSUME NEW d \in Conns, Wants(d)'
        PROVE  key'[bound'[d]] # None /\ key'[bound'[d]].code = bound'[d]
    <3>1. CASE enters /\ key[b].state = "training"
      BY <2>1, <2>2, <3>1, <1>1, <1>4 DEF CodeInv, Coded
    <3>2. CASE Wants(c) /\ b = bound[c]
      BY <2>1, <2>2, <3>2, <1>1 DEF CodeInv, Held
    <3>3. QED
      BY <2>1, <2>2, <3>1, <3>2
  <2>3. ASSUME NEW d \in Conns, NEW a \in AllCodes, Awaits(d, a)'
        PROVE  /\ \A e \in Conns \ {d} : Wants(e)' => bound'[e] # a
               /\ key'[a] # None => key'[a].state # "training"
    <3>1. CASE d = c /\ enters
      <4>1. bound'[c] = a /\ bound'[c] = b /\ fsm'[c] = "inprogress" /\ fsm'[c] = key[b].state
        BY <2>3, <3>1, <1>1, <1>2, <1>type DEF Awaits
      <4>2. key'[a].state = "inprogress"
        BY <4>1, <1>1
      <4>3. QED
        BY <3>1, <4>2, <2>1
    <3>2. CASE d = c /\ ~enters
      <4>1. Awaits(c, a)
        BY <2>3, <3>2, <1>1, <1>2, <1>3, <1>type DEF Awaits
      <4>2. key[a] # None => key[a].state # "training"
        BY <4>1 DEF CodeInv, Held
      <4>3. QED
        BY <3>2, <4>2, <1>1, <2>1
    <3>3. CASE d # c
      <4>1. Awaits(d, a)
        BY <2>3, <3>3, <1>1, <1>2, <1>type DEF Awaits
      <4>2. key[a] # None => key[a].state # "training"
        BY <4>1 DEF CodeInv, Held
      <4>3. Wants(c) => bound[c] # a
        BY <3>3, <4>1 DEF CodeInv, Held
      <4>4. QED
        BY <4>2, <4>3, <1>1, <2>1
    <3>4. QED
      BY <3>1, <3>2, <3>3
  <2>4. QED
    BY <2>2, <2>3 DEF Held
<1>9. Named'
  BY <1>1 DEF CodeInv, Named, Used
<1>10. QED
  BY <1>6, <1>7, <1>8, <1>9 DEF CodeInv

\* Abandon removes the key of the only machine that waits.
LEMMA AbandonCode ==
  ASSUME Types, CodeInv, NEW c \in Conns, sock[c] = "open", Abandon(c),
         \/ UNCHANGED sock
         \/ sock' = [sock EXCEPT ![c] = "closed"],
         sub' = sub \/ sock'[c] = "closed",
         UNCHANGED <<started, expiries, plugin, answered, job, asking>>
  PROVE  CodeInv'
<1>type. /\ sock \in [Conns -> {"new", "open", "closed"}] /\ fsm \in [Conns -> States]
         /\ bound \in [Conns -> AllCodes \cup {None}]
  BY DEF Types, PhoneTypes
<1>1. \A d \in Conns \ {c} : sock[d] # "open"
  BY OnlyOne DEF CodeInv
<1>2. \A d \in Conns : sock'[d] \in {sock[d], "closed"} /\ (sock[d] = "new" => sock'[d] = "new")
  BY <1>type
<1>3. \A d \in Conns : sock'[d] = "open" => d = c
  BY <1>1, <1>2
<1>4. Alone'
  BY <1>2, <1>3 DEF CodeInv, Alone
<1>5. /\ \A k \in AllCodes : key'[k] = None \/ key'[k] = key[k]
      /\ fsm' = [fsm EXCEPT ![c] = "canceled"] /\ bound' = [bound EXCEPT ![c] = None]
  BY DEF Abandon
<1>6. Coded'
  BY <1>5, <1>type, CodedKept DEF CodeInv
<1>7. Held'
  <2>1. \A d \in Conns : ~Wants(d)'
    BY <1>3, <1>5, <1>type DEF Wants
  <2>2. \A d \in Conns, b \in AllCodes : Awaits(d, b)' => Awaits(d, b)
    BY <1>5, <1>type DEF Awaits
  <2>3. QED
    BY <1>5, <2>1, <2>2, HeldKept DEF CodeInv
<1>8. Named'
  BY DEF CodeInv, Named, Used
<1>9. QED
  BY <1>4, <1>6, <1>7, <1>8 DEF CodeInv

\* Leave stores the state of a machine that is not in training.
LEMMA LeaveCode ==
  ASSUME Types, CodeInv, NEW c \in Conns, sock[c] = "open", fsm[c] # "training", Leave(c),
         sock' = [sock EXCEPT ![c] = "closed"],
         UNCHANGED <<started, expiries, plugin, answered, job, asking>>
  PROVE  CodeInv'
<1>type. /\ sock \in [Conns -> {"new", "open", "closed"}] /\ fsm[c] \in States \ {"training"}
         /\ bound \in [Conns -> AllCodes \cup {None}]
  BY DEF Types, PhoneTypes
<1>1. \A d \in Conns \ {c} : sock[d] # "open"
  BY OnlyOne DEF CodeInv
<1>2. \A d \in Conns : sock'[d] \in {sock[d], "closed"} /\ (sock[d] = "new" => sock'[d] = "new")
  BY <1>type
<1>3. \A d \in Conns : sock'[d] # "open"
  BY <1>1, <1>type
<1>4. Alone'
  BY <1>2, <1>3 DEF CodeInv, Alone
<1>5. key' = Stored(c, fsm[c]) /\ UNCHANGED <<fsm, bound>>
  BY DEF Leave
<1>6. \A k \in AllCodes :
        \/ key'[k] = key[k]
        \/ k <= started /\ key'[k].code \in {k, NoCode} /\ key'[k].state # "training"
  BY <1>5, <1>type, StoredCoded DEF CodeInv
<1>7. Coded'
  BY <1>5, <1>6, CodedKept DEF CodeInv
<1>8. Held'
  <2>1. \A d \in Conns : ~Wants(d)'
    BY <1>3 DEF Wants
  <2>2. \A d \in Conns, b \in AllCodes : Awaits(d, b)' => Awaits(d, b)
    BY <1>5 DEF Awaits
  <2>3. QED
    BY <1>6, <2>1, <2>2, HeldKept DEF CodeInv
<1>9. Named'
  BY DEF CodeInv, Named, Used
<1>10. QED
  BY <1>4, <1>7, <1>8, <1>9 DEF CodeInv

LEMMA ClosedCode ==
  ASSUME Types, CodeInv, NEW c \in Conns, sock[c] = "open", Cancel(c) \/ Drop(c) \/ Closed(c)
  PROVE  CodeInv'
<1>1. UNCHANGED <<started, expiries, plugin, answered, job, asking>>
  BY DEF Cancel, Drop, Closed, pluginVars
<1>2. CASE Cancel(c)
  <2>1. CASE Abandon(c)
    <3>1. UNCHANGED <<sock, sub>>
      BY <1>2 DEF Cancel
    <3>2. QED
      BY <1>1, <2>1, <3>1, AbandonCode
  <2>2. CASE UNCHANGED <<key, bound, fsm>>
    <3>1. UNCHANGED <<sock, sub>>
      BY <1>2 DEF Cancel
    <3>2. QED
      BY <1>1, <2>2, <3>1, CodeSame DEF Same, Used
  <2>3. QED
    BY <1>2, <2>1, <2>2 DEF Cancel
<1>3. CASE Drop(c) \/ Closed(c)
  <2>1. sock' = [sock EXCEPT ![c] = "closed"] /\ sock'[c] = "closed"
    BY <1>3 DEF Drop, Closed, Types, PhoneTypes
  <2>2. Abandon(c) \/ (fsm[c] # "training" /\ Leave(c))
    BY <1>3 DEF Drop, Closed
  <2>3. QED
    BY <1>1, <2>1, <2>2, AbandonCode, LeaveCode
<1>4. QED
  BY <1>2, <1>3

\* A run is made from the one machine that waits, whose key is there.
LEMMA SubmitCode ==
  ASSUME Types, CodeInv, NEW c \in Conns, NEW n \in 1..Need, NEW r \in Runs, Submit(c, n, r)
  PROVE  CodeInv'
<1> DEFINE b == bound[c]
<1>1. /\ sock[c] = "open" /\ fsm[c] = "training" /\ fsm' = [fsm EXCEPT ![c] = "inprogress"]
      /\ key' = Stored(c, "inprogress") /\ plugin' = r /\ asking'[1] = r
      /\ job' = [job EXCEPT ![r] = [NoJob EXCEPT !.conn = c, !.of = b, !.code = CodeOf(c)]]
      /\ UNCHANGED <<sock, sub, bound, started, expiries, answered>>
  BY DEF Submit, Sending, Queued
<1>type. /\ sock \in [Conns -> {"new", "open", "closed"}] /\ fsm \in [Conns -> States]
         /\ b \in AllCodes /\ b # None /\ job \in [Runs -> JobSet]
  BY <1>1 DEF Types, PhoneTypes
<1>2. /\ job'[r].conn = c /\ job'[r].of = b /\ job'[r].code = CodeOf(c) /\ job'[r].at = "none"
      /\ \A s \in Runs \ {r} : job'[s] = job[s]
  BY <1>1, <1>type DEF NoJob
<1>3. Wants(c) /\ \A d \in Conns \ {c} : sock[d] # "open"
  BY <1>1, OnlyOne DEF CodeInv, Wants
<1>4. CodeOf(c) \in {b, NoCode} /\ b <= started /\ CodeOf(c) <= started
  <2>1. CodeOf(c) \in {b, NoCode} /\ b <= started
    BY <1>type DEF CodeOf, Merged, CodeInv, Coded
  <2>2. NoCode <= started
    BY Numbers DEF NoCode
  <2>3. QED
    BY <2>1, <2>2
<1>5. expiries = 0 => CodeOf(c) = b
  BY <1>3, <1>type DEF CodeOf, Merged, CodeInv, Held
<1> HIDE DEF b
<1>6. Alone'
  BY <1>1 DEF CodeInv, Alone
<1>7. \A k \in AllCodes :
        \/ key'[k] = key[k]
        \/ k <= started /\ key'[k].code \in {k, NoCode} /\ key'[k].state # "training"
  BY <1>1, StoredCoded DEF CodeInv, States
<1>8. Coded'
  BY <1>1, <1>2, <1>4, <1>7, CodedKept DEF CodeInv
<1>9. Held'
  <2>1. \A d \in Conns : ~Wants(d)'
    BY <1>1, <1>3, <1>type DEF Wants
  <2>2. \A d \in Conns, a \in AllCodes : Awaits(d, a)' => a = b
    BY <1>1, <1>2 DEF Awaits, b
  <2>3. key'[b].state # "training"
    BY <1>1, <1>type DEF Stored, Merged, b, Types, KeyTypes
  <2>4. QED
    BY <2>1, <2>2, <2>3 DEF Held
<1>10. Named'
  <2>1. ASSUME NEW s \in Runs, Used(s)', job'[s].code # job'[s].of
        PROVE  job'[s].code = NoCode /\ expiries' > 0
    <3>1. CASE s = r
      <4>1. CodeOf(c) # b
        BY <2>1, <3>1, <1>2
      <4>2. expiries # 0 /\ expiries \in Nat
        BY <4>1, <1>5, Numbers
      <4>3. QED
        BY <3>1, <4>1, <4>2, <1>1, <1>2, <1>4
    <3>2. CASE s # r
      <4>1. job'[s] = job[s] /\ Used(s)
        BY <2>1, <3>2, <1>1, <1>2 DEF Used
      <4>2. QED
        BY <2>1, <4>1, <1>1 DEF CodeInv, Named
    <3>3. QED
      BY <3>1, <3>2
  <2>2. QED
    BY <2>1 DEF Named
<1>11. QED
  BY <1>6, <1>8, <1>9, <1>10 DEF CodeInv

\* The answer of the run in the plugin: no other machine waits on the key it
\* removes.
LEMMA HandleCode ==
  ASSUME Types, CodeInv, NEW r \in Runs, Handle(r)
  PROVE  CodeInv'
<1> DEFINE w == plugin
           a == job[w].conn
<1>1. UNCHANGED <<sub, sock, plugin, asking, job, started, expiries>>
  BY DEF Handle, envVars
<1>2. CASE UNCHANGED <<answered, key, fsm, bound>>
  BY <1>1, <1>2, CodeSame DEF Same, Used
<1>3. CASE w \notin answered /\ answered' = answered \cup {w} /\ (Retrained(w) \/ Trained(w))
  <2>type. /\ w \in Runs /\ w # 0 /\ a \in Conns /\ job[w].code \in AllCodes
           /\ key \in [AllCodes -> Values \cup {None}] /\ fsm \in [Conns -> States]
           /\ bound \in [Conns -> AllCodes \cup {None}]
    <3>1. w # 0
      BY DEF Handle, Types, PluginTypes
    <3>2. QED
      BY <3>1, Numbers DEF Types, PluginTypes, PhoneTypes, KeyTypes
  <2>1. Alone' /\ Named'
    BY <1>1 DEF CodeInv, Alone, Named, Used
  <2>2. \A d \in Conns, b \in AllCodes : ~Awaits(d, b)'
    BY <1>1, <1>3 DEF Awaits
  <2>3. CASE Retrained(w)
    <3>1. key' = [key EXCEPT ![job[w].code] = Wanted(job[w].code)] /\ UNCHANGED <<fsm, bound>>
      BY <2>3 DEF Retrained
    <3>2. \A k \in AllCodes : key'[k] = key[k] \/ (k = job[w].code /\ key'[k] = Wanted(k))
      BY <3>1, <2>type
    <3>3. job[w].code <= started
      BY <2>type DEF CodeInv, Coded
    <3>4. Coded'
      BY <1>1, <3>1, <3>2, <3>3, CodedKept DEF CodeInv, Wanted
    <3>5. \A d \in Conns : Wants(d)' =>
            /\ Wants(d) /\ bound'[d] = bound[d]
            /\ key'[bound[d]] = key[bound[d]] \/ key'[bound[d]] = Wanted(bound[d])
      BY <1>1, <3>1, <3>2, Numbers DEF Wants
    <3>6. Held'
      BY <1>1, <2>2, <3>5, HeldKept DEF CodeInv
    <3>7. QED
      BY <2>1, <3>4, <3>6 DEF CodeInv
  <2>4. CASE Trained(w) /\ fsm[a] = "inprogress"
    <3>1. /\ fsm' = [fsm EXCEPT ![a] = "done"] /\ bound' = [bound EXCEPT ![a] = None]
          /\ \A k \in AllCodes : key'[k] = IF k = bound[a] THEN None ELSE key[k]
      BY <2>4 DEF Trained
    <3>2. Coded'
      BY <1>1, <3>1, <2>type, CodedKept DEF CodeInv
    <3>3. ASSUME expiries = 0, NEW d \in Conns, Wants(d)'
          PROVE  Wants(d) /\ bound'[d] = bound[d] /\ key'[bound[d]] = key[bound[d]]
      <4>1. d # a /\ Wants(d) /\ bound'[d] = bound[d]
        BY <1>1, <3>1, <3>3, <2>type DEF Wants
      <4>2. bound[d] \in AllCodes
        BY <4>1, Numbers
      <4>3. bound[a] \in AllCodes => Awaits(a, bound[a])
        BY <1>3, <2>4, <2>type DEF Awaits
      <4>4. bound[d] # bound[a]
        BY <3>3, <4>1, <4>2, <4>3, <2>type DEF CodeInv, Held
      <4>5. QED
        BY <4>1, <4>2, <4>4, <3>1
    <3>4. Held'
      BY <1>1, <2>2, <3>3, HeldKept DEF CodeInv
    <3>5. QED
      BY <2>1, <3>2, <3>4 DEF CodeInv
  <2>5. CASE Trained(w) /\ fsm[a] # "inprogress"
    <3>1. UNCHANGED <<key, fsm, bound>>
      BY <2>5 DEF Trained
    <3>2. Coded'
      BY <1>1, <3>1, CodedKept DEF CodeInv
    <3>3. \A d \in Conns : Wants(d)' => Wants(d)
      BY <1>1, <3>1 DEF Wants
    <3>4. Held'
      BY <1>1, <2>2, <3>1, <3>3, HeldKept DEF CodeInv
    <3>5. QED
      BY <2>1, <3>2, <3>4 DEF CodeInv
  <2>6. QED
    BY <1>3, <2>3, <2>4, <2>5
<1>4. QED
  BY <1>2, <1>3 DEF Handle

LEMMA ConnStepCode ==
  ASSUME Types, CodeInv, NEW c \in Conns, ConnStep(c)
  PROVE  CodeInv'
<1>1. CASE Cancel(c) \/ Drop(c) \/ Close(c) \/ \E n \in 1..Need : SendRefused(c, n)
  <2>1. sock[c] = "open"
    BY <1>1 DEF Cancel, Drop, Close, SendRefused, Sending
  <2>2. Cancel(c) \/ Drop(c) \/ Closed(c)
    BY <1>1 DEF Close, SendRefused
  <2>3. QED
    BY <2>1, <2>2, ClosedCode
<1>2. CASE \E n \in 1..Need : SendSome(c, n)
  BY <1>2, CodeSame DEF SendSome, keyVars, pluginVars, envVars, Same, Used
<1>3. CASE \E n \in 1..Need, r \in Runs : Submit(c, n, r)
  BY <1>3, SubmitCode
<1>4. CASE \/ \E k \in AllCodes \cup {None} : Connect(c, k)
           \/ \E k \in AllCodes : News(c, k)
  BY <1>4, ConnectCode, NewsCode
<1>5. QED
  BY <1>1, <1>2, <1>3, <1>4 DEF ConnStep

LEMMA NextCode ==
  ASSUME Types, CodeInv, [Next]_vars
  PROVE  CodeInv'
<1>1. CASE UNCHANGED vars
  BY <1>1, CodeSame DEF vars, phoneVars, keyVars, pluginVars, envVars, Same, Used
<1>2. CASE Enqueue
  <2>1. asking # None /\ asking[1] \in Runs
    BY <1>2 DEF Enqueue, Types, PluginTypes
  <2>2. job' = [job EXCEPT ![asking[1]].at = "greet"]
        /\ UNCHANGED <<key, sub, sock, fsm, bound, started, expiries, plugin, answered>>
    BY <1>2 DEF Enqueue, phoneVars, keyVars, envVars
  <2>3. asking' = None
    BY <1>2 DEF Enqueue
  <2>4. job \in [Runs -> JobSet]
    BY DEF Types
  <2>5. \A s \in Runs : Same(s) /\ (s # asking[1] => job'[s] = job[s])
    BY <2>1, <2>2, <2>4 DEF Same, JobSet
  <2>6. \A s \in Runs : Used(s)' => Used(s)
    BY <2>1, <2>3, <2>5 DEF Used
  <2>7. QED
    BY <2>2, <2>5, <2>6, CodeSame
<1>3. ASSUME NEW r \in Runs, JobStep(r) PROVE CodeInv'
  <2>1. UNCHANGED <<key, sub, sock, fsm, bound, started, expiries, plugin, answered, asking>>
    BY <1>3, JobQuiet DEF Quiet, phoneVars, keyVars
  <2>2. \A s \in Runs : Same(s) /\ (Used(s)' => Used(s))
    BY <1>3, <2>1, JobMoves DEF Same, Used
  <2>3. QED
    BY <2>1, <2>2, CodeSame
<1>4. CASE Restart
  <2>1. UNCHANGED <<key, sub, sock, fsm, bound, started, expiries, plugin, answered, asking>>
    BY <1>4, RestartMoves DEF Quiet, phoneVars, keyVars
  <2>2. \A s \in Runs : Same(s) /\ (Used(s)' => Used(s))
    BY <1>4, <2>1, RestartMoves DEF Used
  <2>3. QED
    BY <2>1, <2>2, CodeSame
<1>5. QED
  BY <1>1, <1>2, <1>3, <1>4, StartCode, ExpireCode, ConnStepCode, HandleCode DEF Next

\* A run carries the code its connection is bound to, unless a key expired.
THEOREM CodesAreKept == Spec => []CodeKept
<1>1. Types /\ CodeInv /\ [Next]_vars => CodeInv'
  BY NextCode
<1>2. CodeInv => CodeKept
  BY DEF CodeInv, Named, Used, CodeKept
<1>3. QED
  BY <1>1, <1>2, InitCode, InitTypes, NextTypes, Typed, PTL DEF Spec

-----------------------------------------------------------------------------
(* A canceled training: no key, no run and no answer that is still to be       *)
(* handled has its code any more.                                              *)

Final(k) ==
  /\ told[k] = "canceled" /\ k <= started
  /\ \A i \in AllCodes : key[i] # None => key[i].code # k
  /\ \A r \in Runs : Engaged(r) => job[r].code # k
  /\ plugin # 0 /\ job[plugin].code = k => \A r \in Runs : ~Engaged(r)
FinalInv == \A k \in canceled : Final(k)

\* Steps that write no code of a canceled training into a key and engage no run.
LEMMA FinalKept ==
  ASSUME Types, NEW k \in canceled, Final(k), told'[k] \in {told[k], "canceled"},
         started' \in {started, started + 1}, plugin' = plugin,
         \A i \in AllCodes : key'[i] # None =>
           (key[i] # None /\ key'[i].code = key[i].code) \/ key'[i].code # k,
         \A r \in Runs : Same(r) /\ (Engaged(r)' => Engaged(r))
  PROVE  Final(k)'
<1>1. k <= started'
  BY Numbers, TrainingConstants DEF Final, Types, RestTypes, Codes
<1>2. \A i \in AllCodes : key'[i] # None => key'[i].code # k
  BY DEF Final
<1>3. \A r \in Runs : Engaged(r)' => job'[r].code # k
  BY DEF Final, Same
<1>4. plugin # 0 => job'[plugin].code = job[plugin].code
  BY Numbers DEF Same
<1>5. plugin' # 0 /\ job'[plugin'].code = k => \A r \in Runs : ~Engaged(r)'
  BY <1>4 DEF Final
<1>6. told'[k] = "canceled"
  BY DEF Final
<1>7. QED
  BY <1>1, <1>2, <1>3, <1>5, <1>6 DEF Final

LEMMA FinalSame ==
  ASSUME Types, NEW k \in canceled, Final(k), UNCHANGED <<told, started, plugin, key, asking>>,
         news' \subseteq news,
         \A r \in Runs : Same(r) /\ (job'[r].at = job[r].at \/ job'[r].at = "lost")
  PROVE  Final(k)'
<1>1. \A r \in Runs : Engaged(r)' => Engaged(r)
  BY DEF Engaged
<1>2. QED
  BY <1>1, FinalKept

\* A cancel is the last the AI hears of its code if no run is engaged: only the
\* key that is removed had the code.
LEMMA AbandonFinal ==
  ASSUME Types, CodeInv, FinalInv, Free, NEW c \in Conns, Abandon(c),
         UNCHANGED <<started, plugin, news, asking, job>>
  PROVE  FinalInv'
<1> DEFINE b == bound[c]
<1>1. /\ \A i \in AllCodes : key'[i] = IF i = b THEN None ELSE key[i]
      /\ told' = IF b \in Codes THEN [told EXCEPT ![b] = "canceled"] ELSE told
      /\ canceled' = IF b \in Codes /\ ~Busy THEN canceled \cup {b} ELSE canceled
  BY DEF Abandon
<1>2. told \in [AllCodes -> Statuses] /\ Codes \subseteq AllCodes /\ canceled \subseteq Codes
  BY DEF Types, RestTypes, AllCodes
<1>3. \A r \in Runs : Same(r) /\ (Engaged(r)' <=> Engaged(r))
  BY DEF Same, Engaged
<1>4. ASSUME NEW k \in canceled PROVE Final(k)'
  <2>1. told'[k] \in {told[k], "canceled"}
    BY <1>1, <1>2
  <2>2. Final(k)
    BY DEF FinalInv
  <2>3. QED
    BY <1>1, <1>3, <2>1, <2>2, FinalKept
<1>5. ASSUME NEW k \in Codes, k = b, ~Busy PROVE Final(k)'
  <2>1. told'[k] = "canceled" /\ b # None
    BY <1>1, <1>2, <1>5, TrainingConstants DEF Codes
  <2>2. k <= started'
    BY <1>5, <2>1 DEF CodeInv, Coded
  <2>3. ASSUME NEW i \in AllCodes, key'[i] # None PROVE key'[i].code # k
    <3>1. i # k /\ key'[i] = key[i] /\ key[i].code \in {i, NoCode}
      BY <1>1, <1>5, <2>3 DEF CodeInv, Coded
    <3>2. k # NoCode
      BY TrainingConstants DEF Codes, NoCode
    <3>3. QED
      BY <3>1, <3>2
  <2>4. \A r \in Runs : ~Engaged(r)'
    BY <1>3, <1>5, NotBusy
  <2>5. QED
    BY <2>1, <2>2, <2>3, <2>4 DEF Final
<1>6. QED
  BY <1>1, <1>4, <1>5 DEF FinalInv

LEMMA StoredFinal ==
  ASSUME Types, NEW k \in canceled, NEW c \in Conns, NEW s \in States, NEW i \in AllCodes,
         Stored(c, s)[i] # None
  PROVE  (key[i] # None /\ Stored(c, s)[i].code = key[i].code) \/ Stored(c, s)[i].code # k
<1>1. CASE bound[c] = None \/ bound[c] # i
  BY <1>1 DEF Stored, Types, KeyTypes
<1>2. CASE bound[c] = i /\ i # None
  <2>1. Stored(c, s)[i] = Merged(i, s)
    BY <1>2 DEF Stored, Types, KeyTypes
  <2>2. Merged(i, s).code = IF key[i] = None THEN NoCode ELSE key[i].code
    BY DEF Merged
  <2>3. k # NoCode
    BY TrainingConstants DEF Types, RestTypes, Codes, NoCode
  <2>4. QED
    BY <2>1, <2>2, <2>3
<1>3. QED
  BY <1>1, <1>2, TrainingConstants DEF AllCodes, Codes, NoCode

LEMMA LeaveFinal ==
  ASSUME Types, FinalInv, NEW c \in Conns, Leave(c),
         UNCHANGED <<started, plugin, news, asking, job>>
  PROVE  FinalInv'
<1>1. key' = Stored(c, fsm[c]) /\ UNCHANGED <<told, canceled>> /\ fsm[c] \in States
  BY DEF Leave, Types, PhoneTypes
<1>2. \A r \in Runs : Same(r) /\ (Engaged(r)' => Engaged(r))
  BY DEF Same, Engaged
<1>3. ASSUME NEW k \in canceled PROVE Final(k)'
  BY <1>1, <1>2, StoredFinal, FinalKept DEF FinalInv
<1>4. QED
  BY <1>1, <1>3 DEF FinalInv

\* The run is given a code that its key has, or none.
LEMMA SubmitFinal ==
  ASSUME Types, FinalInv, NEW c \in Conns, NEW n \in 1..Need, NEW r \in Runs, Submit(c, n, r)
  PROVE  FinalInv'
<1> SUFFICES ASSUME NEW k \in canceled PROVE Final(k)'
  BY DEF Submit, FinalInv
<1>1. /\ UNCHANGED <<told, started, news>> /\ plugin' = r /\ r # 0
      /\ asking' # None /\ asking'[1] = r /\ job[r].at = "none"
      /\ key' = Stored(c, "inprogress") /\ bound[c] # None /\ bound[c] \in AllCodes
  <2>1. bound[c] # None /\ bound[c] \in AllCodes
    BY DEF Submit, Types, PhoneTypes
  <2>2. Queued(r) # None /\ Queued(r)[1] = r
    <3>1. Queued(r) \in Runs \X BOOLEAN /\ Queued(r)[1] = r
      BY DEF Queued
    <3>2. QED
      BY <3>1, NoneIsNothingElse
  <2>3. r # 0
    BY TrainingConstants DEF Runs
  <2>4. QED
    BY <2>1, <2>2, <2>3 DEF Submit, Unused
<1>2. Final(k) /\ k # NoCode
  BY TrainingConstants DEF FinalInv, Types, RestTypes, Codes, NoCode
<1>3. job' = [job EXCEPT ![r] = [NoJob EXCEPT !.conn = c, !.of = bound[c], !.code = CodeOf(c)]]
  BY DEF Submit
<1>4. job'[r].code = CodeOf(c) /\ \A s \in Runs \ {r} : job'[s] = job[s]
  BY <1>3 DEF Types, NoJob
<1>5. CodeOf(c) # k
  <2>1. CodeOf(c) = IF key[bound[c]] = None THEN NoCode ELSE key[bound[c]].code
    BY DEF CodeOf, Merged
  <2>2. QED
    BY <1>1, <1>2, <2>1 DEF Final
<1>6. \A i \in AllCodes : key'[i] # None => key'[i].code # k
  BY <1>1, <1>2, StoredFinal DEF Final, States
<1>7. ASSUME NEW s \in Runs, Engaged(s)' PROVE job'[s].code # k
  <2>1. CASE s = r
    BY <2>1, <1>4, <1>5
  <2>2. CASE s # r
    <3>1. Engaged(s)
      BY <1>1, <1>4, <1>7, <2>2 DEF Engaged
    <3>2. QED
      BY <1>2, <1>4, <2>2, <3>1 DEF Final
  <2>3. QED
    BY <2>1, <2>2
<1>8. QED
  BY <1>1, <1>2, <1>4, <1>5, <1>6, <1>7 DEF Final

\* A result is handled while its run is engaged, so that the run of the plugin
\* has no code of a canceled training.
LEMMA HandleFinal ==
  ASSUME Types, FinalInv, NEW r \in Runs, Handle(r)
  PROVE  FinalInv'
<1> SUFFICES ASSUME NEW k \in canceled PROVE Final(k)'
  BY DEF Handle, aiVars, FinalInv
<1> DEFINE w == plugin
<1>1. /\ UNCHANGED <<plugin, asking, job, started, told>> /\ news' = news \ {r}
      /\ r \in news
  BY DEF Handle, envVars
<1>2. Final(k)
  BY DEF FinalInv
<1>3. \A s \in Runs : Same(s) /\ (Engaged(s)' => Engaged(s))
  BY <1>1 DEF Same, Engaged
<1>4. w # 0 /\ w \in Runs
  BY <1>1, Numbers DEF Types, PluginTypes
<1>5. job[w].code # k
  BY <1>1, <1>2, <1>4 DEF Final, Engaged
<1>6. \A i \in AllCodes : key'[i] # None => key'[i] = key[i] \/ key'[i].code # k
  <2>1. CASE UNCHANGED key
    BY <2>1
  <2>2. CASE Retrained(w)
    BY <2>2, <1>5 DEF Retrained, Wanted, Types, KeyTypes
  <2>3. CASE Trained(w)
    BY <2>3 DEF Trained
  <2>4. QED
    BY <2>1, <2>2, <2>3 DEF Handle
<1>7. QED
  BY <1>1, <1>2, <1>3, <1>6, FinalKept

\* What a job posts is about its code, and it is engaged.
LEMMA JobStepFinal ==
  ASSUME Types, FinalInv, NEW r \in Runs, JobStep(r)
  PROVE  FinalInv'
<1>1. /\ UNCHANGED <<key, asking, plugin, started>> /\ news' \in {news, news \cup {r}}
      /\ \A s \in Runs \ {r} : job'[s] = job[s]
      /\ Same(r) /\ Engaged(r)
  BY JobQuiet, JobMoves DEF Quiet, keyVars, Engaged
<1>2. UNCHANGED canceled
  BY DEF JobStep, Only, aiVars, Greet, Tell, Posted, Mark, Load, Pack, PackFailed, PackRefused,
         Handover, Processed, Assess, Count, Remark, Forget, Publish, Break
<1>3. \A k \in AllCodes : k # job[r].code => told'[k] = told[k]
  <2>1. ASSUME NEW h \in BOOLEAN, NEW s \in Statuses, Posted(job[r].code, s, h)
        PROVE  \A k \in AllCodes : k # job[r].code => told'[k] = told[k]
    BY <2>1 DEF Posted, Types, RestTypes
  <2>2. ASSUME NEW h \in BOOLEAN, Greet(r, h)
        PROVE  \A k \in AllCodes : k # job[r].code => told'[k] = told[k]
    BY <2>1, <2>2 DEF Greet, Statuses
  <2>3. ASSUME NEW h \in BOOLEAN, Tell(r, h)
        PROVE  \A k \in AllCodes : k # job[r].code => told'[k] = told[k]
    BY <2>1, <2>3 DEF Tell, Types, JobSet
  <2>4. QED
    BY <2>2, <2>3 DEF JobStep, Only, aiVars, Mark, Load, Pack, PackFailed, PackRefused,
       Handover, Processed, Assess, Count, Remark, Forget, Publish, Break
<1>4. \A s \in Runs : Same(s) /\ (Engaged(s)' => Engaged(s))
  BY <1>1 DEF Same, Engaged
<1>5. ASSUME NEW k \in canceled PROVE Final(k)'
  <2>1. Final(k) /\ k \in AllCodes
    BY DEF FinalInv, Types, RestTypes, AllCodes
  <2>2. told'[k] = told[k]
    BY <1>1, <1>3, <2>1 DEF Final
  <2>3. QED
    BY <1>1, <1>4, <2>1, <2>2, FinalKept
<1>6. QED
  BY <1>2, <1>5 DEF FinalInv

\* The keys of a new connection, of news and of a key that ran out have no new
\* codes, and the code of a new request was never used.
LEMMA EnvFinal ==
  ASSUME Types, FinalInv,
         \/ \E k \in Codes : Start(k)
         \/ \E k \in AllCodes : Lost(k) \/ Expire(k)
         \/ \E c \in Conns, k \in AllCodes \cup {None} : Connect(c, k)
         \/ \E c \in Conns, k \in AllCodes : News(c, k)
         \/ \E c \in Conns, n \in 1..Need : SendSome(c, n)
  PROVE  FinalInv'
<1> SUFFICES ASSUME NEW k \in canceled PROVE Final(k)'
  BY DEF aiVars, FinalInv, Start, Lost, Expire, Connect, News, SendSome
<1>1. /\ UNCHANGED <<told, plugin, asking, news, job>>
  BY DEF pluginVars, Start, Lost, Expire, Connect, News, SendSome
<1>2. \A r \in Runs : Same(r) /\ (Engaged(r)' => Engaged(r))
  BY <1>1 DEF Same, Engaged
<1>3. Final(k) /\ k \in Codes /\ started \in Nat
  BY TrainingConstants DEF FinalInv, Types, RestTypes
<1>4. ASSUME NEW i \in Codes, Start(i) PROVE Final(k)'
  <2>1. started' = started + 1 /\ i = started + 1 /\ key' = [key EXCEPT ![i] = Wanted(i)]
    BY <1>4 DEF Start
  <2>2. i # k
    BY <1>3, <2>1, TrainingConstants DEF Final, Codes
  <2>3. \A j \in AllCodes : key'[j] # None => key'[j] = key[j] \/ key'[j].code # k
    BY <2>1, <2>2 DEF Wanted, Types, KeyTypes
  <2>4. QED
    BY <1>1, <1>2, <1>3, <2>1, <2>3, FinalKept
<1>5. ASSUME \A i \in AllCodes : key'[i] # None => key'[i] = key[i], started' = started
      PROVE  Final(k)'
  BY <1>1, <1>2, <1>3, <1>5, FinalKept
<1>6. CASE \E i \in AllCodes : Lost(i) \/ Expire(i)
  BY <1>5, <1>6 DEF Lost, Expire, envVars, Types, KeyTypes
<1>7. CASE \E c \in Conns, i \in AllCodes \cup {None} : Connect(c, i)
  BY <1>5, <1>7 DEF Connect, envVars
<1>8. CASE \/ \E c \in Conns, i \in AllCodes : News(c, i)
           \/ \E c \in Conns, n \in 1..Need : SendSome(c, n)
  BY <1>5, <1>8 DEF News, SendSome, envVars, keyVars
<1>9. QED
  BY <1>4, <1>6, <1>7, <1>8

LEMMA NextFinal ==
  ASSUME Types, CodeInv, FinalInv, [Next]_vars
  PROVE  FinalInv'
<1>1. CASE UNCHANGED vars
  BY <1>1 DEF vars, keyVars, pluginVars, aiVars, envVars, FinalInv, Final, Engaged
<1>2. CASE Enqueue
  <2>1. /\ asking # None /\ asking[1] \in Runs /\ asking' = None
        /\ job' = [job EXCEPT ![asking[1]].at = "greet"]
        /\ UNCHANGED <<told, canceled, started, plugin, key, news>>
    BY <1>2 DEF Enqueue, Types, PluginTypes, keyVars, aiVars, envVars
  <2>2. \A s \in Runs : Same(s) /\ (s # asking[1] => job'[s] = job[s])
    BY <2>1 DEF Same, Types, JobSet
  <2>3. \A s \in Runs : Engaged(s)' => Engaged(s)
    BY <2>1, <2>2 DEF Engaged
  <2>4. QED
    BY <2>1, <2>2, <2>3, FinalKept DEF FinalInv
<1>3. CASE Restart
  <2>1. UNCHANGED <<told, canceled, started, plugin, key, asking, news>>
    BY <1>3, RestartMoves DEF Quiet, keyVars, Restart, aiVars
  <2>2. QED
    BY <1>3, <2>1, RestartMoves, FinalSame DEF FinalInv
<1>4. ASSUME NEW c \in Conns, Cancel(c) \/ Drop(c) \/ Close(c) \/ \E n \in 1..Need : SendRefused(c, n)
      PROVE  FinalInv'
  <2>1. UNCHANGED <<started, plugin, news, asking, job>> /\ Free
    BY <1>4 DEF Cancel, Drop, Close, Closed, SendRefused, Sending, pluginVars
  <2>2. Abandon(c) \/ Leave(c) \/ UNCHANGED <<told, canceled, key>>
    BY <1>4 DEF Cancel, Drop, Close, Closed, SendRefused, aiVars
  <2>3. CASE UNCHANGED <<told, canceled, key>>
    BY <2>1, <2>3, FinalSame DEF FinalInv, Same
  <2>4. QED
    BY <2>1, <2>2, <2>3, AbandonFinal, LeaveFinal
<1>5. ASSUME NEW c \in Conns, ConnStep(c) PROVE FinalInv'
  BY <1>4, <1>5, EnvFinal, SubmitFinal DEF ConnStep
<1>6. CASE Next
  BY <1>2, <1>3, <1>5, <1>6, EnvFinal, HandleFinal, JobStepFinal DEF Next
<1>7. QED
  BY <1>1, <1>6

\* What the AI heard of a training that was canceled while no run was under way
\* is the last it hears of it, whatever the numbers of codes, runs and faults.
THEOREM CanceledIsFinal == Spec => []CanceledStays
<1>1. Init => FinalInv
  BY DEF Init, FinalInv
<1>2. Types /\ CodeInv /\ FinalInv /\ [Next]_vars => FinalInv'
  BY NextFinal
<1>3. Types /\ CodeInv /\ [Next]_vars => CodeInv'
  BY NextCode
<1>4. FinalInv => CanceledStays
  BY DEF FinalInv, Final, CanceledStays
<1>5. QED
  BY <1>1, <1>2, <1>3, <1>4, InitCode, Typed, PTL DEF Spec
=============================================================================
