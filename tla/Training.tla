------------------------------- MODULE Training -------------------------------
(* How a phone's owner is enrolled.  A REST call with a code leaves a key in  *)
(* Redis (BioauthFlow.start_training); the flow of the phone adopts it and    *)
(* asks the phone for samples; the plugin queues a training job, which tells  *)
(* the AI service what becomes of the training while the server hears of the  *)
(* result through Redis, and starts it again if more samples are needed.      *)
(*                                                                            *)
(* One phone with its connections, one at a time; the flow object of an old   *)
(* connection lives as long as a job may still report to it.  A run is one    *)
(* training job (with the face verification plugin a chain of jobs).  Every   *)
(* action of a job is one call to Redis, to the AI or to the algorithm.       *)
(*                                                                            *)
(* The three plugins that can train share the steps and differ in what they   *)
(* guard: the pipeline is the plugin that is enabled.                         *)
EXTENDS Integers, FiniteSets

CONSTANTS MaxCodes,     \* codes the AI asks for a training with, each used once
          MaxConns,     \* websockets the phone opens in turn
          MaxRuns,      \* training jobs
          MaxAttempts,  \* _max_training_attempts
          Need,         \* samples of a training
          MaxTroubles,  \* expired auth keys, faults, and codes and websockets
                        \* after the first, all told
          Pipelines,    \* plugins, of which one is enabled
          None

ASSUME TrainingConstants ==
  /\ MaxCodes \in Nat /\ MaxConns \in Nat /\ MaxRuns \in Nat /\ MaxTroubles \in Nat
  /\ MaxAttempts \in Nat \ {0} /\ Need \in Nat \ {0}
  /\ Pipelines \subseteq {"photo", "openface", "verify"}
  /\ None \notin Int

PR == INSTANCE ProbeRequest

Codes    == 1..MaxCodes
NoCode   == 0 \* None, where a code is expected
AllCodes == Codes \cup {NoCode}
Conns    == 1..MaxConns
Runs     == 1..MaxRuns

VARIABLES
  key,       \* value of a code's auth key, None if it is absent
  inbox,     \* codes whose notification the phone's flow has yet to see
  sub,       \* the connection notifications are routed to, 0 if none
  sock,      \* websocket of a connection: "new", "open" or "closed"
  fsm,       \* state machine of the connection's flow
  bound,     \* the code whose key the flow is bound to, or None
  engine,    \* protocol state: "ready" or "trying"
  request,   \* probe request of the connection, None without a try
  asking,    \* the run the server is about to queue, and whether it found no
             \* retry counter
  plugin,    \* the run whose callback the plugin holds, 0 if none
  job,       \* the runs
  news,      \* runs whose stored result is still to be handled
  answered,  \* runs whose flow was given a result
  tries,     \* training_retries_count of the phone, None if absent
  mark,      \* update_training of the phone
  told,      \* what the AI was last told about a code
  pipeline,  \* the plugin that is enabled
  started,   \* how many codes the AI has used
  expiries,  \* auth keys that reached their TTL
  faults,    \* jobs that broke off, posts that were not heard, worker restarts
  overlap,   \* history: a training was asked for or canceled while a run of the
             \* phone was not over, or a restart came between the two calls
             \* that use up its attempts
  row,       \* history: answers in a row that asked for more samples
  canceled   \* history: codes whose training was canceled while no run of the
             \* phone was under way

phoneVars  == <<sock, fsm, bound, engine, request>>
keyVars    == <<key, inbox, sub>>
pluginVars == <<asking, plugin, news, answered>>
redisVars  == <<tries, mark, row>>
aiVars     == <<told, canceled>>
envVars    == <<pipeline, started, expiries, faults, overlap>>
vars == <<phoneVars, keyVars, pluginVars, redisVars, job, aiVars, envVars>>

States == {"ready", "training", "inprogress", "done", "canceled"}
Values == [state : States, code : AllCodes]
Stages == {"none", "greet", "mark", "load", "pack",
           "handover", "pipeline", "assess", "count", "forget", "remark",
           "publish", "tell", "done", "lost"}
\* What the AI reads of a training; a success says in words that the face was
\* trained, with templates or without.
Statuses == {"none", "in-progress", "success", "retry", "failed", "canceled"}
Answers  == {"yes", "no", "retry", "unread"}
Errors   == {"none", "samples", "images"}

\* A probe request: how many samples of a type are needed, and are there.
Requests == [need : [PR!TrainingTypes -> Nat], got : [PR!TrainingTypes -> Nat]]

ASSUME NoneIsNothingElse ==
  /\ None \notin Values /\ None \notin Runs \X BOOLEAN /\ None \notin Requests
  /\ None \notin Answers

TrainingTypeOK ==
  /\ key \in [AllCodes -> Values \cup {None}]
  /\ inbox \subseteq AllCodes /\ started \in 0..MaxCodes
  /\ sub \in 0..MaxConns
  /\ sock \in [Conns -> {"new", "open", "closed"}]
  /\ fsm \in [Conns -> States]
  /\ bound \in [Conns -> AllCodes \cup {None}]
  /\ engine \in [Conns -> {"ready", "trying"}]
  /\ request \in [Conns -> Requests \cup {None}]
  /\ asking \in (Runs \X BOOLEAN) \cup {None}
  /\ plugin \in 0..MaxRuns
  /\ job \in [Runs -> [at : Stages, conn : 0..MaxConns, of : AllCodes \cup {None},
                       code : AllCodes, error : Errors,
                       says : Answers \cup {None}, status : Statuses]]
  /\ news \subseteq Runs /\ answered \subseteq Runs
  /\ tries \in Int \cup {None} /\ mark \in BOOLEAN
  /\ told \in [AllCodes -> Statuses]
  /\ pipeline \in Pipelines
  /\ expiries \in 0..MaxTroubles /\ faults \in 0..MaxTroubles
  /\ overlap \in BOOLEAN /\ row \in Nat /\ canceled \subseteq Codes

NoJob == [at |-> "none", conn |-> 0, of |-> None, code |-> NoCode,
          error |-> "none", says |-> None, status |-> "none"]

Init ==
  /\ key = [k \in AllCodes |-> None]
  /\ inbox = {} /\ sub = 0
  /\ sock = [c \in Conns |-> "new"]
  /\ fsm = [c \in Conns |-> "ready"]
  /\ bound = [c \in Conns |-> None]
  /\ engine = [c \in Conns |-> "ready"]
  /\ request = [c \in Conns |-> None]
  /\ asking = None /\ plugin = 0 /\ news = {} /\ answered = {}
  /\ job = [r \in Runs |-> NoJob]
  /\ tries = None /\ mark = FALSE /\ row = 0
  /\ told = [k \in AllCodes |-> "none"]
  /\ pipeline \in Pipelines
  /\ started = 0 /\ expiries = 0 /\ faults = 0
  /\ overlap = FALSE /\ canceled = {}

-----------------------------------------------------------------------------
(* Helpers.                                                                   *)

\* run_training, of which every plugin has a copy, makes two Redis calls: it
\* looks for a retry counter and, if it found none, stores one.
Queued(r) == <<r, tries = None>>
Counter   == IF asking[2] THEN MaxAttempts ELSE tries
\* A further trouble is within the bound.
Extra(n) == IF n = 0 THEN 0 ELSE n - 1
Spare == expiries + faults + Extra(started)
           + Extra(Cardinality({c \in Conns : sock[c] # "new"})) < MaxTroubles
\* The server's thread is in the middle of run_training otherwise.
Free == asking = None

\* Notifications of the phone's keys, if anybody has subscribed to them.
Notice(K) == inbox' = IF sub = 0 THEN inbox ELSE inbox \cup K

\* start_training's value of a key.
Wanted(k) == [state |-> "training", code |-> k]
\* Mutant: the value is replaced by the state alone.
MergedOver(k, s) == [state |-> s, code |-> None]
\* store_data of a state: it is written into the value that is there; a key
\* that is absent is made anew, without a code.
Merged(k, s) == [state |-> s, code |-> IF key[k] = None THEN NoCode ELSE key[k].code]
\* _store_state of a flow: nothing is stored without a key.
Stored(c, s) ==
  IF bound[c] = None THEN key ELSE [key EXCEPT ![bound[c]] = Merged(bound[c], s)]
BoundKeys(c) == {bound[c]} \ {None}
\* Mutant: the flow ends, its key stays.
WithoutNone(b) == key
\* end_auth removes the key of a flow.
Without(b) == [k \in AllCodes |-> IF k = b THEN None ELSE key[k]]

\* Mutant: only a machine that is ready has its phone sent a try.
EnteredFromReady(c, s) ==
  LET try == s = "training" /\ fsm[c] = "ready" /\ engine[c] = "ready" IN
  /\ fsm' = [fsm EXCEPT ![c] = s]
  /\ engine' = IF try THEN [engine EXCEPT ![c] = "trying"] ELSE engine
  /\ request' = IF ~try THEN request
                ELSE [request EXCEPT ![c] =
                        PR!Asked([t \in PR!TrainingTypes |-> Need])]
\* The machine enters the state its key records; a phone that is in training
\* is sent a try, unless its engine is in the middle of one (probetry raises,
\* and the machine has changed its state).
Entered(c, s) ==
  LET try == s = "training" /\ fsm[c] # s /\ engine[c] = "ready" IN
  /\ fsm' = [fsm EXCEPT ![c] = s]
  /\ engine' = IF try THEN [engine EXCEPT ![c] = "trying"] ELSE engine
  /\ request' = IF ~try THEN request
                ELSE [request EXCEPT ![c] =
                        PR!Asked([t \in PR!TrainingTypes |-> Need])]

-----------------------------------------------------------------------------
(* The AI's request and the phone.                                            *)

\* InitialProbeRestHandler: start_training.
Start(k) ==
  /\ Free /\ k = started + 1 /\ (started = 0 \/ Spare)
  /\ started' = k
  /\ key' = [key EXCEPT ![k] = Wanted(k)]
  /\ Notice({k})
  /\ UNCHANGED <<phoneVars, sub, pluginVars, redisVars, job, aiVars, pipeline,
                 expiries, faults, overlap>>

\* A connection gets ready: its flow subscribes, adopts one of the phone's
\* keys, whichever is found first, removes the others and takes the state the
\* key records (set_app_connected, _restore_state).
Connect(c, k) ==
  LET existing == {i \in AllCodes : key[i] # None}
      gone     == existing \ {k} IN
  /\ Free /\ sock[c] = "new" /\ \A d \in Conns : d < c => sock[d] = "closed"
  /\ c = 1 \/ Spare
  /\ k \in existing \/ (existing = {} /\ k = None)
  /\ sock' = [sock EXCEPT ![c] = "open"]
  /\ sub' = c
  /\ bound' = [bound EXCEPT ![c] = k]
  /\ key' = [i \in AllCodes |-> IF i \in gone THEN None ELSE key[i]]
  /\ inbox' = inbox \cup gone
  /\ Entered(c, IF k = None THEN "ready" ELSE key[k].state)
  /\ UNCHANGED <<pluginVars, redisVars, job, aiVars, envVars>>

\* _on_connection_data: a key that is not the flow's own is adopted if it
\* exists; an empty value, of a key that expired or was removed, is dropped.
News(c, k) ==
  LET b == IF bound[c] # k /\ key[k] # None THEN k ELSE bound[c] IN
  /\ Free /\ sub = c /\ k \in inbox
  /\ inbox' = inbox \ {k}
  /\ bound' = [bound EXCEPT ![c] = b]
  /\ IF b = None THEN UNCHANGED <<fsm, engine, request>>
     ELSE IF key[b] = None THEN UNCHANGED <<fsm, engine, request>>
     ELSE Entered(c, key[b].state)
  /\ UNCHANGED <<key, sub, sock, pluginVars, redisVars, job, aiVars, envVars>>

\* A notification without a subscriber is lost.
Lost(k) ==
  /\ sub = 0 /\ k \in inbox
  /\ inbox' = inbox \ {k}
  /\ UNCHANGED <<key, sub, phoneVars, pluginVars, redisVars, job, aiVars, envVars>>

Expire(k) ==
  /\ Free /\ Spare /\ key[k] # None
  /\ expiries' = expiries + 1
  /\ key' = [key EXCEPT ![k] = None]
  /\ Notice({k})
  /\ UNCHANGED <<sub, phoneVars, pluginVars, redisVars, job, aiVars, pipeline, started,
                 faults, overlap>>

\* A run is over when its job has ended or was lost.
Over(r) == job[r].at \in {"done", "lost"}
Unused  == {r \in Runs : job[r].at = "none"}
Busy    == \E r \in Runs \ Unused : ~Over(r) \/ r \in news

\* cancel_auth of a flow that waits for samples: the AI is told, the key is
\* removed, then the machine is canceled and the engine forgets the retries.
Abandon(c) ==
  LET b == bound[c] IN
  /\ told' = IF b \in Codes THEN [told EXCEPT ![b] = "canceled"] ELSE told
  /\ canceled' = IF b \in Codes /\ ~Busy THEN canceled \cup {b} ELSE canceled
  /\ key' = Without(b)
  /\ Notice(BoundKeys(c))
  /\ bound' = [bound EXCEPT ![c] = None]
  /\ fsm' = [fsm EXCEPT ![c] = "canceled"]
  /\ tries' = None
  /\ row' = 0
  /\ overlap' = (overlap \/ Busy)

\* The phone answers a try with 'canceled'.
Cancel(c) ==
  /\ Free /\ sock[c] = "open" /\ engine[c] = "trying"
  /\ engine' = [engine EXCEPT ![c] = "ready"]
  /\ request' = [request EXCEPT ![c] = None]
  /\ IF fsm[c] = "training" THEN Abandon(c)
     ELSE UNCHANGED <<aiVars, key, inbox, bound, fsm, tries, row, overlap>>
  /\ UNCHANGED <<sub, sock, pluginVars, mark, job, pipeline, started, expiries, faults>>

\* shutdown of a flow that is not waiting for samples: its state is stored,
\* though the key may record a later one, and nobody listens any more.
Leave(c) ==
  /\ key' = Stored(c, fsm[c])
  /\ inbox' = inbox \cup BoundKeys(c)
  /\ sub' = 0
  /\ UNCHANGED <<aiVars, bound, fsm, tries, row, overlap>>

\* The phone's websocket is closed.  Cancelling ends with an exception: it
\* sends on the closed websocket, and the flow keeps its subscription.
Drop(c) ==
  /\ Free /\ sock[c] = "open"
  /\ sock' = [sock EXCEPT ![c] = "closed"]
  /\ IF fsm[c] = "training" THEN Abandon(c) /\ UNCHANGED sub ELSE Leave(c)
  /\ UNCHANGED <<engine, request, pluginVars, mark, job, pipeline, started, expiries,
                 faults>>

\* The server closes it: a bye, a timeout, a message it refuses.
Closed(c) ==
  /\ sock' = [sock EXCEPT ![c] = "closed"]
  /\ IF fsm[c] = "training" THEN Abandon(c) /\ sub' = 0 ELSE Leave(c)
  /\ UNCHANGED <<engine, request, pluginVars, mark, job, pipeline, started, expiries,
                 faults>>
Close(c) == Free /\ sock[c] = "open" /\ Closed(c)

-----------------------------------------------------------------------------
(* The samples.                                                               *)

Sending(c) == Free /\ sock[c] = "open" /\ engine[c] = "trying" /\ request[c] # None
Batch(c, k) == PR!Added(request[c], "face", k)

\* Some samples, but not all, or more than were asked for: the engine goes on
\* waiting.
SendSome(c, k) ==
  /\ Sending(c) /\ PR!Accepts(request[c], "face")
  /\ PR!Pending(Batch(c, k), "face", "any")
  /\ request' = [request EXCEPT ![c] = Batch(c, k)]
  /\ UNCHANGED <<sock, fsm, bound, engine, keyVars, pluginVars, redisVars, job, aiVars,
                 envVars>>

\* A message the engine refuses: there is nothing left to send, or the flow has
\* left the training and its machine refuses the samples.
SendRefused(c, k) ==
  /\ Sending(c)
  /\ \/ ~PR!Accepts(request[c], "face")
     \/ fsm[c] # "training" /\ ~PR!Pending(Batch(c, k), "face", "any")
  /\ Closed(c)

\* Mutant: the value is written without looking at what is there.
CodeOfNone(c) == NoCode
\* The code set_auth_training_results reads from its key, after its own store.
CodeOf(c) == Merged(bound[c], "inprogress").code

\* The last samples: the flow goes on to 'inprogress' and run_training takes
\* the plugin's callback and looks for the retry counter.
Submit(c, k, r) ==
  /\ Sending(c) /\ PR!Accepts(request[c], "face") /\ fsm[c] = "training"
  /\ ~PR!Pending(Batch(c, k), "face", "any")
  /\ r \in Unused /\ \A s \in Unused : r <= s
  /\ engine' = [engine EXCEPT ![c] = "ready"]
  /\ request' = [request EXCEPT ![c] = None]
  /\ fsm' = [fsm EXCEPT ![c] = "inprogress"]
  /\ key' = Stored(c, "inprogress") /\ Notice(BoundKeys(c))
  /\ plugin' = r
  /\ asking' = Queued(r)
  /\ job' = [job EXCEPT ![r] = [NoJob EXCEPT !.conn = c, !.of = bound[c],
                                             !.code = CodeOf(c)]]
  /\ overlap' = (overlap \/ Busy)
  /\ UNCHANGED <<sock, bound, sub, news, answered, redisVars, aiVars, pipeline, started,
                 expiries, faults>>

\* run_training goes on: the counter is stored if it was absent, and the job
\* is queued.
Enqueue ==
  /\ asking # None
  /\ tries' = Counter
  /\ job' = [job EXCEPT ![asking[1]].at = "greet"]
  /\ asking' = None
  /\ UNCHANGED <<phoneVars, keyVars, plugin, news, answered, mark, row, aiVars, envVars>>

-----------------------------------------------------------------------------
(* The job.                                                                   *)

At(r, s)   == job[r].at = s
Goes(r, s) == job' = [job EXCEPT ![r].at = s]
Only(changed) == UNCHANGED <<phoneVars, keyVars, pluginVars, pipeline, started, expiries,
                             overlap>> /\ changed

\* A post to the AI is heard or, one of the faults, is not; no job looks at
\* whether it was.
Heard(h) == /\ h \/ Spare
            /\ faults' = IF h THEN faults ELSE faults + 1
Posted(k, s, h) == /\ told' = IF h /\ k \in Codes THEN [told EXCEPT ![k] = s] ELSE told
                   /\ UNCHANGED canceled

Greet(r, h) ==
  /\ At(r, "greet") /\ Heard(h)
  /\ Posted(job[r].code, "in-progress", h)
  /\ Goes(r, "mark")
  /\ Only(UNCHANGED redisVars)

\* Where a job works on the images.
Begin == IF pipeline = "photo" THEN "assess" ELSE "pack"

\* The mark of an earlier training that asked for more samples: the stored
\* templates are loaded to be added to, and the mark is deleted.
Mark(r) ==
  /\ At(r, "mark")
  /\ Goes(r, IF mark THEN "load" ELSE Begin)
  /\ Only(UNCHANGED <<redisVars, aiVars, faults>>)
Load(r) ==
  /\ At(r, "load")
  /\ mark' = FALSE
  /\ Goes(r, Begin)
  /\ Only(UNCHANGED <<tries, row, aiVars, faults>>)

\* An exception that nothing catches before the final block: the job ends and
\* the run is never answered.  Outside of any block are the reading of the
\* templates, the making of the temporary directory, the algorithm of openface
\* and the processes of the verification plugin.
Fragile(r) ==
  \/ job[r].at \in {"load", "pipeline"} \/ At(r, Begin)
  \/ At(r, "assess") /\ pipeline = "openface"
Break(r) ==
  /\ Fragile(r) /\ Spare
  /\ faults' = faults + 1
  /\ Goes(r, "lost")
  /\ Only(UNCHANGED <<redisVars, aiVars>>)

\* The images are saved, or are not.
Pack(r) ==
  /\ At(r, "pack")
  /\ Goes(r, IF pipeline = "openface" THEN "assess" ELSE "handover")
  /\ Only(UNCHANGED <<redisVars, aiVars, faults>>)

\* InitialTrainingStage gives the exception to its final stage as the error of
\* the training; what is stored of it cannot be parsed and is read as False.
PackFailed(r) ==
  /\ At(r, "pack") /\ pipeline = "openface" /\ Spare
  /\ faults' = faults + 1
  /\ job' = [job EXCEPT ![r].at = "count", ![r].error = "images",
                        ![r].says = "no", ![r].status = "success"]
  /\ Only(UNCHANGED <<redisVars, aiVars>>)

\* pre_training_helper ends the training itself: its False is given to the
\* handler of the first process, which takes it for a dictionary and raises.
PackRefused(r) ==
  /\ At(r, "pack") /\ pipeline = "verify" /\ Spare
  /\ faults' = faults + 1
  /\ job' = [job EXCEPT ![r].at = "forget", ![r].says = "unread",
                        ![r].status = "success"]
  /\ Only(UNCHANGED <<redisVars, aiVars>>)

\* TrainingStartProcess.handler: the server starts the processes that work on
\* the images and end in FinalTrainingProcess.
Handover(r) ==
  /\ Free /\ At(r, "handover")
  /\ Goes(r, "pipeline")
  /\ Only(UNCHANGED <<redisVars, aiVars, faults>>)
Processed(r) ==
  /\ At(r, "pipeline")
  /\ Goes(r, "assess")
  /\ Only(UNCHANGED <<redisVars, aiVars, faults>>)

\* What the algorithm may answer: templates, none, a request for more samples,
\* another error, a list of templates and errors whose last item decides the
\* status, or an exception that is caught.
PhotoOutcomes  == {"update", "empty", "raised", "refused", "retry",
                   "update-retry", "retry-update"}
ChainOutcomes  == {"update", "raised"}
StageOutcomes  == {"update", "raised"}
Outcomes == CASE pipeline = "photo"    -> PhotoOutcomes
              [] pipeline = "verify"   -> ChainOutcomes
              [] pipeline = "openface" -> StageOutcomes

Templates(o) == o \in {"update", "update-retry", "retry-update"}
MoreSamples(o) == o \in {"retry", "update-retry", "retry-update"}
\* The status for the AI begins as success, and stays so if there was an exception
\* or the algorithm made nothing: the AI reads that the face was trained.
StatusOf(o) == CASE o = "refused" -> "failed"
                 [] o \in {"retry", "update-retry"} -> "retry"
                 [] OTHER -> "success"

Assess(r, o) ==
  /\ At(r, "assess") /\ o \in Outcomes
  /\ job' = [job EXCEPT ![r].at = IF MoreSamples(o) THEN "count" ELSE "forget",
                        ![r].says = IF Templates(o) THEN "yes" ELSE "no",
                        ![r].error = IF MoreSamples(o) THEN "samples" ELSE "none",
                        ![r].status = StatusOf(o)]
  /\ Only(UNCHANGED <<redisVars, aiVars, faults>>)

Decremented(n) == (IF n = None THEN 0 ELSE n) - 1
\* Mutant: the last attempt is one more.
LastBelow(n) == n < 0
Last(n) == n = 0
\* An error takes an attempt; the last one makes the result a refusal.
Count(r) ==
  LET n == Decremented(tries) IN
  /\ At(r, "count")
  /\ tries' = n
  /\ row' = IF Last(n) THEN row ELSE row + 1
  /\ job' = [job EXCEPT ![r].at = IF Last(n) THEN "forget" ELSE "remark",
                        ![r].says = IF Last(n) \/ job[r].error = "images"
                                    THEN "no" ELSE "retry",
                        ![r].error = "none",
                        ![r].status = IF Last(n) THEN "failed" ELSE @]
  /\ Only(UNCHANGED <<mark, aiVars, faults>>)
Remark(r) ==
  /\ At(r, "remark")
  /\ mark' = TRUE
  /\ Goes(r, "publish")
  /\ Only(UNCHANGED <<tries, row, aiVars, faults>>)
Forget(r) ==
  /\ At(r, "forget")
  /\ tries' = None /\ row' = 0
  /\ Goes(r, "publish")
  /\ Only(UNCHANGED <<mark, aiVars, faults>>)

\* The result is stored first, then the AI is told.
Publish(r) ==
  /\ At(r, "publish")
  /\ news' = news \cup {r}
  /\ Goes(r, "tell")
  /\ UNCHANGED <<phoneVars, keyVars, asking, plugin, answered, redisVars, aiVars, envVars>>
Tell(r, h) ==
  /\ At(r, "tell") /\ Heard(h)
  /\ Posted(job[r].code, job[r].status, h)
  /\ job' = [job EXCEPT ![r].at = "done", ![r].status = "none"]
  /\ Only(UNCHANGED redisVars)

\* A worker that starts removes the jobs that wait, and those that ran are gone.
Restart ==
  /\ Spare /\ faults' = faults + 1
  /\ job' = [r \in Runs |-> IF job[r].at \in {"none", "handover", "done"} THEN job[r]
                            ELSE [job[r] EXCEPT !.at = "lost"]]
  /\ overlap' = (overlap \/ (tries = 0 /\ \E r \in Runs : At(r, "forget")))
  /\ UNCHANGED <<phoneVars, keyVars, pluginVars, redisVars, aiVars, pipeline, started, expiries>>

-----------------------------------------------------------------------------
(* The result.                                                                *)

\* Mutant: nothing starts the training again.
RetrainedNot(w) == UNCHANGED <<key, inbox, fsm, bound>>
\* set_auth_training_results goes on: more samples start the training again,
\* anything else ends it, if the machine is still in progress (it raises
\* otherwise).
Retrained(w) ==
  /\ key' = [key EXCEPT ![job[w].code] = Wanted(job[w].code)]
  /\ Notice({job[w].code})
  /\ UNCHANGED <<fsm, bound>>
Trained(w) ==
  LET c == job[w].conn IN
  IF fsm[c] = "inprogress"
  THEN /\ fsm' = [fsm EXCEPT ![c] = "done"]
       /\ key' = Without(bound[c])
       /\ Notice(BoundKeys(c))
       /\ bound' = [bound EXCEPT ![c] = None]
  ELSE UNCHANGED <<fsm, key, inbox, bound>>

\* _process_probe_results: the run's callback is the plugin's, which calls the
\* callback the plugin holds by now; a flow takes the first call only.
Handle(r) ==
  LET w == plugin IN
  /\ Free /\ r \in news
  /\ news' = news \ {r}
  /\ IF job[r].says = "unread" \/ w \in answered
     THEN UNCHANGED <<answered, key, inbox, fsm, bound>>
     ELSE /\ answered' = answered \cup {w}
          /\ IF job[r].says = "retry" THEN Retrained(w) ELSE Trained(w)
  /\ UNCHANGED <<sub, sock, engine, request, asking, plugin, redisVars, job, aiVars,
                 envVars>>

JobStep(r) ==
  \/ \E h \in BOOLEAN : Greet(r, h) \/ Tell(r, h)
  \/ Mark(r) \/ Load(r)
  \/ Pack(r) \/ PackFailed(r) \/ PackRefused(r) \/ Handover(r) \/ Processed(r)
  \/ \E o \in PhotoOutcomes : Assess(r, o)
  \/ Count(r) \/ Remark(r) \/ Forget(r) \/ Publish(r)
  \/ Break(r)

ConnStep(c) ==
  \/ \E k \in AllCodes \cup {None} : Connect(c, k)
  \/ \E k \in AllCodes : News(c, k)
  \/ Cancel(c) \/ Drop(c) \/ Close(c)
  \/ \E n \in 1..Need : SendSome(c, n) \/ SendRefused(c, n)
                        \/ \E r \in Runs : Submit(c, n, r)

Next ==
  \/ \E k \in Codes : Start(k)
  \/ \E k \in AllCodes : Lost(k) \/ Expire(k)
  \/ \E c \in Conns : ConnStep(c)
  \/ Enqueue
  \/ \E r \in Runs : JobStep(r) \/ Handle(r)
  \/ Restart

Spec == Init /\ [][Next]_vars

ServerStep ==
  \/ Enqueue
  \/ \E c \in Conns, k \in AllCodes : News(c, k)
  \/ \E r \in Runs : Handle(r)
WorkerStep == \E r \in Runs : JobStep(r)

\* The server's loop turns, with what Redis notifies it of, and the workers
\* run; the AI, the phone, the clock and faults are free.
Fairness == WF_vars(ServerStep) /\ WF_vars(WorkerStep)

FairSpec == Spec /\ Fairness

-----------------------------------------------------------------------------
(* Properties.                                                                *)

\* What the AI heard of a canceled training is the last it hears of it, however
\* often the phone comes back and whatever runs of other codes report later,
\* unless a run of the phone was under way when it was canceled: the result of
\* that run may start the training again.
CanceledStays == \A k \in canceled : told[k] = "canceled"

\* The retry counter stays within its bounds and a phone is asked for more
\* samples less than MaxAttempts times in a row, across connections, cancels
\* and worker restarts, with two exceptions.  As long as two runs of the phone
\* overlap, one job decrements what the other one has deleted.  And a worker
\* that restarts between the decrement to 0 and the deletion leaves a 0, below
\* which the later errors count on.
AttemptsKept ==
  ~overlap => /\ row < MaxAttempts
              /\ tries \in 0..MaxAttempts \cup {None}

\* A run carries the code its connection is bound to, whatever keys other
\* connections and late results remove: it loses the code only if an auth key
\* ran out while the phone was taking samples, and then the AI never hears of
\* what became of the training.
CodeKept ==
  \A r \in Runs : job[r].at # "none" /\ job[r].code # job[r].of =>
    job[r].code = NoCode /\ expiries > 0

\* A machine that waits for samples has a try out at its phone, however it came
\* to wait: by a request of the AI, a reconnect or a result that asks for more.
TryIsOut ==
  \A c \in Conns : sock[c] = "open" /\ fsm[c] = "training" =>
    engine[c] = "trying" /\ request[c] # None

\* The machine that gave its samples to a run, while its websocket is open.  (A
\* connection that finds a training in progress when it gets ready is not told of
\* its end.)
Waiting(c) == /\ sock[c] = "open" /\ fsm[c] = "inprogress"
              /\ \E r \in Runs : job[r].conn = c

\* A machine that waits for its run leaves 'inprogress' or is closed, unless a
\* fault loses the run, a key expires or the AI uses a second code meanwhile,
\* whose key moves the machine away from the run and back.  No two machines wait,
\* and another one can wait only after a step at which none does.
RunEnds ==
  (\E c \in Conns : Waiting(c))
    ~> \/ \A c \in Conns : ~Waiting(c)
       \/ faults > 0 \/ expiries > 0 \/ Extra(started) > 0

=============================================================================
