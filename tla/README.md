# TLA+ models of biomio-gate

biomio-gate is the server between a user's browser extensions and his phones. An
extension asks for something that needs the user's biometric consent (a PGP pass
phrase, for instance); the server asks a phone of the user for samples, has them
verified by a worker, and lets the extension's request go on or fail. One tornado
process serves all websockets from one event loop, greenlets wait inside RPCs,
`rq` workers run jobs in other processes, two Redis instances hold what has to
outlive a handler, and MySQL holds the records.

The modules here are translated from the code under `src/`. TLC checks them on
small instances; for each of the eight state machines TLAPS proves the type
invariant and every safety property but one for all values of the constants. Two abstract
specifications say what a component promises to those that use it, and two of the
detailed ones are proved to implement them.

## Inventory

Paths are relative to `src/biomio` unless they start with `src/`.

| component | code | state | operations | hard behaviour | what makes it correct |
|---|---|---|---|---|---|
| biometric authentication flow | `protocol/rpc/bioauthflow.py`, `app_auth_connection.py`, `app_connection_listener.py`, `app_connection_manager.py` | a state machine per connection, the auth key it is bound to, the RPC callback | request, samples, results, cancel, shutdown, news of a key | two machines follow one Redis key through notifications that come later; lookups end late; connections come and go | machines agree with the key; success is earned by a verification, after the request; a request is answered |
| auth keys and notifications | `protocol/storage/`, `protocol/data_stores/app_auth_store.py`, `app_connection_store.py` | keys with a TTL, subscriptions by pattern, lists of applications | store, remove, subscribe, announce | a notification carries a key, not its value; a key expires; a subscription is replaced | no change of state is lost |
| RPC decorator, handler, plugins | `protocol/rpc/rpcutils.py`, `rpc_handler.py`, `plugins/` | greenlets that wait for a flow or a record | authenticated call, plain call | the greenlet resumes later and reads the state of then | an RPC runs only when authenticated, and is always answered |
| session manager | `protocol/sessionmanager.py`, `session.py`, `utils/timeoutqueue.py`, `data_stores/session_data_store.py` | timeout queue, timer, token map, stored protocol states | create, refresh, close, restore, periodic check | timers are started and cancelled from several places; close callbacks call back into the manager; a restart forgets all but Redis | a session that is not refreshed expires, one that is does not |
| protocol engine | `protocol/engine.py`, `third_party/fysom.py` | protocol state, session, flow, decisions under way | handshake, registration, authentication, probe, RPC, bye | decisions wait for a record and overwrite whatever state the engine is in by then; both sides close | only a proven application is served, or one that an RPC's flow let in; an ended engine has closed its websocket |
| connection timeout | `protocol/connectionhandler.py` | time stamps and the connections to close at each | start, stop, check | stop and start are not paired on every path | a silent connection ends, a live one does not |
| websocket handler and REST | `src/main.py` | none of its own | open, message, close; REST handlers that queue jobs and set options | close by either side | see the engine |
| verification jobs | `protocol/probes/plugins/face_photo_plugin/`, and the copy in `face_verify_plugin/` | counter, list, error mark, retries and result in Redis | verification | jobs of one run interleave between Redis calls; one fails while others end; one raises before its `try`; the worker restarts | a verdict is made from all results; nothing is left behind |
| face training | `training_job` and its copies in the photo, openface and verify plugins, the training states of `bioauthflow.py`, the REST handler in `src/main.py` | the code's auth key, retry counter and update mark in Redis, the try out at the phone | start, samples, run, retry, result, cancel | the AI, the phone and a worker act on one key; a run outlives the websocket that asked for it; two runs share a counter | a canceled training stays canceled; attempts are bounded; a run keeps its code; who waits has a try |
| face identification plugin | `protocol/probes/plugins/face_identification_plugin/` | hash index in MySQL, cells loaded into a shared Redis, results and counter of a run | identify, load, score, gather, answer, enrol, update the index | identifications share what they load; updates are several statements; parallel jobs count down | estimates are whole; who is named was enrolled; the rows cover the vectors |
| worker interface | `worker/`, `src/worker.py` | callbacks by code | run job, handle result | a result is cached when its job ends, not when it was read | the callback gets its own result |
| data stores | `protocol/data_stores/` | LRU cache in front of MySQL | store, update, get, delete | eviction, late fills, writes ordered by the workers | cache and database do not mix generations |
| PGP extension plugin | `protocol/rpc/plugins/pgp_extension_plugin/` | key records | pass phrase, public keys, generation | a key is erased when it is handed out, while it is made anew | matching keys; erased keys stay erased |
| probe request, policy engine | `protocol/probes/proberequest.py`, `policy_engine/` | samples per type, conditions per user | request, add sample, evaluate | shared default policy | a try ends with the samples its policy asks for |
| probe plugins | `protocol/probes/plugins/` | settings, one callback per plugin | verify, train, identify | a plugin is one object for all flows | results reach the flow that asked |
| tries simulator | `tries_simulator/` | simulated tries | simulate | none | test aid |
| database | `mysql_storage/` | tables | single statements | a select that fails is noticed by nobody | see identification and data stores |
| image algorithms | `protocol/probes/plugins/*/algorithms` | numeric | - | - | - |
| message format | `protocol/schema.py`, `message.py`, `crypt.py` | none | parse, check, sign | none | - |

How they interact: `main.py` gives each websocket a `BiomioProtocol`; its state
table calls the session manager and the connection timeout directly, and the
flow of a phone, or the RPC handler of an extension, by calls and callbacks.
Flows of the two ends meet only in Redis. Flows and RPCs queue jobs through the
worker interface, whose results come back as Redis notifications and are routed
by a callback code. Data stores do the same for records.

## Modules

| module | models | proofs |
|---|---|---|
| `BioauthFlow` | flows of both ends, auth keys and notifications, waiting and connection lists, the authentication decorator | `BioauthFlowProofs` |
| `SessionManager` | sessions, the queue, timer chains, stored states, restarts | `SessionManagerProofs` |
| `ProtocolEngine` | engines of many connections, connection timers, websockets; it composes with the session manager by `SM == INSTANCE SessionManager` and applies its operators inside its own steps | `ProtocolEngineProofs` |
| `VerificationJobs` | one action per Redis call of a verification job, the plugin's callback, result notifications, worker restarts | `VerificationJobsProofs` |
| `Verification` | abstract: what a verification promises, whatever its jobs and keys do; `V == INSTANCE Verification` in `VerificationJobs` | the refinement, in `VerificationJobsProofs` |
| `ConnectionTimeout` | the queue of connection timers by time stamp, the pending calls of its check, callbacks that raise | `ConnectionTimeoutProofs` |
| `Deadlines` | abstract: who is due when; `D == INSTANCE Deadlines` in `ConnectionTimeout` | the refinement, in `ConnectionTimeoutProofs` |
| `Training` | enrolment of a phone: the AI's request, the flow's training states and keys, the training jobs of three plugins, retries, results | `TrainingProofs` |
| `ProbeRequest` | operators only: what a try asks for and has; `PR == INSTANCE ProbeRequest` in `Training` | used by `TrainingProofs` |
| `Identification` | identifications and enrolments over the hash index in MySQL and its copy in Redis | `IdentificationProofs` |
| `PgpKeys` | one cached record: cache, MySQL, get/update/create jobs, late cache fills, key generation | `PgpKeysProofs` |

The `MC...` modules are the ones TLC runs; the constants are in the `.cfg` files.

### BioauthFlow

A connection `<<app, n>>` is the n-th websocket of an application with its flow
object. `fsm`, `key` and `callback` are the object's attributes, `redis` the value
of the auth keys, `inbox` the notifications the loop has yet to deliver,
`waiting`, `linked` and `online` the lists of `AppConnectionStore`, `lookups` the
database jobs that find related applications, `plugin` the callback the shared
verification plugin holds. `Request` is `_is_biometric_data_valid` up to its
yield and `Resume` what follows it; `ExtNews` and `ProbeNews` are
`_on_connection_data` with `on_state_changed` and the state callbacks it runs;
`OpenProbe`, `FindProbe`, `AnnounceProbe`, `ResetOthers`, `LeaveExt` and
`LeaveProbe` are the two halves of the listener's calls with the lookup between
them; `SendSamples` and `JobDone` are `set_next_auth_result` and
`set_auth_results`; `DropProbe` and `ExpelProbe` the shutdown after a close by
the phone and by the server.

`JobDone` has six outcomes. A verification answers yes, no, an error or the last
retry; an application whose record type asks for an identification gets a text
instead, the id of a user (`named`) or the message that nobody was found
(`nobody`), and `set_next_auth_result` hands any text on as a success.
`CloseUnrequested` is the shutdown of an extension's flow that a notification moved
to `wait` and that never made a request: `on_auth_finished` calls None, and nothing
of the shutdown is done.

History: `earned`, the RPCs that had been issued when a verification was positive or
an identification answered, makes "earned" a statement about what happened, and
when, and not about the value that is passed along. `blind`, the RPCs that are not
their application's first and were issued by a flow that knew no key.

External: how tornado 4.0.2 reports a close that the server began (`Reclose`
chooses whether the handler hears of it). Left out: training (in `Training`),
hybrid applications, messages of a phone after the server's close, push
notifications.

### SessionManager

Operators on a record `m` are the methods (`Created`, `Refreshed`,
`SessionClosed`, `Restored`, `CheckStarted` ...); the actions call them in any
order, which is a client more general than the engine. All sessions live equally
long, so the buckets of `TimeoutQueue` are one sequence. The clock runs forwards.
`lapsed` is history: a session was put into an empty queue by a refresh or a
restore, or a check was broken off by an exception, and these are the
exceptions the properties `Watched` and `Expires` name.

### ProtocolEngine

A handler is a function of `x = [e, m, raised]`: engine, session manager and
"an exception has ended it". The functions compose in the order of the calls
(`Stopped`, `Refreshed`, `Moved`, `Entered`, `Finished`). A decision that waits
for a record is two actions, `Hello`/`HelloDecided` and `Auth`/`AuthDecided`, with
everything else between them; `Moved` overwrites the state as fysom's `goto` does.
`waits` is what the flow's machine says at that moment and is left open. An RPC is
served in every state, from a connection that has proved nothing or is disconnected
too, and may give it a flow (`Rpc`); when that flow is cancelled, the engine is ready
(`CancelAuth`). The shutdown of a phone's flow raises when the phone cannot be told,
that of an extension's flow when it waits without an RPC (`FlowOver`). Session
0 is the temporary session that signs a `bye`. Message contents are abstract:
each message is good or bad. What the flows of a connection do is in `BioauthFlow`; here
they are one, and what they ask of the engine is left open.

History: `proved` (its key or secret was verified), `lifted` (a flow's cancellation made
an unproven engine ready), `stranded` (the shutdown of an extension's flow raised
before the server had closed the websocket).

### VerificationJobs

`Ask` and `Enqueue` are the two halves of `run_verification`: between its check of
the retry counter and its store a job may decrement or delete that counter. A job
goes through the stages `queued, ended, append, count, gather, report, retry,
forget, clear, drop, publish`, one per Redis call of `verification_job` and
`store_verification_results`. Of the list of results the model keeps what the
verdict is made of: how many there are and how many are positive. The actions on one key are atomic because Redis is.
The error mark lives 300 s, longer than the jobs of a run, and does not expire in
the model. `Break(j)` is an exception before the `try` of the job (the database
lookup, the temporary directory): it does not count down, and the run is never
answered, which `RunAnswered` names. `Restart` is `src/worker.py`: a starting worker removes the waiting
jobs, and those that were running died with the old one.

`Verification` knows of no jobs: a run is `Ask`ed for, each of its samples is
`Judge`d once, and the run is `Tell`-ed once, with a verdict the judgements bear out
(`BornOut`): a "yes" when at least half of all samples were accepted and none
failed, a "no" when that is not so or in the place of an error, "error" and "max" when
a sample failed. The mapping: a run is open from its start to its callback
(`Phase`), a vote is what a job has seen (`saw`), the holder is the plugin's callback.
Everything between, counters, lists, error marks, retries and restarts, stutters.
That a run is told to whoever asked last is part of the abstract specification,
because it is what the code does; `JobsOwn` shows what a caller makes of that.

### ConnectionTimeout

`order` and `entries` are the `OrderedDict` of `TimeoutQueue`: its keys as they were
inserted, and how often a connection is in the list of a key. `timers` counts the
calls of the check that are pending, by the time stamp each was made for; a stop
cancels none of them. `Start`, `Stop`, `StartCheck`, `EndCheck` are
`start_connection_timer`, `stop_connection_timer`, the check up to its loop and
`_run_timer`. `Close` and `CallbackRaises` are one turn of that loop with
`close_connection`, which stops the timer of the connection before it says bye and can
fail at that. Handlers start and stop timers in any order and number, which is more
general than the engine, whose paths do not pair them. `Tick` is the clock, in
seconds: it does not pass a call that is pending, as the loop is not late.
`ProtocolEngine` keeps its own abstraction of the timers, entries per connection and
an alarm at any time.

`Deadlines` is a table of who is due when: a check gives up all that are due by some
time at most `CheckRange` ahead and nobody else, a timer is withdrawn from the
earliest deadline of its connection, and time does not pass a deadline unless a
callback has failed since the table was last empty.

History: `last` (when a connection was last started), `doubled` (it was queued
already when it was), `lapsed` (a callback has raised since the queue was empty).

### PgpKeys

One record, `[pass, priv]`, each field named by the generation of the key pair it
belongs to. `Hit`, `Miss`, `Fetch`, `Fill`, `Resume` are `get_store_data` with the job
it may need and the later turn of the loop in which the greenlet goes on; `Reply`
is the rest of `get_pass_phrase`. `ErasedIn`, `updates` and `creates` are
`_store_lru_data`. Jobs are not ordered. External: pony refuses to create a
record whose required `user` is missing.

### Training

One phone and the codes the AI asks for a training with, one after the other.
`Start` is the REST handler with `start_training`: it leaves the key `[state, code]`
of the code. `Connect`, `News`, `Cancel`, `Drop`, `Close` are the flow of one of the
phone's websockets: it adopts the first key it finds and removes the others,
follows the state its key records, and, when it is closed, stores its state into
the key again. `Entered` is the whole of a transition to a stored state, with the
try the engine sends. `SendSome`, `SendRefused`, `Submit` are a message with samples:
the engine asks `ProbeRequest` whether it goes on waiting. `Submit` and `Enqueue` are
the two Redis calls of `run_training`: the look at the retry counter and the store.

A run is a training job, one action per call: `Greet` (the AI is told), `Mark` and
`Load` (templates of an earlier training), `Pack`, `Handover`, `Processed`, `Assess`
(the algorithm answers), `Count`, `Remark`, `Forget` (retries), `Publish`, `Tell`.
`pipeline` says which plugin is enabled; the three share the steps and differ in
what they guard: which exceptions are caught (`Fragile`), what the algorithm may
answer (`Outcomes`), whether the work is one job or a chain through the server
(`Handover`). `Handle` is the result at the server, where the run's callback is
whatever callback the plugin holds by then, and the flow takes the first answer only.

`StatusOf` is the status the job tells the AI: it begins as a success and stays so
when an exception was caught or the algorithm made nothing.

History: `overlap`, a training was asked for or cancelled while a run was not over,
or a worker was restarted between the two calls that use up the attempts; `row`,
answers in a row that asked for more samples; `canceled`, codes whose training was
canceled while no run of the phone was under way.

### Identification

An identification is a chain of jobs (`Identify`, `Begin`, `Prepare`, `LoadUsers`,
`Spread`), then one job per cluster of the samples (`SelectOwners`, `SelectBuckets`,
`Load` and `Put` for each cell, `Score`, `Append`, `Count`, `Gather`), then the estimate
(`Finish`, `Answer`). An enrolment (`Enrol`, `Greet`, `InitUpdate`) makes one update per
cluster: `SelectOwned`, `SelectHash`, `Strip`, `Disown`, `Drop`, `Write`, `Own`, each
one statement of its own. `Break`, `JobBreak`, `UpdateBreak`, `EnrolBreak` are jobs that
raise, `SelectHash(FALSE)` is a select whose failure is noticed only after the rows are
gone, `Restart` is a worker that starts. `Identify` and `Enrol` both put their callback
into the one plugin object; `plugin` is the run whose flow it answers, 0 once an
enrolment has replaced it.

Of the faces the model keeps which buckets they fall into: a cell is a pair of a
cluster and a number, a vector is a user in a cell. Buckets of different clusters
are disjoint because a cluster's number is part of the projection's name.

History: `stored` (every vector ever written), `messy` (clusters where two updates
overlapped or one failed half way), `disturbed` (runs during whose jobs the index
changed or another run loaded cells).

## Runs

| run | instance | question | result |
|---|---|---|---|
| `BioauthPair` | 1 extension, 1 phone, 1 RPC, 1 failed verification, 1 expiry | do flows and key agree, is success earned, is an RPC answered? | holds |
| `BioauthReconnect` | a second connection of the phone, opened while the old websocket is open, or of the extension, or a second RPC; no expiry, no failed verification | does the late end of the old connection disturb the new one, and is no RPC completed by a verdict given before it was asked? | holds |
| `BioauthMaxRetries` | as `BioauthPair`, no retry, no expiry | are used-up retries reported? | violated |
| `BioauthDrop` | as `BioauthPair`, no retry, no expiry | is the RPC answered when the phone drops? | violated |
| `Sessions` | 2 sessions, 2 restarts | queue, timers, expiry | holds |
| `EnginePhone` | 1 phone or 1 extension, 2 sessions, 5 messages | all engine properties | holds |
| `Jobs` | 1 run of 3 samples, 1 attempt, 1 restart or broken job | verdicts, leftovers, answers, the promises of `Verification` | holds |
| `Timeouts` | 2 connections, a timeout of 3 s, checks 1 s early, 6 s, 5 starts | is everybody given up in time, nobody early? | holds |
| `JobsOwn` | 2 phones, 2 runs | does a callback get its own result? | violated |
| `PgpKeys` | 3 calls, 2 new generations | do keys match and stay erased? | holds |
| `Training` | 2 codes, 2 websockets, 2 runs of 2 samples, 2 attempts, 1 trouble, 3 plugins | is a training canceled for good, bounded, kept and ended? | holds |
| `Identification` | 2 users, 3 cells in 2 clusters, 2 of 4 activities or 1 and a fault | is an estimate whole, is who is named enrolled, does the index hold together? | holds |

Properties, by module:

- `StateIsPublished`: a flow whose notifications are all seen is in the state its
  key records, but for a phone whose retry was refused and an extension's flow whose
  cancellation had nobody to call. `SucceedIsEarned`: no flow and no key shows
  success before a verification was positive or an identification answered.
  `CompleteIsEarned`: an RPC completes only if that happened after it was issued. Two
  ways past it were found and are named in the property: an RPC that is not its
  application's first, issued while its flow knows no key (`blind`), is answered by
  what the key still says of an earlier one, and a phone that goes away stores the
  success of an earlier RPC over the `wait` of the next. `Answered`: an RPC that
  nothing interrupts ends; `Interrupted` lists the known causes.
- `QueuedOnce`, `Watched`, `Expires`: a session is in the queue once, a queue that
  is not empty has a timer, a session that stays is being refreshed.
- `SessionNeeded`, `Proven`: an engine that goes on has a session, and one that is
  served on an open websocket has proved who it is. Both name the one exception, an
  engine in a state of a probe that was made ready by the cancellation of an RPC's
  flow (`Lifted`). `DisconnectedCloses`: an ended engine has closed its websocket,
  unless an extension's flow raised (`stranded`). `SessionRunsOut`: the session of an
  open connection, made by it and held by it alone, waits to expire. `SilentEnds`: so
  the connection ends when the client falls silent.
- `VerdictIsEarned`: a positive verdict, wherever it is, was gathered from all
  results of its run. `NothingLeft`: when all jobs of a run are done and its news is
  handled, Redis and the server hold nothing of it. `RunAnswered`.
  `ImplementsVerification`: every step of the jobs is a step of `Verification` or none.
  It says more than `VerdictIsEarned`: a refusal and an error are borne out too, a run
  is told once, and no sample is judged afterwards.
- `OnTime`: while no callback has raised, no connection is in the queue past its
  deadline. `NotEarly`: who is given up was last started a timeout ago, less the
  check range, unless he was started while he was queued: the stop that follows
  then removes one of his two entries. `ImplementsDeadlines`.
- `Matched`: a pass phrase is never handed out with another generation's private
  key. `Erased`: when the jobs are done, MySQL holds no private key that was handed
  out, unless an erasure met an empty cache and its create job was refused.
  `CallAnswered`.
- `CanceledStays`: what the AI heard of a canceled training is the last it hears of it,
  however the phone reconnects and whatever runs of another code report, unless a run
  was under way at the cancel: its result may start the training again.
  `AttemptsKept`: without overlap, the retry counter stays in
  `0..MaxAttempts` and fewer than `MaxAttempts` answers in a row ask for more samples.
  `CodeKept`: a run carries the code of the key its connection is bound to; only an
  expired key takes it away. `TryIsOut`: a machine that waits for samples has a try
  out at its phone. `RunEnds`: a machine that waits for its run is answered.
- `WholeEstimate`: an estimate has the results of all clusters of its run, and
  Redis holds nothing more of it. `FoundWasStored`: who is named has had a vector in
  a bucket of the samples. `Indexed`: a vector has a row of its user, so that the
  next enrolment finds it. `NobodyMissed`: an undisturbed job finds every user of
  the provider that is in a bucket of the samples. `IdentAnswered`: the flow whose
  callback the plugin holds is answered, unless there was a fault, no cluster was
  found in its samples, or an enrolment took the plugin.

### Violations

Each is a disagreement between the code and what its comments, tests or own
tables say; `PROJECT.json` quotes both sides.

- `BioauthMaxRetries`: the callback of used-up retries is filed under
  `onauth_max_retries`, while the machine looks for `onmax_auth_retries_reached`.
  The extension's RPC waits for ever.
- `BioauthDrop`: a phone that drops during a try makes the shutdown send on a
  closed websocket; the exception comes before the state is stored, and the
  extension is not told.
- `JobsOwn`: the callback registered with the worker interface is the plugin's
  `_probe_callback`, which calls whatever callback the plugin holds by then.

More was met while modelling. It is in the models, as what the code does, without a
run of its own:

- The news that an auth key has expired is dropped (`ProbeNews`, `ExtNews`, `News`), so
  the five minutes the engine announces end without an answer. A training whose key
  expires loses its code, and the AI hears nothing more.
- A client that comes back with its token is never put into the state it left
  (`RestoreState`).
- An erasure that finds no cached record becomes a create job, which is refused; the
  private key stays in MySQL (`Reply`, `Create`).
- A worker killed between the decrement of the retry counter to 0 and its deletion
  (`face_photo_jobs.py:291` and `:294`, `Count` and `Forget`) leaves a 0; later errors
  count below it, never meet 0, and the phone is asked for samples without end. The
  run's bounds reach the restart, not its consequence: the proof of `AttemptsKept`
  asked for the exception.
- The status for the AI begins as a success, so that an exception that is caught is
  told as one, though no templates are stored: the AI reads "successfully trained"
  (`StatusOf`, `face_photo_jobs.py:174`). No property is stated about it.
- Any text a plugin answers is a success for the flow (`bioauthflow.py:387`), so that an
  RPC of a user whose record type asks for an identification is run after "any userID
  not found" too (`Outcome`).
- An RPC is served on a connection in any state (`engine.py:601`). A connection that has
  proved nothing gets a flow by the type its header names, and is ready when that flow
  is cancelled (`engine.py:898`; `Rpc`, `CancelAuth`, `lifted`).
- An extension's flow that waits without an RPC calls None on its shutdown
  (`bioauthflow.py:137`): the flow stays subscribed, and a websocket that the server was
  about to close stays open (`CloseUnrequested`, `FlowOver`, `stranded`).
- An RPC can be answered by an earlier one's success in the two ways
  `CompleteIsEarned` names.
- An identification whose plugin object is given to an enrolment, or to a later
  identification, is never answered (`Enrol`, `Identify`).
- A machine that is asked for more samples after it has left the training, and a
  connection that finds a training in progress, are not told of the end of the run.
- The callback of an enrolment for identification looks for `userID` in its result
  (`iden_pa_interface.py:45`), which is not there: it raises, and the flow that asked
  for the enrolment is never answered (`Enrol` has no answer).
- Nobody found is an ordinary string, "any userID not found", that the flow takes for
  an answer (`final_ident_process.py:30`, `Nobody`).
- The first enrolment of a user writes its rows but no `hash_data`
  (`algo_hash_redis_store.py:58` and `:86`): there are rows without vectors, which is
  why `Init` has them and `Indexed` goes one way only.
- A callback that raises in the check of the connection timeout takes the others of
  the check with it: they are in no list any more. Unless another call is pending, the
  check is scheduled again only by a start that finds the queue empty (`CallbackRaises`, `lapsed`).

### Bounds

Flows of different users do not share keys, so one extension and one phone meet
all the code of a request; a second connection of the phone (`Overlap`) brings the
races of a reconnect. Two sessions are enough for a batch of expired sessions
with another one behind it, two restarts for a state stored before one and
restored after the next. Five messages take a phone through handshake,
authentication, resources and a probe, or an RPC in any state before it; `EnginePhone`
opens one of two connections, a phone or an extension (337 thousand states). A second
extension connection (`BioauthReconnect`, 2.5 million states) is what makes a flow wait
without an RPC of its own: it is told of the old one's key. Two extensions that
share a session by its token were explored too (1.2 million states, no violation);
that case is in the theorems, which hold for any set of connections. Three samples let one job fail, one append
late and one finish; the code compares the counter with zero only. Two runs of one phone with two samples
were explored too, without restarts (4.3 million states). Three calls and two
generations give a stale fill, an erasure and a second hand-out in one behaviour.
Two codes and two websockets let a connection adopt one key and remove another, two
runs let a late result meet another's callback, two attempts let a retry succeed,
fail or be the last; two samples let a message be incomplete. Two clusters, one of
them with two buckets, make a run gather, let a vector move between buckets and
leave the other cluster alone. `MaxTroubles` and `MaxAgain` cap the sum of what can go
wrong and of what is begun again, so that each trouble is met in every place but no
two of them together; `Training` was also explored with two troubles (one attempt,
one sample, one plugin; 2.1 million states), which is where the restart between two
calls shows.
Five starts of two connections and six seconds with a timeout of three let a check be
due while another one is pending, a connection be queued twice and removed once, and
a list be taken early.
`CHECK_DEADLOCK FALSE` is set in every run because connections end, RPCs end and
the bounded tokens, runs and generations are used up.

| bound | what it caps |
|---|---|
| `MaxExtConns`, `MaxProbeConns` | websockets an application opens in turn |
| `MaxRpcs` | RPCs of a connection |
| `MaxAgain` | connections and RPCs after the first, all told |
| `MaxRetries`, `MaxExpiries` | failed verifications; keys that expire |
| `MaxRestarts` | restarts of the server or of the worker |
| `MaxOpen`, `MaxSessions`, `MaxMessages` | connections that are opened; sessions made by handshakes; messages of a connection |
| `MaxAttempts` | the code's `_max_verification_attempts` |
| `MaxGenerations` | key pairs after the first |
| `MaxCodes`, `MaxConns`, `MaxRuns` (`Training`) | codes of the AI, websockets of the phone, training jobs |
| `Need` | samples of a training |
| `MaxRuns`, `MaxEnrols` (`Identification`) | identifications and enrolments |
| `MaxRows`, `MaxHashed` | rows of the index at first; cells of all samples and vectors |
| `MaxNow`, `MaxStarts` | the clock; the timers that are started |
| `MaxTroubles` | expired keys, faults, restarts, and what is begun after the first |

### Fairness

Weak fairness for what the event loop, Redis and a running worker do once it can
be done: notifications, finished lookups, resumed greenlets, steps of jobs,
handling of results. In `BioauthFlow` it is one condition for all of the server's
steps together (`ServerStep`): something that is due is done, in any order. In `SessionManager` and `ProtocolEngine` the start of a check
that finds something expired is strongly fair: the head of the queue may be
refreshed away between two checks, and time passes between any two of them.
In `Training` and `Identification` there are two conditions: the server's loop turns
(`ServerStep`: notifications, results, the second half of `run_training`) and some
worker runs some step of some job (`WorkerStep`; the jobs are finite, so none starves).
`BioauthFlow!UserFairness` adds a user who opens his application and reacts; the
property `Answered` says so in its comment, and nothing else uses it. No run
assumes that a client sends messages, connects again, closes or cancels, that a
key expires, or that anything is restarted, evicted or fails.

## Proofs

`BioauthFlowProofs` (any sets of applications, any bounds):

- `TypeCorrect`, one step per action.
- `SuccessIsEarned`: before the first positive result, or text of an identification,
  there is no success in any machine or key. `CompletionIsEarned` draws from it that
  no RPC completes before that (`CompleteAfterResult`). That the result came after the
  own RPC was issued, `CompleteIsEarned`, is model-checked only.
- `Published`: `StateIsPublished` is not inductive. The invariant adds where
  notifications go (an application's subscriber is one of its own connections and
  bound to keys of its own), so that a write to a key is always seen, or about to be
  seen, by the other end. The lemmas `RewriteKeeps`, `SilenceKeeps` and
  `WriterAgrees` say what one write does to a flow that did not make it, to a flow
  nobody notifies, and to the writer.

`SessionManagerProofs` (any set of sessions, any number of restarts): the
invariant is `Good(sm)`, a conjunction of typing, "a timer that can be cancelled is
pending" (`Cancellable`), "a queue that is not empty is looked at" (`Looks`), "queued
sessions have their object" (`Alive`) and `Distinct`. There is one lemma for each method:
it preserves `Good`. `RemovedPlaces`, `RemovedProperties`, `ConcatPrefix` and `SuffixPlaces`
are the lemmas on sequences they rest on. A second family of lemmas (`Leaves`, `Waits`)
says what a method does to the sessions it is not about; the engine's proofs use both.

`ProtocolEngineProofs` (any set of connections, any phones, sessions and messages):
the five safety properties of the engines from one invariant. `SameMethods` and
`SameCheck` identify the engine's instance of the session manager with that of
`SessionManagerProofs`, whose lemmas are taken over with no restart.

- `EnginesTyped`, `SessionIsThere`, `ServedAreProven` and `DisconnectedHasClosed` from
  `Sound`, what one engine is entitled to: whoever acts or has a decision pending has a
  session; the session of a connection that can receive has its object; a served state
  on an open websocket means the connection has proved who it is or was `Lifted`. The
  way out of the states of a probe is the end of the connection, or a decision that
  was pending and so has a session, which is why nothing more is lifted.
- `OpenSessionsWait`: `SessionRunsOut` is not inductive, since another connection that
  restored the session can close it or take its callback away. `Held` adds that an
  open connection whose session does not wait, or would call nobody, shares it with
  an engine that can never change its session again (`Gone`). `Owners` says that a
  callback leads to an opened engine.
- A handler is a function of runs `x`, and its parts are composed: `Carries` is what
  every part guarantees (`CarriesCompose`), `MovedCarries`, `ByeCarries` and
  `ConnectionClosedCarries` are about the parts, `StepKept` takes a whole handler to the
  invariant, and there is one lemma per action.

`VerificationJobsProofs` (any samples, any number of probes, runs and restarts):
`VerdictsAreEarned` and `NothingIsLeft`, with one lemma per action. Neither property is
inductive. The invariant `RunInv` is about one run, so that a step of another run
keeps it (`Untouched`), and says what the counter in Redis means while it is not
negative (`CounterTrue`): with the jobs that were counted it adds up to all samples,
with the list of results it covers the jobs that still have to count, at most one
job has found it to be zero, and no job has cleared it. `GatherLast` draws the
conclusion: the job that makes the verdict comes after every other one was
answered and counted. `ToClear` and `ToAnswer` say which job is still going to clear
each key and to answer the run. `JobMoved` and `OneElement` reduce the cardinalities
to the one job that moved.

`JobsVerify` is the refinement, `Spec => ImplementsVerification`, every step of the jobs
being a step of `Verification` or a stutter. It needs a second invariant on top of
`RunInv`, `VInv`, which has `Borne(v)` for each run:

- a run is `Decided` (a job is past its retry, its news is under way, or it is over)
  only on `Grounds`: an error is marked, or all jobs have counted; so no sample is
  judged after the run was told;
- an error mark has a sample that failed behind it, and every verdict, in a job, in
  Redis or in the news, is `BornOut` by what the jobs have seen. `LateCount` draws the
  refusal from the list of results: the results that are not positive in it are
  never more than the samples that were refused, and when it is whole as many.

`BornOutStays` and `BorneStays` say that judgements of other samples take nothing
away, `GatherBears` is the step where a verdict is made, `VerifyRefined` and
`HandleRefined` are the two steps that are steps of `Verification` besides `Ask`.

`ConnectionTimeoutProofs` (any connections, timeout, check range and clock):
`NobodyOutlives`, `NobodyIsEarly`, `TimeoutsTyped` and the refinement
`TimeoutKeepsDeadlines` from one invariant. `InOrder`: the keys are in the order of
time, and exactly those of lists that are not empty, so that the first key is the
first deadline, `remove` finds the earliest entry and `take_expired` may stop at the
first key that is not due. `Watched`: while no callback has raised and no check runs,
a call is pending for a time not later than the first key; a stop keeps it because
it can only make the first key a later one. `Single`: who was not queued when he was
started has one deadline at most. `AppendedKeeps`, `RemovedKeeps` and `TakenKeeps` are
the lemmas about the three operations of the queue; each action has a lemma that
gives the invariant and the abstract step together.

`PgpKeysProofs` (any number of calls and generations): `AnswersMatch` from
`Copies` (every copy of the record, in the cache, MySQL or a call, is of one
generation, and its private key was made), `HandedOutIsErased` from `Pending` (a
private key that was handed out and is in MySQL has an erasure to come, or one
was refused).

`TrainingProofs` (any number of codes, websockets, runs, attempts and troubles, any
set of plugins):

- `TrainingTyped` from `Types`, which adds that a machine in training is bound to a
  key and that the plugin holds a callback once there is a run.
- `CanceledIsFinal` from `FinalInv`: no key and no run that is under way has the code of
  a canceled training, the run in the plugin has it only while no run is under way, and
  no later request uses it again (`FinalKept`). `JobStepFinal` says that a job speaks of its own
  code only, `HandleFinal` that a late result starts no canceled training.
- `TriesAreOut` from `AllTrying`: a machine in training has an engine that tries, and a
  try has a request. Every way into the state is `Entered`.
- `AttemptsAreKept` from `Attempted`: without overlap at most one run is under way
  (`Engaged`), and a counter that is there adds up to `MaxAttempts` with the requests
  for more samples in a row, or is 0 with a job about to delete it (`AddedUp`).
- `CodesAreKept` from `CodeInv`, which has four parts. `Alone`: only one websocket is
  open and notifications go to it. `Coded`: a key, a flow and a run have codes that
  were used, and a key in training has its own. `Held`: before any key expires, the
  key a phone waits on is there, and the answer of the run in the plugin will not
  remove a key that another machine waits on. `Named`: the statement itself, for runs
  that are about to be queued too. `CodedKept` and `HeldKept` are the two lemmas most
  steps rest on; `ConnectCode`, `NewsCode`, `SubmitCode` and `HandleCode` are the steps
  with an argument of their own.

`IdentificationProofs` (any users, any finite set of cells, any number of runs,
enrolments and troubles):

- `IdentTyped` from `Types` with `Enrolled` (an update under way has its user).
- `NamedWasStored` from `AllKnown`: whatever the cache, a job or an update holds of the
  index was stored once.
- `EstimatesAreWhole` from `AllCounted`: the counter of a run is never less than the
  number of clusters whose results are not counted (`Open`), those of lost jobs
  included, so that one job at most finds 0, and the list is then whole.
- `RowsCoverVectors` from `AllClean`: in a cluster that is not messy at most one update
  works (`Alone`), what it has seen is what is there (`Fits`, `Within`), and a vector
  without a row belongs to it.
- `EveryoneIsFound` from `AllFound`: a job that nothing disturbed has loaded, or has
  still to load, the cells of everyone it must find, and has scored who it has
  loaded (`Finding`). Only jobs that read (`Busy`) need it, which is why another run
  that loads cells counts as a disturbance.

Assumptions on the constants: `None` is not one of the values it stands beside
(`NoneIsNoValue`, `NoneIsNoRecord`, `NoneIsNothingElse` and the first assumption of each
module), the set of samples is finite and not empty (a try is verified with the
samples it collected), the set of cells is finite, the timeout is positive, and bounds
are natural numbers.

Only model-checked: `CompleteIsEarned`, and the liveness properties (`Answered`, `Expires`, `SilentEnds`,
`RunAnswered`, `CallAnswered`, `RunEnds`, `IdentAnswered`), since fairness and ENABLED
are out of the prover's reach.

## What could come next

Built in this order: flows, sessions, engine, jobs, keys; then training with the probe
request, and identification; then the abstract verification, and the connection
timeout with its deadlines. What is left, most useful first:

1. An abstract specification of a session (live, expired) with the refinement by
   `SessionManager`, and one of a training run.
2. `ProtocolEngine` on top of `Deadlines` in the place of its own entries and alarm.
3. The gathered results of `verify_email_job`, the registration of an application
   (`verify_registration_job`) and the scheduled cleaner of the cache (`ChangesTable`).

## Not modelled

- RPC handler and plugin manager: the dispatch of a named call to a method; what a
  call waits for is in `BioauthFlow` and `PgpKeys`.
- Policy engine beyond the types a try waits for: a record is read and written into
  a dictionary of the class in one call that nothing interleaves with.
- Image algorithms: numeric; only the outcomes matter (`Outcomes`, the cells).
- Database layer: single statements, of which those on the hash index and the key
  records are actions.
- Message schemas and signatures: a message is good or bad.
- Tries simulator: a test aid. REST pages, engine jobs, logging: no state that
  another component depends on.
- News for a subscriber of exactly the channel (`redis_subscriber.py:57`), which assigns
  to an element of an empty list and raises: the subscriptions here are patterns.
- Memory: the value kept for a connection refers to the connection
  (`connectionhandler.py:72`), so the `WeakKeyDictionary` never lets go of one that
  was stopped.
- Numbers of the hash index: scores of a vector; the model keeps who is a hit.

`PROJECT.json` lists every component with its status and every hazard with the
properties that cover it, or the reason why none does.
