------------------------------- MODULE PgpKeys -------------------------------
(* The cached key record of one e-mail address: pgp_extension_plugin hands *)
(* a record out and erases the private key it handed out, BaseDataStore    *)
(* keeps the record in the LRU Redis in front of MySQL, the storage jobs   *)
(* read and write MySQL, WorkerInterface puts what a job read into the     *)
(* cache, and generate_pgp_keys_job makes new keys.                        *)
(*                                                                         *)
(* A key pair and its pass phrase are named by their generation.  The      *)
(* record exists; an absent field is None.  Jobs run concurrently, so they *)
(* may end in any order.                                                   *)
EXTENDS Naturals

CONSTANTS Calls,          \* calls of get_pass_phrase
          MaxGenerations, \* key pairs made after the first
          None

ASSUME KeyConstants == MaxGenerations \in Nat /\ None \notin Nat /\ None \notin Calls

Generations == 0..MaxGenerations
Fields == Generations \cup {None}
Records == [pass : Fields, priv : Fields]
ASSUME NoneIsNoRecord == None \notin Records

VARIABLES
  db,       \* the record in MySQL
  lru,      \* the record in the cache, None if there is none
  call,     \* progress of a call
  data,     \* what the job of a call read
  answer,   \* what a call returned, None before it has
  updates,  \* update jobs queued for the private key
  creates,  \* create jobs queued for the private key
  stage,    \* progress of the job that makes a generation
  refused   \* history: has a create job been refused?

vars == <<db, lru, call, data, answer, updates, creates, stage, refused>>
callVars  == <<call, data, answer>>
eraseVars == <<updates, creates, refused>>

PgpTypeOK ==
  /\ db \in Records /\ lru \in Records \cup {None}
  /\ call \in [Calls -> {"idle", "read", "fetched", "got", "done"}]
  /\ data \in [Calls -> Records \cup {None}]
  /\ answer \in [Calls -> Records \cup {None}]
  /\ updates \in Nat /\ creates \in Nat
  /\ stage \in [Generations -> {"none", "queued", "deleted", "ended"}]
  /\ refused \in BOOLEAN

Init ==
  /\ db = [pass |-> 0, priv |-> 0]
  /\ lru = None
  /\ call = [c \in Calls |-> "idle"]
  /\ data = [c \in Calls |-> None]
  /\ answer = [c \in Calls |-> None]
  /\ updates = 0 /\ creates = 0 /\ refused = FALSE
  /\ stage = [g \in Generations |-> IF g = 0 THEN "ended" ELSE "none"]

-----------------------------------------------------------------------------
(* The call.                                                               *)

\* Mutant: the erasure replaces the cached record.
ErasedWhole(r) == [priv |-> None]
\* store_data of the private key's erasure: it is merged into the cached
\* record; without one it becomes the whole cached record, and MySQL gets a
\* create job instead of an update job.
ErasedIn(r) == IF r = None THEN [pass |-> None, priv |-> None]
               ELSE [r EXCEPT !.priv = None]

\* get_pass_phrase with the record r.
Reply(c, r) ==
  /\ answer' = [answer EXCEPT ![c] = r]
  /\ call' = [call EXCEPT ![c] = "done"]
  /\ IF r.priv = None THEN UNCHANGED <<lru, updates, creates>>
     ELSE /\ lru' = ErasedIn(lru)
          /\ updates' = IF lru = None THEN updates ELSE updates + 1
          /\ creates' = IF lru = None THEN creates + 1 ELSE creates
  /\ UNCHANGED <<db, data, stage, refused>>

\* _get_lru_data: a cached record is taken as it is.
Hit(c) == call[c] = "idle" /\ lru # None /\ Reply(c, lru)

Miss(c) ==
  /\ call[c] = "idle" /\ lru = None
  /\ call' = [call EXCEPT ![c] = "read"]
  /\ UNCHANGED <<db, lru, data, answer, eraseVars, stage>>

\* get_record_job.
Fetch(c) ==
  /\ call[c] = "read"
  /\ data' = [data EXCEPT ![c] = db]
  /\ call' = [call EXCEPT ![c] = "fetched"]
  /\ UNCHANGED <<db, lru, answer, eraseVars, stage>>

\* Mutant: fields that are cached are kept.
MergedKeeping(old, new) ==
  IF old = None THEN new
  ELSE [f \in DOMAIN new |-> IF old[f] = None THEN new[f] ELSE old[f]]
\* RedisStorage.store_data: the fields that were read replace the cached ones.
Merged(old, new) == new

\* Mutant: a result that is cached already is not handed on.
AfterFillOnce == IF lru = None THEN "got" ELSE "fetched"
AfterFill == "got"

\* _process_results: the result of the job is cached, then the callback runs;
\* the call goes on in a later turn of the loop.
Fill(c) ==
  /\ call[c] = "fetched"
  /\ lru' = Merged(lru, data[c])
  /\ call' = [call EXCEPT ![c] = AfterFill]
  /\ UNCHANGED <<db, data, answer, eraseVars, stage>>

Resume(c) == call[c] = "got" /\ Reply(c, data[c])

-----------------------------------------------------------------------------
(* The jobs.                                                               *)

\* Mutant: the row is only read.
UpdatedNot(r) == r
Updated(r) == [r EXCEPT !.priv = None]

\* update_record_job sets the one field it was given.
Update ==
  /\ updates > 0
  /\ updates' = updates - 1
  /\ db' = Updated(db)
  /\ UNCHANGED <<lru, callVars, creates, stage, refused>>

\* create_record_job would turn into an update if MySQL reported a duplicate;
\* the entity refuses a record without the user it requires before that.
Create ==
  /\ creates > 0
  /\ creates' = creates - 1
  /\ refused' = TRUE
  /\ UNCHANGED <<db, lru, callVars, updates, stage>>

\* A REST request (new_email) or the plugin asks for new keys.
Generate(g) ==
  /\ stage[g] = "none" /\ \A h \in Generations : h < g => stage[h] # "none"
  /\ stage' = [stage EXCEPT ![g] = "queued"]
  /\ UNCHANGED <<db, lru, callVars, eraseVars>>

\* generate_pgp_keys_job forgets the cached record first, and writes the new
\* keys, if it could make them, when they are ready.
Uncache(g) ==
  /\ stage[g] = "queued"
  /\ lru' = None
  /\ stage' = [stage EXCEPT ![g] = "deleted"]
  /\ UNCHANGED <<db, callVars, eraseVars>>

Write(g) ==
  /\ stage[g] = "deleted"
  /\ db' \in {db, [pass |-> g, priv |-> g]}
  /\ stage' = [stage EXCEPT ![g] = "ended"]
  /\ UNCHANGED <<lru, callVars, eraseVars>>

\* The LRU Redis evicts the record when its memory is used up.
Evict ==
  /\ lru # None
  /\ lru' = None
  /\ UNCHANGED <<db, callVars, eraseVars, stage>>

CallStep(c) == Fetch(c) \/ Fill(c) \/ Resume(c)

Next ==
  \/ \E c \in Calls : Hit(c) \/ Miss(c) \/ CallStep(c)
  \/ Update \/ Create
  \/ \E g \in Generations : Generate(g) \/ Uncache(g) \/ Write(g)
  \/ Evict

Spec == Init /\ [][Next]_vars

\* A worker runs the jobs and the server's loop turns; nobody has to ask for
\* keys, and nothing has to be evicted.
FairSpec ==
  /\ Spec
  /\ \A c \in Calls : WF_vars(CallStep(c))
  /\ WF_vars(Update) /\ WF_vars(Create)

-----------------------------------------------------------------------------
(* Properties.                                                             *)

\* An answer never pairs the pass phrase of one generation with the private
\* key of another, whatever the cache, the late results, the erasures and the
\* key generation do to the two copies of the record.
Matched ==
  \A c \in Calls :
    LET a == answer[c] IN
    a # None /\ a.pass # None /\ a.priv # None => a.pass = a.priv

HandedOut == {answer[c].priv : c \in {d \in Calls : answer[d] # None}} \ {None}
Quiet == updates = 0 /\ creates = 0

\* Once the jobs have run, MySQL holds no private key that was handed out,
\* also after a stale record was cached and handed out again, unless an
\* erasure met an empty cache (get_pass_phrase, _store_lru_data).
Erased == Quiet /\ ~refused => db.priv \notin HandedOut

\* A call whose record is not cached is answered when the job has read it,
\* whoever caches or evicts the record meanwhile.
CallAnswered == \A c \in Calls : call[c] = "read" ~> answer[c] # None

=============================================================================
