---------------------------- MODULE BioauthFlow ----------------------------
(***************************************************************************)
(* The biometric authentication flow that links one user's browser         *)
(* extensions to his phones (biomio/protocol/rpc/bioauthflow.py,           *)
(* app_auth_connection.py, app_connection_listener.py and the stores they  *)
(* use).  An extension issues an RPC that needs authentication; the two    *)
(* sides never talk to each other directly: each owns a small state        *)
(* machine and both follow the value of a shared Redis key, announced by   *)
(* keyspace notifications that arrive later and carry the key only.        *)
(*                                                                         *)
(* A connection <<app, n>> is the n-th websocket of an application, with   *)
(* the BioauthFlow object it creates; objects outlive their websocket as   *)
(* long as a notification or a job result can still reach them.            *)
(*                                                                         *)
(* Not modelled here: training states, hybrid applications, samples of     *)
(* several types in one probe, the provider id, push notifications.        *)
(***************************************************************************)
EXTENDS Naturals, Sequences, FiniteSets

CONSTANTS ExtApps,      \* extension flow ids ("app_user") of the user
          ProbeApps,    \* the user's phones
          MaxExtConns,  \* connections an extension opens in turn
          MaxProbeConns,\* connections a phone opens in turn
          MaxRpcs,      \* RPCs with authentication issued on one connection
          MaxAgain,     \* connections and RPCs after the first, all told
          MaxRetries,   \* verifications whose samples cannot be processed
          MaxExpiries,  \* auth keys that reach their TTL
          Overlap,      \* may an application connect again before its old
                        \* websocket is known to be closed?
          Reclose,      \* is the handler told later of a close by the server?
          None          \* no key, no connection

ASSUME Constants ==
  /\ MaxExtConns \in Nat /\ MaxProbeConns \in Nat /\ MaxRpcs \in Nat /\ MaxAgain \in Nat
  /\ MaxRetries \in Nat /\ MaxExpiries \in Nat
  /\ Overlap \in BOOLEAN /\ Reclose \in BOOLEAN
  /\ ExtApps \cap ProbeApps = {}
  /\ None \notin ExtApps \cup ProbeApps

Apps       == ExtApps \cup ProbeApps
ExtConns   == ExtApps \X (1..MaxExtConns)
ProbeConns == ProbeApps \X (1..MaxProbeConns)
Conns      == ExtConns \cup ProbeConns
Rpcs       == ExtConns \X (1..MaxRpcs)
Keys       == ExtApps \X ProbeApps

States   == {"ready", "wait", "started", "succeed", "failed", "error",
             "timeout", "canceled", "max"}
\* Mutant: one more callback is filed under a name nobody looks up.
FinishedButFailed == {"succeed", "timeout", "error", "canceled"}
\* The states whose callback the table really calls: the entry for "max" is
\* filed under 'onauth_max_retries', a name the machine never looks up.
Finished == {"succeed", "failed", "timeout", "error", "canceled"}
ASSUME NoneIsFresh == None \notin Conns \cup Keys \cup States

VARIABLES
  conn,        \* websocket of a connection: "new", "open", "closing" (the
               \* server closed it) or "closed" (the handler was told)
  fsm,         \* the flow's own state machine
  key,         \* the auth key the flow is bound to, or None
  engine,      \* protocol state of a phone: "ready", "trying" or
               \* "disconnected" ("trying" stands for both probe states)
  subscriber,  \* the object a notification pattern is routed to
  redis,       \* value of an auth key: a state, or "absent"
  inbox,       \* keys whose notification an application has yet to see
  waiting,     \* extensions waiting for a phone, newest first
  linked,      \* phones an extension is linked to
  online,      \* phones marked as connected
  lookups,     \* database lookups of related applications still running
  clear,       \* the flag a finished "off" lookup reads
  callback,    \* the RPC an extension's flow will report to, 0 if none
  rpc,         \* progress of an RPC
  plugin,      \* the flow the verification plugin will report to
  jobs,        \* verification jobs still running
  retries,     \* verifications that may still fail with an error
  expiries,    \* keys that may still expire
  earned,      \* history: RPCs issued before a verification succeeded or
               \* an identification answered
  blind        \* history: RPCs after the first of an application, issued
               \* by a flow that knew no key

flowVars  == <<conn, fsm, key, engine>>
storeVars == <<redis, inbox>>
listVars  == <<waiting, linked, online>>
lookVars  == <<lookups, clear>>
rpcVars   == <<callback, rpc, earned, blind>>
jobVars   == <<plugin, jobs, retries>>
vars == <<flowVars, subscriber, storeVars, listVars, lookVars, rpcVars,
          jobVars, expiries>>

LookupKinds == {"keys", "off"} \cup ExtApps

TypeOK ==
  /\ conn \in [Conns -> {"new", "open", "closing", "closed"}]
  /\ fsm \in [Conns -> States]
  /\ key \in [Conns -> Keys \cup {None}]
  /\ engine \in [ProbeConns -> {"ready", "trying", "disconnected"}]
  /\ subscriber \in [Apps -> Conns \cup {None}]
  /\ redis \in [Keys -> States \cup {"absent"}]
  /\ inbox \in [Apps -> SUBSET Keys]
  /\ waiting \in [ProbeApps -> Seq(ExtApps)]
  /\ linked \in [ExtApps -> SUBSET ProbeApps]
  /\ online \subseteq ProbeApps
  /\ lookups \in [Conns -> [LookupKinds -> Nat]]
  /\ clear \in [Conns -> BOOLEAN]
  /\ callback \in [ExtConns -> 0..MaxRpcs]
  /\ rpc \in [Rpcs -> {"new", "wait", "resolved", "complete", "fail"}]
  /\ plugin \in ProbeConns \cup {None}
  /\ jobs \in Nat /\ retries \in Nat /\ expiries \in Nat
  /\ earned \subseteq Rpcs /\ blind \subseteq Rpcs

Init ==
  /\ conn = [c \in Conns |-> "new"]
  /\ fsm = [c \in Conns |-> "ready"]
  /\ key = [c \in Conns |-> None]
  /\ engine = [c \in ProbeConns |-> "ready"]
  /\ subscriber = [a \in Apps |-> None]
  /\ redis = [k \in Keys |-> "absent"]
  /\ inbox = [a \in Apps |-> {}]
  /\ waiting = [p \in ProbeApps |-> <<>>]
  /\ linked = [e \in ExtApps |-> {}]
  /\ online = {}
  /\ lookups = [c \in Conns |-> [l \in LookupKinds |-> 0]]
  /\ clear = [c \in Conns |-> TRUE]
  /\ callback = [c \in ExtConns |-> 0]
  /\ rpc = [r \in Rpcs |-> "new"]
  /\ plugin = None
  /\ jobs = 0
  /\ retries = MaxRetries
  /\ expiries = MaxExpiries
  /\ earned = {} /\ blind = {}

-----------------------------------------------------------------------------
(* The store.  Every write and every removal of an existing key is         *)
(* announced to the applications whose pattern matches; announcements of   *)
(* one key that nobody has seen yet are merged, because the handler reads  *)
(* the value when it runs.                                                 *)

Existing(K) == {k \in K : redis[k] # "absent"}
\* Mutant: the pattern of the phones' subscription matches no key.
AnnounceToExtensions(box, K) ==
  [a \in Apps |-> box[a] \cup {k \in K : a = k[1]}]
Announce(box, K) ==
  [a \in Apps |-> box[a] \cup {k \in K : a = k[1] \/ a = k[2]}]

Bound(k) == {k} \ {None}

\* One handler's writes: key k (if the flow has one) gets value s, the keys
\* in K are removed.
Rewrite(k, s, K) ==
  /\ redis' = [x \in Keys |-> IF x = k THEN s
                              ELSE IF x \in K THEN "absent" ELSE redis[x]]
  /\ inbox' = Announce(inbox, Bound(k) \cup Existing(K))
Store(k, s) == Rewrite(k, s, {})

\* The other keys of the extension of key k, which a flow bound to k removes.
Rivals(k) == {x \in Keys : k # None /\ x[1] = k[1] /\ x # k}

\* The lists hold an application once: it is pushed only if it is absent.
Member(e, s) == \E i \in 1..Len(s) : s[i] = e
Push(s, e)   == IF Member(e, s) THEN s ELSE <<e>> \o s
Without(s, e) ==
  IF Member(e, s)
  THEN LET i == CHOOSE i \in 1..Len(s) : s[i] = e
       IN  SubSeq(s, 1, i - 1) \o SubSeq(s, i + 1, Len(s))
  ELSE s

StartLookup(c, l) == [lookups EXCEPT ![c][l] = @ + 1]

\* The future the extension's greenlet waits on; resolving it twice is
\* harmless, and a flow that never made a request has none.
Resolved(c) ==
  [r \in Rpcs |-> IF r = <<c, callback[c]>> /\ rpc[r] = "wait"
                  THEN "resolved" ELSE rpc[r]]

\* What a close by the server leaves behind.
Shut == IF Reclose THEN "closing" ELSE "closed"

-----------------------------------------------------------------------------
(* The extension side.                                                     *)

\* One more connection or RPC of an application, its first or not, is within
\* the bounds.
Issued == {r \in Rpcs : rpc[r] # "new"}
Again == Cardinality({c \in Conns : c[2] > 1 /\ conn[c] # "new"})
           + Cardinality(Issued) - Cardinality({r[1][1] : r \in Issued})
Admits(first) == first \/ Again < MaxAgain

FirstRpc(r) == \A q \in Issued : q[1][1] # r[1][1]

Fresh(c) ==
  /\ conn[c] = "new" /\ Admits(c[2] = 1)
  /\ \A d \in Conns : d[1] = c[1] /\ d[2] < c[2] =>
       conn[d] # "new" /\ (~Overlap => conn[d] = "closed")

\* The extension's first RPC creates and initializes its flow.
OpenExt(c) ==
  /\ Fresh(c)
  /\ conn' = [conn EXCEPT ![c] = "open"]
  /\ subscriber' = [subscriber EXCEPT ![c[1]] = c]
  /\ UNCHANGED <<fsm, key, engine, storeVars, listVars, lookVars, rpcVars,
                 jobVars, expiries>>

\* Mutant: the success of an earlier RPC answers the next one at once.
RequestOfSuccess(r) ==
  LET c == r[1]
      s == IF fsm[c] = "succeed" THEN "succeed" ELSE "wait" IN
  /\ conn[c] \in {"open", "closing"}
  /\ fsm[c] # "started"
  /\ rpc[r] = "new" /\ \A n \in 1..(r[2] - 1) : rpc[<<c, n>>] # "new"
  /\ Admits(FirstRpc(r))
  /\ fsm' = [fsm EXCEPT ![c] = s]
  /\ callback' = [callback EXCEPT ![c] = r[2]]
  /\ rpc' = [rpc EXCEPT ![r] = IF s = "wait" THEN "wait" ELSE "resolved"]
  /\ Store(key[c], s)
  /\ lookups' = StartLookup(c, "keys")
  /\ blind' = IF key[c] = None /\ ~FirstRpc(r) THEN blind \cup {r} ELSE blind
  /\ UNCHANGED <<conn, key, engine, subscriber, listVars, clear, earned,
                 jobVars, expiries>>

\* An RPC that needs authentication: a flow that is not ready is reset first
\* (impossible while a verification runs), then it asks for authentication
\* and looks for the user's phones.  RPCs are served whatever state the
\* protocol is in, also between the server's close and the client's.
Request(r) ==
  LET c == r[1] IN
  /\ conn[c] \in {"open", "closing"}
  /\ fsm[c] # "started"
  /\ rpc[r] = "new" /\ \A n \in 1..(r[2] - 1) : rpc[<<c, n>>] # "new"
  /\ Admits(FirstRpc(r))
  /\ fsm' = [fsm EXCEPT ![c] = "wait"]
  /\ callback' = [callback EXCEPT ![c] = r[2]]
  /\ rpc' = [rpc EXCEPT ![r] = "wait"]
  /\ Store(key[c], "wait")
  /\ lookups' = StartLookup(c, "keys")
  /\ blind' = IF key[c] = None /\ ~FirstRpc(r) THEN blind \cup {r} ELSE blind
  /\ UNCHANGED <<conn, key, engine, subscriber, listVars, clear, earned,
                 jobVars, expiries>>

RequestRefused(r) ==
  LET c == r[1] IN
  /\ conn[c] \in {"open", "closing"}
  /\ fsm[c] = "started"
  /\ rpc[r] = "new" /\ \A n \in 1..(r[2] - 1) : rpc[<<c, n>>] # "new"
  /\ Admits(FirstRpc(r))
  /\ rpc' = [rpc EXCEPT ![r] = "fail"]
  /\ UNCHANGED <<flowVars, subscriber, storeVars, listVars, lookVars,
                 callback, earned, blind, jobVars, expiries>>

\* The waiting greenlet of an RPC resumes and judges by the state the flow
\* has now.
Resume(r) ==
  /\ rpc[r] = "resolved"
  /\ rpc' = [rpc EXCEPT ![r] = IF fsm[r[1]] = "succeed" THEN "complete"
                                                        ELSE "fail"]
  /\ UNCHANGED <<flowVars, subscriber, storeVars, listVars, lookVars,
                 callback, earned, blind, jobVars, expiries>>

\* The phones of the user arrive.  A connected one gets the request through
\* a key; otherwise the extension waits in the list of each of them.
FindProbe(c) ==
  LET e == c[1]
      connected == IF linked[e] # {} THEN linked[e] ELSE online IN
  /\ lookups[c]["keys"] > 0
  /\ lookups' = [lookups EXCEPT ![c]["keys"] = @ - 1]
  /\ \/ \E p \in connected :
          /\ key' = [key EXCEPT ![c] = <<e, p>>]
          /\ Rewrite(<<e, p>>, "wait",
                     IF key[c] # <<e, p>> THEN Rivals(key[c]) ELSE {})
          /\ UNCHANGED waiting
     \/ /\ connected = {}
        /\ waiting' = [p \in ProbeApps |-> Push(waiting[p], e)]
        /\ UNCHANGED <<key, storeVars>>
  /\ UNCHANGED <<conn, fsm, engine, subscriber, linked, online, clear,
                 rpcVars, jobVars, expiries>>

\* News of key k reaches the flow of an extension.
ExtNews(c, k) ==
  LET k2   == IF key[c] # k /\ redis[k] # "absent" THEN k ELSE key[c]
      s    == IF k2 = None THEN "absent" ELSE redis[k2]
      next == IF s = "absent" THEN fsm[c] ELSE s IN
  /\ k \in inbox[c[1]]
  /\ subscriber[c[1]] = c
  /\ inbox' = [inbox EXCEPT ![c[1]] = @ \ {k}]
  /\ key' = [key EXCEPT ![c] = k2]
  /\ fsm' = [fsm EXCEPT ![c] = next]
  /\ rpc' = IF next # fsm[c] /\ next \in Finished THEN Resolved(c) ELSE rpc
  /\ UNCHANGED <<conn, engine, subscriber, redis, listVars, lookVars,
                 callback, earned, blind, jobVars, expiries>>

\* A flow that was moved to "wait" by a notification and has made no request
\* itself: it has no RPC to call back when it is cancelled.
Unrequested(c) == fsm[c] = "wait" /\ callback[c] = 0

\* The websocket of an extension is closed by the client ("closed"), or by
\* the server ("closing") and the handler is told of it later, which shuts the
\* flow down a second time.
CloseExt(c) ==
  LET s == IF fsm[c] = "wait" THEN "canceled" ELSE fsm[c] IN
  /\ conn[c] \in {"open", "closing"} /\ ~Unrequested(c)
  /\ \E after \in {Shut, "closed"} :
       /\ conn[c] = "closing" => after = "closed"
       /\ conn' = [conn EXCEPT ![c] = after]
  /\ fsm' = [fsm EXCEPT ![c] = s]
  /\ rpc' = IF fsm[c] = "wait" THEN Resolved(c) ELSE rpc
  /\ Store(key[c], s)
  /\ lookups' = StartLookup(c, "off")
  /\ clear' = [clear EXCEPT ![c] = TRUE]
  /\ subscriber' = [subscriber EXCEPT ![c[1]] = None]
  /\ UNCHANGED <<key, engine, listVars, callback, earned, blind, jobVars,
                 expiries>>

\* Cancelling a flow without an RPC calls None: the exception ends the
\* shutdown before anything is stored or unsubscribed, and a close by the
\* server before the websocket is closed.
CloseUnrequested(c) ==
  /\ conn[c] \in {"open", "closing"} /\ Unrequested(c)
  /\ \E after \in {conn[c], "closed"} :
       /\ conn[c] = "closing" => after = "closed"
       /\ conn' = [conn EXCEPT ![c] = after]
  /\ fsm' = [fsm EXCEPT ![c] = "canceled"]
  /\ UNCHANGED <<key, engine, subscriber, storeVars, listVars, lookVars,
                 rpcVars, jobVars, expiries>>

\* The lookup made on closing: the extension leaves the phones' lists.
LeaveExt(c) ==
  /\ lookups[c]["off"] > 0
  /\ lookups' = [lookups EXCEPT ![c]["off"] = @ - 1]
  /\ waiting' = IF clear[c]
                THEN [p \in ProbeApps |-> Without(waiting[p], c[1])]
                ELSE waiting
  /\ UNCHANGED <<flowVars, subscriber, storeVars, linked, online, clear,
                 rpcVars, jobVars, expiries>>

-----------------------------------------------------------------------------
(* The phone side.                                                         *)

\* The phone becomes ready.  When an extension waits for it, the newest one
\* is linked to it and it is asked to try at once; otherwise every key of the
\* phone is dropped and the phone announces itself to the extensions.
OpenProbe(c) ==
  LET p == c[1] IN
  /\ Fresh(c)
  /\ conn' = [conn EXCEPT ![c] = "open"]
  /\ subscriber' = [subscriber EXCEPT ![p] = c]
  /\ online' = online \cup {p}
  /\ IF waiting[p] # <<>>
     THEN LET e == Head(waiting[p])
              k == <<e, p>> IN
          /\ waiting' = [q \in ProbeApps |->
                           IF q \in linked[e] THEN Without(waiting[q], e)
                                              ELSE waiting[q]]
          /\ linked' = [linked EXCEPT ![e] = @ \cup {p}]
          /\ key' = [key EXCEPT ![c] = k]
          /\ Rewrite(k, "wait", Rivals(k) \cup {x \in Keys : x[2] = p /\ x # k})
          /\ fsm' = [fsm EXCEPT ![c] = "wait"]
          /\ engine' = [engine EXCEPT ![c] = "trying"]
          /\ lookups' = StartLookup(c, e)
     ELSE /\ Rewrite(None, "absent", {x \in Keys : x[2] = p})
          /\ lookups' = StartLookup(c, "keys")
          /\ UNCHANGED <<fsm, key, engine, waiting, linked>>
  /\ UNCHANGED <<clear, rpcVars, jobVars, expiries>>

\* The other phones of the user arrive: none of them is to be asked any more.
ResetOthers(c, e) ==
  /\ lookups[c][e] > 0
  /\ lookups' = [lookups EXCEPT ![c][e] = @ - 1]
  /\ waiting' = [q \in ProbeApps |-> IF q = c[1] THEN waiting[q]
                                     ELSE Without(waiting[q], e)]
  /\ UNCHANGED <<flowVars, subscriber, storeVars, linked, online, clear,
                 rpcVars, jobVars, expiries>>

\* The user's extensions arrive: the phone is linked to all of them.
AnnounceProbe(c) ==
  /\ lookups[c]["keys"] > 0
  /\ lookups' = [lookups EXCEPT ![c]["keys"] = @ - 1]
  /\ linked' = [e \in ExtApps |-> linked[e] \cup {c[1]}]
  /\ UNCHANGED <<flowVars, subscriber, storeVars, waiting, online, clear,
                 rpcVars, jobVars, expiries>>

\* News of key k reaches the flow of a phone.  A key that is new to the flow
\* is adopted.  Entering "wait" asks the phone to try, which stores the state
\* again and fails silently when the phone is already trying; entering
\* "canceled" tells the phone, unless its websocket is gone.
ProbeNews(c, k) ==
  LET p      == c[1]
      adopt  == key[c] # k /\ redis[k] # "absent"
      k2     == IF adopt THEN k ELSE key[c]
      s      == IF k2 = None THEN "absent" ELSE redis[k2]
      next   == IF s = "absent" THEN fsm[c] ELSE s
      enters == next # fsm[c]
      tries  == enters /\ next = "wait" /\ engine[c] = "ready"
      told   == enters /\ next = "canceled" /\ conn[c] = "open"
      seen   == [inbox EXCEPT ![p] = @ \ {k}] IN
  /\ k \in inbox[p]
  /\ subscriber[p] = c
  /\ key' = [key EXCEPT ![c] = k2]
  /\ fsm' = [fsm EXCEPT ![c] = next]
  /\ engine' = [engine EXCEPT ![c] = IF tries THEN "trying"
                                     ELSE IF told THEN "ready" ELSE @]
  /\ inbox' = IF tries THEN Announce(seen, {k2}) ELSE seen
  /\ lookups' = IF adopt THEN StartLookup(c, "off") ELSE lookups
  /\ clear' = IF adopt THEN [clear EXCEPT ![c] = FALSE] ELSE clear
  /\ UNCHANGED <<conn, subscriber, redis, listVars, rpcVars, jobVars, expiries>>

\* Mutant: the start of a verification is not stored.
SendSamplesUnstored(c) ==
  /\ conn[c] = "open" /\ engine[c] = "trying" /\ fsm[c] = "wait"
  /\ fsm' = [fsm EXCEPT ![c] = "started"]
  /\ engine' = [engine EXCEPT ![c] = "ready"]
  /\ plugin' = c
  /\ jobs' = jobs + 1
  /\ UNCHANGED <<conn, key, subscriber, storeVars, listVars, lookVars, rpcVars,
                 retries, expiries>>

\* The phone sends the samples of the try: the flow hands them to the plugin,
\* which forgets the flow it was to report to before.
SendSamples(c) ==
  /\ conn[c] = "open" /\ engine[c] = "trying" /\ fsm[c] = "wait"
  /\ fsm' = [fsm EXCEPT ![c] = "started"]
  /\ engine' = [engine EXCEPT ![c] = "ready"]
  /\ Store(key[c], "started")
  /\ plugin' = c
  /\ jobs' = jobs + 1
  /\ UNCHANGED <<conn, key, subscriber, listVars, lookVars, rpcVars, retries,
                 expiries>>

\* The user dismisses the try.
CancelProbe(c) ==
  /\ conn[c] = "open" /\ engine[c] = "trying"
  /\ engine' = [engine EXCEPT ![c] = "ready"]
  /\ IF fsm[c] = "wait"
     THEN /\ fsm' = [fsm EXCEPT ![c] = "canceled"]
          /\ Store(key[c], "canceled")
     ELSE UNCHANGED <<fsm, storeVars>>
  /\ UNCHANGED <<conn, key, subscriber, listVars, lookVars, rpcVars, jobVars,
                 expiries>>

\* Mutants: the two answers swapped; the last retry reported by the name of
\* its callback.
OutcomeSwapped == [yes |-> "failed", no |-> "succeed", max |-> "max",
                   error |-> "wait", named |-> "succeed", nobody |-> "succeed"]
OutcomeMisnamed == [yes |-> "succeed", no |-> "failed",
                    max |-> "onauth_max_retries", error |-> "wait",
                    named |-> "succeed", nobody |-> "succeed"]

\* The event a verification's result is for the flow.  A phone whose record
\* type asks for an identification gets a text instead, the id of the user
\* that was found or the message that there is none: any text is a success.
Outcome == [yes |-> "succeed", no |-> "failed", max |-> "max",
            error |-> "wait", named |-> "succeed", nobody |-> "succeed"]
Verdicts == DOMAIN Outcome

\* A verification job ends: with an answer, with the last retry used up, or
\* with samples that could not be processed.  Only a flow that is still in
\* "started" accepts it; a retry tries the phone again before it is stored.
JobDone(v) ==
  LET c      == plugin
      s      == Outcome[v]
      heard  == c # None /\ fsm[c] = "started"
      stored == heard /\ (v = "error" => engine[c] = "ready") IN
  /\ jobs > 0 /\ jobs' = jobs - 1
  /\ v = "error" => retries > 0
  /\ retries' = IF v = "error" THEN retries - 1 ELSE retries
  /\ plugin' = None
  /\ fsm' = IF heard THEN [fsm EXCEPT ![c] = s] ELSE fsm
  /\ engine' = IF stored /\ v = "error" THEN [engine EXCEPT ![c] = "trying"]
                                        ELSE engine
  /\ IF stored THEN Store(key[c], s) ELSE UNCHANGED storeVars
  /\ earned' = IF v \in {"yes", "named", "nobody"}
               THEN earned \cup Issued ELSE earned
  /\ UNCHANGED <<conn, key, subscriber, listVars, lookVars, callback, rpc,
                 blind, expiries>>

\* What a closing flow does with its subscription and lists.
Disconnected(c) ==
  /\ online' = online \ {c[1]}
  /\ lookups' = StartLookup(c, "off")
  /\ clear' = [clear EXCEPT ![c] = TRUE]
  /\ subscriber' = [subscriber EXCEPT ![c[1]] = None]

\* The phone goes away, or the handler is told that a websocket the server
\* closed is gone.  A flow that waits for it cannot send it the
\* cancellation any more: the exception ends the shutdown before anything is
\* stored or unsubscribed.  A running verification is left to finish.
DropProbe(c) ==
  /\ conn[c] \in {"open", "closing"}
  /\ conn' = [conn EXCEPT ![c] = "closed"]
  /\ IF fsm[c] = "wait"
     THEN /\ fsm' = [fsm EXCEPT ![c] = "canceled"]
          /\ UNCHANGED <<storeVars, online, lookVars, subscriber>>
     ELSE /\ IF fsm[c] = "started" THEN UNCHANGED storeVars
                                   ELSE Store(key[c], fsm[c])
          /\ Disconnected(c)
          /\ UNCHANGED fsm
  /\ UNCHANGED <<key, engine, waiting, linked, rpcVars, jobVars, expiries>>

\* The server closes the connection: after a 'bye' of either side or an
\* invalid message the protocol is disconnected, after a timeout it is not;
\* a cancellation makes it "ready" again.  Samples for a flow that no longer
\* waits are such an invalid message.
ExpelProbe(c, after) ==
  LET s == IF fsm[c] = "wait" THEN "canceled" ELSE fsm[c] IN
  /\ conn[c] = "open"
  /\ after \in {"disconnected", engine[c]}
  /\ conn' = [conn EXCEPT ![c] = Shut]
  /\ fsm' = [fsm EXCEPT ![c] = s]
  /\ engine' = [engine EXCEPT ![c] = IF fsm[c] = "wait" THEN "ready" ELSE after]
  /\ IF s = "started" THEN UNCHANGED storeVars ELSE Store(key[c], s)
  /\ Disconnected(c)
  /\ UNCHANGED <<key, waiting, linked, rpcVars, jobVars, expiries>>

\* The lookup made on closing or on adopting a key: the phone leaves the
\* extensions' lists if the flag says so, and in both cases forgets who waits
\* for it and removes the other keys of its extension.
LeaveProbe(c) ==
  LET p == c[1] IN
  /\ lookups[c]["off"] > 0
  /\ lookups' = [lookups EXCEPT ![c]["off"] = @ - 1]
  /\ linked' = IF clear[c] THEN [e \in ExtApps |-> linked[e] \ {p}] ELSE linked
  /\ waiting' = [waiting EXCEPT ![p] = <<>>]
  /\ Rewrite(None, "absent", Rivals(key[c]))
  /\ UNCHANGED <<flowVars, subscriber, online, clear, rpcVars, jobVars, expiries>>

-----------------------------------------------------------------------------
(* Redis.                                                                  *)

\* A notification nobody is subscribed to.
Lost(a, k) ==
  /\ k \in inbox[a] /\ subscriber[a] = None
  /\ inbox' = [inbox EXCEPT ![a] = @ \ {k}]
  /\ UNCHANGED <<flowVars, subscriber, redis, listVars, lookVars, rpcVars,
                 jobVars, expiries>>

\* A key reaches its time to live.
Expire(k) ==
  /\ expiries > 0 /\ redis[k] # "absent"
  /\ expiries' = expiries - 1
  /\ Rewrite(None, "absent", {k})
  /\ UNCHANGED <<flowVars, subscriber, listVars, lookVars, rpcVars, jobVars>>

Next ==
  \/ \E c \in ExtConns : \/ OpenExt(c) \/ FindProbe(c) \/ CloseExt(c)
                         \/ CloseUnrequested(c) \/ LeaveExt(c)
                         \/ \E k \in Keys : ExtNews(c, k)
  \/ \E r \in Rpcs : Request(r) \/ RequestRefused(r) \/ Resume(r)
  \/ \E c \in ProbeConns : \/ OpenProbe(c) \/ AnnounceProbe(c) \/ LeaveProbe(c)
                           \/ SendSamples(c) \/ CancelProbe(c)
                           \/ DropProbe(c)
                           \/ \E e \in ExtApps : ResetOthers(c, e)
                           \/ \E k \in Keys : ProbeNews(c, k)
                           \/ \E s \in {"ready", "trying", "disconnected"} :
                                ExpelProbe(c, s)
  \/ \E v \in Verdicts : JobDone(v)
  \/ \E a \in Apps, k \in Keys : Lost(a, k)
  \/ \E k \in Keys : Expire(k)

Spec == Init /\ [][Next]_vars

\* The server's own steps: what the event loop, Redis and the workers do once
\* there is something to do.
ServerStep ==
  \/ \E c \in ExtConns : \/ FindProbe(c) \/ LeaveExt(c)
                         \/ \E k \in Keys : ExtNews(c, k)
  \/ \E r \in Rpcs : Resume(r)
  \/ \E c \in ProbeConns : \/ AnnounceProbe(c) \/ LeaveProbe(c)
                           \/ \E e \in ExtApps : ResetOthers(c, e)
                           \/ \E k \in Keys : ProbeNews(c, k)
  \/ \E v \in Verdicts : JobDone(v)
  \/ \E a \in Apps, k \in Keys : Lost(a, k)

\* Something that is due is done; which comes first is left open.
ServerFairness == WF_vars(ServerStep)

\* A user who opens the application on his phone and reacts to what it asks.
UserFairness ==
  \A c \in ProbeConns : /\ WF_vars(OpenProbe(c))
                        /\ WF_vars(SendSamples(c) \/ CancelProbe(c))

FairSpec == Spec /\ ServerFairness /\ UserFairness

-----------------------------------------------------------------------------
(* Properties.                                                             *)

\* The flow that notifications of its application reach.
Current(c) == conn[c] = "open" /\ subscriber[c[1]] = c

\* A current flow that has seen all news of its existing key is in the state
\* the key records: every change of state is published or was learnt from the
\* key, whoever made it and in whatever order (_store_state after each event,
\* on_state_changed).  The exceptions are a phone whose retry was refused
\* because it had already been asked to try again, and an extension's flow
\* whose cancellation had no RPC to call back.
Agrees(c) ==
  LET k == key[c] IN
  Current(c) /\ k # None /\ redis[k] # "absent" /\ k \notin inbox[c[1]] =>
    \/ fsm[c] = redis[k]
    \/ c \in ProbeConns /\ fsm[c] = "wait" /\ engine[c] = "trying"
    \/ c \in ExtConns /\ fsm[c] = "canceled" /\ callback[c] = 0
StateIsPublished == \A c \in Conns : Agrees(c)

\* An RPC method runs only if, after its RPC was issued, a verification of
\* the user's phones had a positive result or an identification answered: the
\* success the greenlet finds (rpcutils) was handed from the plugin to the
\* phone's flow, to the key and to the extension's flow, and no refusal,
\* retry, cancellation, late write or earlier RPC's success on the way turns
\* into one.  Two ways do: an RPC that is not its application's first and is
\* issued while its flow knows no key is answered by what the key says of an
\* earlier one, and a phone that goes away stores the success of an earlier
\* RPC over the wait of the next.
CompleteIsEarned ==
  \A r \in Rpcs :
    rpc[r] = "complete" =>
      \/ r \in earned
      \/ r \in blind
      \/ \E c \in ProbeConns : conn[c] \in {"closing", "closed"}

\* No flow and no key says "succeed" before a verification had a positive
\* result or an identification answered, with a user or with nobody.
SucceedIsEarned ==
  earned = {} =>
    /\ \A c \in Conns : fsm[c] # "succeed"
    /\ \A k \in Keys : redis[k] # "succeed"

\* What may keep an RPC waiting for ever: its connection is gone, a newer RPC
\* of the same flow took its place, a phone connection was lost, the retries
\* are used up or a key has expired.
Interrupted(r) ==
  \/ conn[r[1]] # "open"
  \/ callback[r[1]] # r[2]
  \/ \E c \in ProbeConns : conn[c] \in {"closing", "closed"} \/ fsm[c] = "max"
  \/ \E k \in Keys : redis[k] = "max"
  \/ expiries < MaxExpiries

\* If the phone stays connected and its user reacts, an RPC is answered, no
\* matter which side connected first and how lookups, notifications and
\* verification jobs are ordered.
Answered ==
  \A r \in Rpcs : rpc[r] = "wait" ~>
                    (rpc[r] \in {"complete", "fail"} \/ Interrupted(r))

\* What the code around these flows expects and the flows do not do.

\* The RPC is told that the retries are used up (AUTH_MAX_RETRIES_MESSAGE,
\* the 'onauth_max_retries' callback).
MaxRetriesReported ==
  \A r \in Rpcs :
    rpc[r] = "wait" /\ fsm[r[1]] = "max" /\ callback[r[1]] = r[2] ~>
      rpc[r] # "wait" \/ conn[r[1]] # "open"

\* The RPC is answered when the phone goes away instead of answering its try.
DropReported ==
  \A r \in Rpcs, c \in ProbeConns :
    rpc[r] = "wait" /\ conn[c] = "closed" /\ fsm[c] = "canceled" ~>
      rpc[r] # "wait" \/ conn[r[1]] # "open"
=============================================================================
