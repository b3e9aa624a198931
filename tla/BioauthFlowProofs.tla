------------------------- MODULE BioauthFlowProofs -------------------------
(***************************************************************************)
(* Proofs about BioauthFlow: type correctness, that a current flow which   *)
(* has seen all news agrees with its key, and that an RPC completes only   *)
(* after a positive verification or an identification.                     *)
(***************************************************************************)
EXTENDS BioauthFlow, SequenceTheorems, TLAPS

-----------------------------------------------------------------------------
(* The sets of the model.                                                  *)

\* What connections, keys and RPCs are made of.
LEMMA Structure ==
  /\ \A c \in ExtConns : c \in Conns /\ c[1] \in ExtApps
  /\ \A c \in ProbeConns : c \in Conns /\ c[1] \in ProbeApps
  /\ ExtApps \subseteq Apps /\ ProbeApps \subseteq Apps
  /\ \A r \in Rpcs : r[1] \in ExtConns /\ r[2] \in 0..MaxRpcs
  /\ \A k \in Keys : k[1] \in ExtApps /\ k[2] \in ProbeApps
  /\ \A e \in ExtApps, p \in ProbeApps :
       <<e, p>> \in Keys /\ <<e, p>>[1] = e /\ <<e, p>>[2] = p
  /\ {"keys", "off"} \cup ExtApps \subseteq LookupKinds
  /\ ExtConns \cap ProbeConns = {} /\ ExtApps \cap ProbeApps = {}
BY Constants
   DEF Conns, ExtConns, ProbeConns, Apps, Rpcs, Keys, LookupKinds

-----------------------------------------------------------------------------
(* The lists.                                                              *)

\* Removing an application from a list (BaseStore.remove_value) leaves a
\* list of applications.
LEMMA WithoutType ==
  ASSUME NEW S, NEW s \in Seq(S), NEW e
  PROVE  Without(s, e) \in Seq(S)
<1>1. CASE ~Member(e, s)
  BY <1>1 DEF Without
<1>2. CASE Member(e, s)
  <2> DEFINE i == CHOOSE i \in 1..Len(s) : s[i] = e
  <2>1. i \in 1..Len(s)
    BY <1>2 DEF Member
  <2> HIDE DEF i
  <2>2. SubSeq(s, 1, i - 1) \in Seq(S) /\ SubSeq(s, i + 1, Len(s)) \in Seq(S)
    BY <2>1
  <2>3. Without(s, e) = SubSeq(s, 1, i - 1) \o SubSeq(s, i + 1, Len(s))
    BY <1>2 DEF Without, i
  <2> QED BY <2>2, <2>3
<1> QED BY <1>1, <1>2

\* Pushing one, too.
LEMMA PushType ==
  ASSUME NEW S, NEW s \in Seq(S), NEW e \in S
  PROVE  Push(s, e) \in Seq(S)
BY DEF Push

\* Nobody can be removed from an empty list.
LEMMA WithoutEmpty == ASSUME NEW e PROVE Without(<<>>, e) = <<>>
BY DEF Without, Member

\* A started lookup is counted.
LEMMA LookupType ==
  ASSUME TypeOK, NEW c \in Conns, NEW l \in LookupKinds
  PROVE  StartLookup(c, l) \in [Conns -> [LookupKinds -> Nat]]
BY DEF TypeOK, StartLookup

\* What a handler writes to the store keeps its type.
LEMMA RewriteType ==
  ASSUME TypeOK, NEW k \in Keys \cup {None}, NEW s \in States \cup {"absent"},
         NEW K \in SUBSET Keys, Rewrite(k, s, K)
  PROVE  /\ redis' \in [Keys -> States \cup {"absent"}]
         /\ inbox' \in [Apps -> SUBSET Keys]
BY DEF TypeOK, Rewrite, Announce, Bound, Existing

\* A plain write, too.
LEMMA StoreType ==
  ASSUME TypeOK, NEW k \in Keys \cup {None}, NEW s \in States, Store(k, s)
  PROVE  /\ redis' \in [Keys -> States \cup {"absent"}]
         /\ inbox' \in [Apps -> SUBSET Keys]
BY RewriteType DEF Store

USE DEF States

\* A verdict is an event the flow knows.
LEMMA OutcomeType == \A v \in Verdicts : Outcome[v] \in States
BY DEF Outcome, Verdicts, States

\* Every step keeps the types.
LEMMA TypeStep == TypeOK /\ [Next]_vars => TypeOK'
<1> SUFFICES ASSUME TypeOK, [Next]_vars PROVE TypeOK'
  OBVIOUS
<1>conn. conn \in [Conns -> {"new", "open", "closing", "closed"}]
  BY DEF TypeOK
<1>fsm. fsm \in [Conns -> States]
  BY DEF TypeOK
<1>key. key \in [Conns -> Keys \cup {None}]
  BY DEF TypeOK
<1>engine. engine \in [ProbeConns -> {"ready", "trying", "disconnected"}]
  BY DEF TypeOK
<1>subscriber. subscriber \in [Apps -> Conns \cup {None}]
  BY DEF TypeOK
<1>redis. redis \in [Keys -> States \cup {"absent"}]
  BY DEF TypeOK
<1>inbox. inbox \in [Apps -> SUBSET Keys]
  BY DEF TypeOK
<1>waiting. waiting \in [ProbeApps -> Seq(ExtApps)]
  BY DEF TypeOK
<1>linked. linked \in [ExtApps -> SUBSET ProbeApps]
  BY DEF TypeOK
<1>online. online \subseteq ProbeApps
  BY DEF TypeOK
<1>lookups. lookups \in [Conns -> [LookupKinds -> Nat]]
  BY DEF TypeOK
<1>clear. clear \in [Conns -> BOOLEAN]
  BY DEF TypeOK
<1>callback. callback \in [ExtConns -> 0..MaxRpcs]
  BY DEF TypeOK
<1>rpc. rpc \in [Rpcs -> {"new", "wait", "resolved", "complete", "fail"}]
  BY DEF TypeOK
<1>plugin. plugin \in ProbeConns \cup {None}
  BY DEF TypeOK
<1>jobs. jobs \in Nat
  BY DEF TypeOK
<1>retries. retries \in Nat
  BY DEF TypeOK
<1>expiries. expiries \in Nat
  BY DEF TypeOK
<1>earned. earned \subseteq Rpcs /\ blind \subseteq Rpcs
  BY DEF TypeOK
<1>1. ASSUME NEW c \in ExtConns, OpenExt(c) PROVE TypeOK'
  <2>1. c \in Conns /\ c[1] \in ExtApps /\ c[1] \in Apps /\ "keys" \in LookupKinds /\ "off" \in LookupKinds
    BY Structure
  <2>2. conn' \in [Conns -> {"new", "open", "closing", "closed"}]
    BY <1>1, <2>1, <1>conn DEF OpenExt
  <2>3. subscriber' \in [Apps -> Conns \cup {None}]
    BY <1>1, <2>1, <1>subscriber DEF OpenExt
  <2>4. UNCHANGED <<fsm, key, engine, redis, inbox, waiting, linked, online, lookups, clear, callback, rpc, plugin, jobs, retries, expiries, earned, blind>>
    BY <1>1 DEF OpenExt, flowVars, storeVars, listVars, lookVars, rpcVars, jobVars
  <2> QED
    BY <2>2, <2>3, <2>4 DEF TypeOK
<1>2. ASSUME NEW c \in ExtConns, FindProbe(c) PROVE TypeOK'
  <2>1. c \in Conns /\ c[1] \in ExtApps /\ c[1] \in Apps /\ "keys" \in LookupKinds /\ "off" \in LookupKinds
    BY Structure
  <2>2. key' \in [Conns -> Keys \cup {None}]
    <3>1. linked[c[1]] \subseteq ProbeApps
      BY <2>1, <1>linked
    <3>2. \/ \E p \in ProbeApps : key' = [key EXCEPT ![c] = <<c[1], p>>]
          \/ key' = key
      BY <1>2, <3>1, <1>online DEF FindProbe
    <3>3. \A p \in ProbeApps : <<c[1], p>> \in Keys
      BY <2>1, Structure
    <3> QED BY <2>1, <3>2, <3>3, <1>key
  <2>3. /\ redis' \in [Keys -> States \cup {"absent"}]
        /\ inbox' \in [Apps -> SUBSET Keys]
    <3>1. linked[c[1]] \subseteq ProbeApps
      BY <2>1, <1>linked
    <3>2. \/ \E p \in ProbeApps, K \in SUBSET Keys :
               Rewrite(<<c[1], p>>, "wait", K)
          \/ UNCHANGED storeVars
      BY <1>2, <3>1, <1>online DEF FindProbe, Rivals
    <3>3. \A p \in ProbeApps : <<c[1], p>> \in Keys
      BY <2>1, Structure
    <3> QED BY <3>2, <3>3, <1>redis, <1>inbox, RewriteType DEF storeVars
  <2>4. waiting' \in [ProbeApps -> Seq(ExtApps)]
    <3>1. \/ UNCHANGED waiting
          \/ waiting' = [p \in ProbeApps |-> Push(waiting[p], c[1])]
      BY <1>2 DEF FindProbe
    <3> QED BY <2>1, <3>1, <1>waiting, PushType
  <2>5. lookups' \in [Conns -> [LookupKinds -> Nat]]
    BY <1>2, <2>1, <1>lookups DEF FindProbe, StartLookup
  <2>6. UNCHANGED <<conn, fsm, engine, subscriber, linked, online, clear, callback, rpc, plugin, jobs, retries, expiries, earned, blind>>
    BY <1>2 DEF FindProbe, flowVars, storeVars, listVars, lookVars, rpcVars, jobVars
  <2> QED
    BY <2>2, <2>3, <2>4, <2>5, <2>6 DEF TypeOK
<1>3. ASSUME NEW c \in ExtConns, CloseExt(c) PROVE TypeOK'
  <2>1. c \in Conns /\ c[1] \in ExtApps /\ c[1] \in Apps /\ "keys" \in LookupKinds /\ "off" \in LookupKinds
    BY Structure
  <2>2. conn' \in [Conns -> {"new", "open", "closing", "closed"}]
    BY <1>3, <2>1, <1>conn DEF CloseExt, Shut
  <2>3. fsm' \in [Conns -> States]
    BY <1>3, <2>1, <1>fsm DEF CloseExt
  <2>4. rpc' \in [Rpcs -> {"new", "wait", "resolved", "complete", "fail"}]
    BY <1>3, <2>1, <1>rpc DEF CloseExt, Resolved
  <2>5. /\ redis' \in [Keys -> States \cup {"absent"}]
        /\ inbox' \in [Apps -> SUBSET Keys]
    <3>1. \E s \in States : Store(key[c], s)
      BY <1>3, <2>1, <1>fsm DEF CloseExt
    <3> QED BY <2>1, <3>1, <1>key, StoreType
  <2>6. lookups' \in [Conns -> [LookupKinds -> Nat]]
    BY <1>3, <2>1, <1>lookups DEF CloseExt, StartLookup
  <2>7. clear' \in [Conns -> BOOLEAN]
    BY <1>3, <2>1, <1>clear DEF CloseExt
  <2>8. subscriber' \in [Apps -> Conns \cup {None}]
    BY <1>3, <2>1, <1>subscriber DEF CloseExt
  <2>9. UNCHANGED <<key, engine, waiting, linked, online, callback, plugin, jobs, retries, expiries, earned, blind>>
    BY <1>3 DEF CloseExt, flowVars, storeVars, listVars, lookVars, rpcVars, jobVars
  <2> QED
    BY <2>2, <2>3, <2>4, <2>5, <2>6, <2>7, <2>8, <2>9 DEF TypeOK
<1>4. ASSUME NEW c \in ExtConns, LeaveExt(c) PROVE TypeOK'
  <2>1. c \in Conns /\ c[1] \in ExtApps /\ c[1] \in Apps /\ "keys" \in LookupKinds /\ "off" \in LookupKinds
    BY Structure
  <2>2. lookups' \in [Conns -> [LookupKinds -> Nat]]
    BY <1>4, <2>1, <1>lookups DEF LeaveExt, StartLookup
  <2>3. waiting' \in [ProbeApps -> Seq(ExtApps)]
    BY <1>4, <2>1, <1>waiting, WithoutType DEF LeaveExt
  <2>4. UNCHANGED <<conn, fsm, key, engine, subscriber, redis, inbox, linked, online, clear, callback, rpc, plugin, jobs, retries, expiries, earned, blind>>
    BY <1>4 DEF LeaveExt, flowVars, storeVars, listVars, lookVars, rpcVars, jobVars
  <2> QED
    BY <2>2, <2>3, <2>4 DEF TypeOK
<1>5. ASSUME NEW c \in ExtConns, NEW k \in Keys, ExtNews(c, k) PROVE TypeOK'
  <2>1. c \in Conns /\ c[1] \in ExtApps /\ c[1] \in Apps /\ "keys" \in LookupKinds /\ "off" \in LookupKinds
    BY Structure
  <2>2. inbox' \in [Apps -> SUBSET Keys]
    BY <1>5, <2>1, <1>inbox DEF ExtNews
  <2>3. key' \in [Conns -> Keys \cup {None}]
    BY <1>5, <2>1, <1>key DEF ExtNews
  <2>4. fsm' \in [Conns -> States]
    BY <1>5, <2>1, <1>fsm, <1>redis, <1>key, <1>inbox DEF ExtNews
  <2>5. rpc' \in [Rpcs -> {"new", "wait", "resolved", "complete", "fail"}]
    BY <1>5, <2>1, <1>rpc DEF ExtNews, Resolved
  <2>6. UNCHANGED <<conn, engine, subscriber, redis, waiting, linked, online, lookups, clear, callback, plugin, jobs, retries, expiries, earned, blind>>
    BY <1>5 DEF ExtNews, flowVars, storeVars, listVars, lookVars, rpcVars, jobVars
  <2> QED
    BY <2>2, <2>3, <2>4, <2>5, <2>6 DEF TypeOK
<1>22. ASSUME NEW c \in ExtConns, CloseUnrequested(c) PROVE TypeOK'
  <2>1. c \in Conns
    BY Structure
  <2>2. conn' \in [Conns -> {"new", "open", "closing", "closed"}]
    BY <1>22, <2>1, <1>conn DEF CloseUnrequested
  <2>3. fsm' \in [Conns -> States]
    BY <1>22, <2>1, <1>fsm DEF CloseUnrequested
  <2>4. UNCHANGED <<key, engine, subscriber, redis, inbox, waiting, linked, online, lookups, clear, callback, rpc, plugin, jobs, retries, expiries, earned, blind>>
    BY <1>22 DEF CloseUnrequested, flowVars, storeVars, listVars, lookVars, rpcVars, jobVars
  <2> QED
    BY <2>2, <2>3, <2>4 DEF TypeOK
<1>6. ASSUME NEW r \in Rpcs, Request(r) PROVE TypeOK'
  <2>1. /\ r[1] \in ExtConns /\ r[1] \in Conns /\ r[2] \in 0..MaxRpcs
        /\ "keys" \in LookupKinds /\ "off" \in LookupKinds
    BY Structure
  <2>2. fsm' \in [Conns -> States]
    BY <1>6, <2>1, <1>fsm DEF Request
  <2>3. callback' \in [ExtConns -> 0..MaxRpcs]
    BY <1>6, <2>1, <1>callback DEF Request
  <2>4. rpc' \in [Rpcs -> {"new", "wait", "resolved", "complete", "fail"}]
    BY <1>6, <2>1, <1>rpc DEF Request, Resolved
  <2>5. /\ redis' \in [Keys -> States \cup {"absent"}]
        /\ inbox' \in [Apps -> SUBSET Keys]
    BY <1>6, <2>1, <1>key, <1>redis, <1>inbox, StoreType DEF Request, storeVars, Rivals
  <2>6. lookups' \in [Conns -> [LookupKinds -> Nat]]
    BY <1>6, <2>1, <1>lookups DEF Request, StartLookup
  <2>7. UNCHANGED <<conn, key, engine, subscriber, waiting, linked, online, clear, plugin, jobs, retries, expiries, earned>>
    BY <1>6 DEF Request, flowVars, storeVars, listVars, lookVars, rpcVars, jobVars
  <2>8. blind' \subseteq Rpcs
    BY <1>6, <1>earned DEF Request
  <2> QED
    BY <2>2, <2>3, <2>4, <2>5, <2>6, <2>7, <2>8, <1>earned DEF TypeOK
<1>7. ASSUME NEW r \in Rpcs, RequestRefused(r) PROVE TypeOK'
  <2>1. rpc' \in [Rpcs -> {"new", "wait", "resolved", "complete", "fail"}]
    BY <1>7, <1>rpc DEF RequestRefused, Resolved
  <2>2. UNCHANGED <<conn, fsm, key, engine, subscriber, redis, inbox, waiting, linked, online, lookups, clear, callback, plugin, jobs, retries, expiries, earned, blind>>
    BY <1>7 DEF RequestRefused, flowVars, storeVars, listVars, lookVars, rpcVars, jobVars
  <2> QED
    BY <2>1, <2>2 DEF TypeOK
<1>8. ASSUME NEW r \in Rpcs, Resume(r) PROVE TypeOK'
  <2>1. rpc' \in [Rpcs -> {"new", "wait", "resolved", "complete", "fail"}]
    BY <1>8, <1>rpc DEF Resume, Resolved
  <2>2. UNCHANGED <<conn, fsm, key, engine, subscriber, redis, inbox, waiting, linked, online, lookups, clear, callback, plugin, jobs, retries, expiries, earned, blind>>
    BY <1>8 DEF Resume, flowVars, storeVars, listVars, lookVars, rpcVars, jobVars
  <2> QED
    BY <2>1, <2>2 DEF TypeOK
<1>9. ASSUME NEW c \in ProbeConns, OpenProbe(c) PROVE TypeOK'
  <2>1. c \in Conns /\ c[1] \in ProbeApps /\ c[1] \in Apps /\ "keys" \in LookupKinds /\ "off" \in LookupKinds
    BY Structure
  <2>2. conn' \in [Conns -> {"new", "open", "closing", "closed"}]
    BY <1>9, <2>1, <1>conn DEF OpenProbe
  <2>3. subscriber' \in [Apps -> Conns \cup {None}]
    BY <1>9, <2>1, <1>subscriber DEF OpenProbe
  <2>4. online' \subseteq ProbeApps
    BY <1>9, <2>1, <1>online DEF OpenProbe
  <2>5. waiting' \in [ProbeApps -> Seq(ExtApps)]
    <3> DEFINE e == Head(waiting[c[1]])
    <3>1. \/ UNCHANGED waiting
          \/ waiting' = [q \in ProbeApps |->
                           IF q \in linked[e] THEN Without(waiting[q], e)
                                              ELSE waiting[q]]
      BY <1>9 DEF OpenProbe
    <3>2. \A q \in ProbeApps : Without(waiting[q], e) \in Seq(ExtApps)
      BY <1>waiting, WithoutType
    <3> HIDE DEF e
    <3> QED BY <3>1, <3>2, <1>waiting
  <2>6. linked' \in [ExtApps -> SUBSET ProbeApps]
    <3>1. CASE waiting[c[1]] # <<>>
      <4>1. Head(waiting[c[1]]) \in ExtApps
        BY <2>1, <3>1, <1>waiting
      <4>2. linked' = [linked EXCEPT ![Head(waiting[c[1]])] = @ \cup {c[1]}]
        BY <1>9, <3>1 DEF OpenProbe
      <4> QED BY <2>1, <4>1, <4>2, <1>linked
    <3> QED BY <1>9, <3>1, <1>linked DEF OpenProbe
  <2>7. key' \in [Conns -> Keys \cup {None}]
    <3>1. CASE waiting[c[1]] # <<>>
      <4>1. <<Head(waiting[c[1]]), c[1]>> \in Keys
        BY <2>1, <3>1, <1>waiting, Structure
      <4>2. key' = [key EXCEPT ![c] = <<Head(waiting[c[1]]), c[1]>>]
        BY <1>9, <3>1 DEF OpenProbe
      <4> QED BY <4>1, <4>2, <1>key
    <3> QED BY <1>9, <3>1, <1>key DEF OpenProbe
  <2>8. /\ redis' \in [Keys -> States \cup {"absent"}]
        /\ inbox' \in [Apps -> SUBSET Keys]
    <3>1. CASE waiting[c[1]] # <<>>
      <4>1. <<Head(waiting[c[1]]), c[1]>> \in Keys
        BY <2>1, <3>1, <1>waiting, Structure
      <4>2. \E K \in SUBSET Keys :
              Rewrite(<<Head(waiting[c[1]]), c[1]>>, "wait", K)
        BY <1>9, <3>1 DEF OpenProbe, Rivals
      <4> QED BY <4>1, <4>2, RewriteType
    <3>2. CASE waiting[c[1]] = <<>>
      <4>1. \E K \in SUBSET Keys : Rewrite(None, "absent", K)
        BY <1>9, <3>2 DEF OpenProbe
      <4> QED BY <4>1, RewriteType
    <3> QED BY <3>1, <3>2
  <2>9. fsm' \in [Conns -> States]
    BY <1>9, <2>1, <1>fsm DEF OpenProbe
  <2>10. engine' \in [ProbeConns -> {"ready", "trying", "disconnected"}]
    BY <1>9, <2>1, <1>engine DEF OpenProbe
  <2>11. lookups' \in [Conns -> [LookupKinds -> Nat]]
    <3>1. CASE waiting[c[1]] # <<>>
      <4>1. Head(waiting[c[1]]) \in LookupKinds
        BY <2>1, <3>1, <1>waiting, Structure
      <4>2. lookups' = StartLookup(c, Head(waiting[c[1]]))
        BY <1>9, <3>1 DEF OpenProbe
      <4> QED BY <2>1, <4>1, <4>2, <1>lookups DEF StartLookup
    <3>2. CASE waiting[c[1]] = <<>>
      <4>1. lookups' = StartLookup(c, "keys")
        BY <1>9, <3>2 DEF OpenProbe
      <4> QED BY <2>1, <4>1, <1>lookups DEF StartLookup
    <3> QED BY <3>1, <3>2
  <2>12. UNCHANGED <<clear, callback, rpc, plugin, jobs, retries, expiries, earned, blind>>
    BY <1>9 DEF OpenProbe, flowVars, storeVars, listVars, lookVars, rpcVars, jobVars
  <2> QED
    BY <2>2, <2>3, <2>4, <2>5, <2>6, <2>7, <2>8, <2>9, <2>10, <2>11, <2>12 DEF TypeOK
<1>10. ASSUME NEW c \in ProbeConns, AnnounceProbe(c) PROVE TypeOK'
  <2>1. c \in Conns /\ c[1] \in ProbeApps /\ c[1] \in Apps /\ "keys" \in LookupKinds /\ "off" \in LookupKinds
    BY Structure
  <2>2. lookups' \in [Conns -> [LookupKinds -> Nat]]
    BY <1>10, <2>1, <1>lookups DEF AnnounceProbe, StartLookup
  <2>3. linked' \in [ExtApps -> SUBSET ProbeApps]
    BY <1>10, <2>1, <1>linked DEF AnnounceProbe
  <2>4. UNCHANGED <<conn, fsm, key, engine, subscriber, redis, inbox, waiting, online, clear, callback, rpc, plugin, jobs, retries, expiries, earned, blind>>
    BY <1>10 DEF AnnounceProbe, flowVars, storeVars, listVars, lookVars, rpcVars, jobVars
  <2> QED
    BY <2>2, <2>3, <2>4 DEF TypeOK
<1>11. ASSUME NEW c \in ProbeConns, LeaveProbe(c) PROVE TypeOK'
  <2>1. c \in Conns /\ c[1] \in ProbeApps /\ c[1] \in Apps /\ "keys" \in LookupKinds /\ "off" \in LookupKinds
    BY Structure
  <2>2. lookups' \in [Conns -> [LookupKinds -> Nat]]
    BY <1>11, <2>1, <1>lookups DEF LeaveProbe, StartLookup
  <2>3. linked' \in [ExtApps -> SUBSET ProbeApps]
    BY <1>11, <2>1, <1>linked DEF LeaveProbe
  <2>4. waiting' \in [ProbeApps -> Seq(ExtApps)]
    BY <1>11, <2>1, <1>waiting, WithoutType DEF LeaveProbe
  <2>5. /\ redis' \in [Keys -> States \cup {"absent"}]
        /\ inbox' \in [Apps -> SUBSET Keys]
    <3>1. \E K \in SUBSET Keys : Rewrite(None, "absent", K)
      BY <1>11 DEF LeaveProbe, Rivals
    <3> QED BY <3>1, RewriteType
  <2>6. UNCHANGED <<conn, fsm, key, engine, subscriber, online, clear, callback, rpc, plugin, jobs, retries, expiries, earned, blind>>
    BY <1>11 DEF LeaveProbe, flowVars, storeVars, listVars, lookVars, rpcVars, jobVars
  <2> QED
    BY <2>2, <2>3, <2>4, <2>5, <2>6 DEF TypeOK
<1>12. ASSUME NEW c \in ProbeConns, SendSamples(c) PROVE TypeOK'
  <2>1. c \in Conns /\ c[1] \in ProbeApps /\ c[1] \in Apps /\ "keys" \in LookupKinds /\ "off" \in LookupKinds
    BY Structure
  <2>2. fsm' \in [Conns -> States]
    BY <1>12, <2>1, <1>fsm DEF SendSamples
  <2>3. engine' \in [ProbeConns -> {"ready", "trying", "disconnected"}]
    BY <1>12, <2>1, <1>engine DEF SendSamples
  <2>4. /\ redis' \in [Keys -> States \cup {"absent"}]
        /\ inbox' \in [Apps -> SUBSET Keys]
    BY <1>12, <2>1, <1>key, <1>redis, <1>inbox, StoreType DEF SendSamples, storeVars, Rivals
  <2>5. plugin' \in ProbeConns \cup {None}
    BY <1>12, <2>1, <1>plugin DEF SendSamples
  <2>6. jobs' \in Nat
    BY <1>12, <2>1, <1>jobs DEF SendSamples
  <2>7. UNCHANGED <<conn, key, subscriber, waiting, linked, online, lookups, clear, callback, rpc, retries, expiries, earned, blind>>
    BY <1>12 DEF SendSamples, flowVars, storeVars, listVars, lookVars, rpcVars, jobVars
  <2> QED
    BY <2>2, <2>3, <2>4, <2>5, <2>6, <2>7 DEF TypeOK
<1>13. ASSUME NEW c \in ProbeConns, CancelProbe(c) PROVE TypeOK'
  <2>1. c \in Conns /\ c[1] \in ProbeApps /\ c[1] \in Apps /\ "keys" \in LookupKinds /\ "off" \in LookupKinds
    BY Structure
  <2>2. engine' \in [ProbeConns -> {"ready", "trying", "disconnected"}]
    BY <1>13, <2>1, <1>engine DEF CancelProbe
  <2>3. fsm' \in [Conns -> States]
    BY <1>13, <2>1, <1>fsm DEF CancelProbe
  <2>4. /\ redis' \in [Keys -> States \cup {"absent"}]
        /\ inbox' \in [Apps -> SUBSET Keys]
    BY <1>13, <2>1, <1>key, <1>redis, <1>inbox, StoreType DEF CancelProbe, storeVars, Rivals
  <2>5. UNCHANGED <<conn, key, subscriber, waiting, linked, online, lookups, clear, callback, rpc, plugin, jobs, retries, expiries, earned, blind>>
    BY <1>13 DEF CancelProbe, flowVars, storeVars, listVars, lookVars, rpcVars, jobVars
  <2> QED
    BY <2>2, <2>3, <2>4, <2>5 DEF TypeOK
<1>14. ASSUME NEW c \in ProbeConns, DropProbe(c) PROVE TypeOK'
  <2>1. c \in Conns /\ c[1] \in ProbeApps /\ c[1] \in Apps /\ "keys" \in LookupKinds /\ "off" \in LookupKinds
    BY Structure
  <2>2. conn' \in [Conns -> {"new", "open", "closing", "closed"}]
    BY <1>14, <2>1, <1>conn DEF DropProbe
  <2>3. fsm' \in [Conns -> States]
    BY <1>14, <2>1, <1>fsm DEF DropProbe
  <2>4. /\ redis' \in [Keys -> States \cup {"absent"}]
        /\ inbox' \in [Apps -> SUBSET Keys]
    <3>1. UNCHANGED storeVars \/ \E s \in States : Store(key[c], s)
      BY <1>14, <2>1, <1>fsm DEF DropProbe
    <3> QED BY <2>1, <3>1, <1>key, <1>redis, <1>inbox, StoreType DEF storeVars
  <2>5. online' \subseteq ProbeApps
    BY <1>14, <2>1, <1>online DEF DropProbe, Disconnected
  <2>6. lookups' \in [Conns -> [LookupKinds -> Nat]]
    <3>1. UNCHANGED lookups \/ lookups' = StartLookup(c, "off")
      BY <1>14 DEF DropProbe, Disconnected, lookVars
    <3> QED BY <2>1, <3>1, <1>lookups DEF StartLookup
  <2>7. clear' \in [Conns -> BOOLEAN]
    <3>1. UNCHANGED clear \/ clear' = [clear EXCEPT ![c] = TRUE]
      BY <1>14 DEF DropProbe, Disconnected, lookVars
    <3> QED BY <2>1, <3>1, <1>clear
  <2>8. subscriber' \in [Apps -> Conns \cup {None}]
    BY <1>14, <2>1, <1>subscriber DEF DropProbe, Disconnected
  <2>9. UNCHANGED <<key, engine, waiting, linked, callback, rpc, plugin, jobs, retries, expiries, earned, blind>>
    BY <1>14 DEF DropProbe, flowVars, storeVars, listVars, lookVars, rpcVars, jobVars
  <2> QED
    BY <2>2, <2>3, <2>4, <2>5, <2>6, <2>7, <2>8, <2>9 DEF TypeOK
<1>15. ASSUME NEW c \in ProbeConns, NEW e \in ExtApps, ResetOthers(c, e) PROVE TypeOK'
  <2>1. c \in Conns /\ c[1] \in ProbeApps /\ c[1] \in Apps /\ "keys" \in LookupKinds /\ "off" \in LookupKinds
    BY Structure
  <2>2. lookups' \in [Conns -> [LookupKinds -> Nat]]
    <3>1. e \in LookupKinds
      BY Structure
    <3> QED BY <1>15, <2>1, <3>1, <1>lookups DEF ResetOthers
  <2>3. waiting' \in [ProbeApps -> Seq(ExtApps)]
    BY <1>15, <2>1, <1>waiting, WithoutType DEF ResetOthers
  <2>4. UNCHANGED <<conn, fsm, key, engine, subscriber, redis, inbox, linked, online, clear, callback, rpc, plugin, jobs, retries, expiries, earned, blind>>
    BY <1>15 DEF ResetOthers, flowVars, storeVars, listVars, lookVars, rpcVars, jobVars
  <2> QED
    BY <2>2, <2>3, <2>4 DEF TypeOK
<1>16. ASSUME NEW c \in ProbeConns, NEW k \in Keys, ProbeNews(c, k) PROVE TypeOK'
  <2>1. c \in Conns /\ c[1] \in ProbeApps /\ c[1] \in Apps /\ "keys" \in LookupKinds /\ "off" \in LookupKinds
    BY Structure
  <2>2. key' \in [Conns -> Keys \cup {None}]
    BY <1>16, <2>1, <1>key DEF ProbeNews
  <2>3. fsm' \in [Conns -> States]
    BY <1>16, <2>1, <1>fsm, <1>redis, <1>key DEF ProbeNews
  <2>4. engine' \in [ProbeConns -> {"ready", "trying", "disconnected"}]
    BY <1>16, <2>1, <1>engine DEF ProbeNews
  <2>5. inbox' \in [Apps -> SUBSET Keys]
    <3> DEFINE seen == [inbox EXCEPT ![c[1]] = @ \ {k}]
    <3>1. seen \in [Apps -> SUBSET Keys]
      BY <2>1, <1>inbox
    <3>2. inbox' = seen \/ \E x \in Keys \cup {None} :
            inbox' = Announce(seen, {x}) /\ x # None
      BY <1>16, <2>1, <1>key DEF ProbeNews
    <3> HIDE DEF seen
    <3> QED BY <3>1, <3>2 DEF Announce
  <2>6. lookups' \in [Conns -> [LookupKinds -> Nat]]
    BY <1>16, <2>1, <1>lookups DEF ProbeNews, StartLookup
  <2>7. clear' \in [Conns -> BOOLEAN]
    BY <1>16, <2>1, <1>clear DEF ProbeNews
  <2>8. UNCHANGED <<conn, subscriber, redis, waiting, linked, online, callback, rpc, plugin, jobs, retries, expiries, earned, blind>>
    BY <1>16 DEF ProbeNews, flowVars, storeVars, listVars, lookVars, rpcVars, jobVars
  <2> QED
    BY <2>2, <2>3, <2>4, <2>5, <2>6, <2>7, <2>8 DEF TypeOK
<1>17. ASSUME NEW c \in ProbeConns,
              NEW s \in {"ready", "trying", "disconnected"}, ExpelProbe(c, s) PROVE TypeOK'
  <2>1. c \in Conns /\ c[1] \in ProbeApps /\ c[1] \in Apps /\ "keys" \in LookupKinds /\ "off" \in LookupKinds
    BY Structure
  <2>2. conn' \in [Conns -> {"new", "open", "closing", "closed"}]
    BY <1>17, <2>1, <1>conn DEF ExpelProbe, Shut
  <2>3. fsm' \in [Conns -> States]
    BY <1>17, <2>1, <1>fsm DEF ExpelProbe
  <2>4. engine' \in [ProbeConns -> {"ready", "trying", "disconnected"}]
    BY <1>17, <2>1, <1>engine DEF ExpelProbe
  <2>5. /\ redis' \in [Keys -> States \cup {"absent"}]
        /\ inbox' \in [Apps -> SUBSET Keys]
    <3>1. UNCHANGED storeVars \/ \E t \in States : Store(key[c], t)
      BY <1>17, <2>1, <1>fsm DEF ExpelProbe
    <3> QED BY <2>1, <3>1, <1>key, <1>redis, <1>inbox, StoreType DEF storeVars
  <2>6. online' \subseteq ProbeApps
    BY <1>17, <2>1, <1>online DEF ExpelProbe, Disconnected
  <2>7. lookups' \in [Conns -> [LookupKinds -> Nat]]
    BY <1>17, <2>1, <1>lookups DEF ExpelProbe, StartLookup, Disconnected
  <2>8. clear' \in [Conns -> BOOLEAN]
    BY <1>17, <2>1, <1>clear DEF ExpelProbe, Disconnected
  <2>9. subscriber' \in [Apps -> Conns \cup {None}]
    BY <1>17, <2>1, <1>subscriber DEF ExpelProbe, Disconnected
  <2>10. UNCHANGED <<key, waiting, linked, callback, rpc, plugin, jobs, retries, expiries, earned, blind>>
    BY <1>17 DEF ExpelProbe, flowVars, storeVars, listVars, lookVars, rpcVars, jobVars
  <2> QED
    BY <2>2, <2>3, <2>4, <2>5, <2>6, <2>7, <2>8, <2>9, <2>10 DEF TypeOK
<1>18. ASSUME NEW v \in Verdicts, JobDone(v) PROVE TypeOK'
  <2>1. jobs' \in Nat
    BY <1>18, <1>jobs DEF JobDone
  <2>2. retries' \in Nat
    BY <1>18, <1>retries DEF JobDone
  <2>3. plugin' \in ProbeConns \cup {None}
    BY <1>18, <1>plugin DEF JobDone
  <2>4. fsm' \in [Conns -> States]
    BY <1>18, <1>fsm, <1>plugin, OutcomeType DEF JobDone
  <2>5. engine' \in [ProbeConns -> {"ready", "trying", "disconnected"}]
    BY <1>18, <1>engine, <1>plugin DEF JobDone
  <2>6. /\ redis' \in [Keys -> States \cup {"absent"}]
        /\ inbox' \in [Apps -> SUBSET Keys]
    <3>1. \/ UNCHANGED storeVars
          \/ plugin # None /\ \E s \in States : Store(key[plugin], s)
      <4>1. Outcome[v] \in States
        BY <1>18, OutcomeType
      <4>2. \/ UNCHANGED storeVars
            \/ plugin # None /\ Store(key[plugin], Outcome[v])
        BY <1>18 DEF JobDone
      <4> HIDE DEF States
      <4> QED BY <4>1, <4>2
    <3>2. plugin # None => key[plugin] \in Keys \cup {None}
      BY <1>plugin, <1>key, Structure
    <3> QED BY <3>1, <3>2, <1>redis, <1>inbox, StoreType DEF storeVars
  <2>7. earned' \subseteq Rpcs
    BY <1>18, <1>earned DEF JobDone, Issued
  <2>8. UNCHANGED <<conn, key, subscriber, waiting, linked, online, lookups, clear, callback, rpc, expiries, blind>>
    BY <1>18 DEF JobDone, flowVars, storeVars, listVars, lookVars, rpcVars, jobVars
  <2> QED
    BY <2>1, <2>2, <2>3, <2>4, <2>5, <2>6, <2>7, <2>8 DEF TypeOK
<1>19. ASSUME NEW a \in Apps, NEW k \in Keys, Lost(a, k) PROVE TypeOK'
  <2>1. inbox' \in [Apps -> SUBSET Keys]
    BY <1>19, <1>inbox DEF Lost
  <2>2. UNCHANGED <<conn, fsm, key, engine, subscriber, redis, waiting, linked, online, lookups, clear, callback, rpc, plugin, jobs, retries, expiries, earned, blind>>
    BY <1>19 DEF Lost, flowVars, storeVars, listVars, lookVars, rpcVars, jobVars
  <2> QED
    BY <2>1, <2>2 DEF TypeOK
<1>20. ASSUME NEW k \in Keys, Expire(k) PROVE TypeOK'
  <2>1. expiries' \in Nat
    BY <1>20, <1>expiries DEF Expire
  <2>2. /\ redis' \in [Keys -> States \cup {"absent"}]
        /\ inbox' \in [Apps -> SUBSET Keys]
    <3>1. Rewrite(None, "absent", {k})
      BY <1>20 DEF Expire
    <3> QED BY <3>1, RewriteType
  <2>3. UNCHANGED <<conn, fsm, key, engine, subscriber, waiting, linked, online, lookups, clear, callback, rpc, plugin, jobs, retries, earned, blind>>
    BY <1>20 DEF Expire, flowVars, storeVars, listVars, lookVars, rpcVars, jobVars
  <2> QED
    BY <2>1, <2>2, <2>3 DEF TypeOK
<1>21. CASE UNCHANGED vars
  BY <1>21 DEF TypeOK, vars, flowVars, storeVars, listVars, lookVars, rpcVars, jobVars
<1> QED BY <1>1, <1>2, <1>3, <1>4, <1>5, <1>6, <1>7, <1>8, <1>9, <1>10, <1>11, <1>12, <1>13, <1>14, <1>15, <1>16, <1>17, <1>18, <1>19, <1>20, <1>21, <1>22 DEF Next

\* Every variable keeps its type: the states of flows, engines, keys and
\* RPCs stay within the tables of the code, the lists hold extensions.
THEOREM TypeCorrect == Spec => []TypeOK
<1>1. Init => TypeOK
  BY Constants DEF Init, TypeOK, States, LookupKinds
<1> QED BY <1>1, TypeStep, PTL DEF Spec

-----------------------------------------------------------------------------
(* Before the first RPC.                                                   *)

Unasked == \A r \in Rpcs : rpc[r] = "new"

\* Nothing has happened that could lead to a success.
Quiet ==
  /\ \A c \in Conns : fsm[c] = "ready" /\ key[c] = None
  /\ \A c \in ExtConns : lookups[c]["keys"] = 0
  /\ \A c \in ProbeConns : engine[c] # "trying"
  /\ \A k \in Keys : redis[k] = "absent"
  /\ \A p \in ProbeApps : waiting[p] = <<>>
  /\ jobs = 0

Untouched == Unasked => Quiet

\* A handler without a key adds no value to the store.
LEMMA QuietRewrite ==
  ASSUME \A k \in Keys : redis[k] = "absent",
         NEW s, NEW K, Rewrite(None, s, K)
  PROVE  \A k \in Keys : redis'[k] = "absent"
BY NoneIsFresh DEF Rewrite

\* As long as no RPC is issued, no step changes that.
LEMMA QuietStep ==
  ASSUME TypeOK, Quiet, Unasked, Unasked', [Next]_vars
  PROVE  Quiet'
<1>fsm. /\ fsm \in [Conns -> States] /\ \A c \in Conns : fsm[c] = "ready"
  BY DEF TypeOK, Quiet
<1>key. key \in [Conns -> Keys \cup {None}] /\ \A c \in Conns : key[c] = None
  BY DEF TypeOK, Quiet
<1>lookups. /\ lookups \in [Conns -> [LookupKinds -> Nat]]
            /\ \A c \in ExtConns : lookups[c]["keys"] = 0
            /\ "keys" \in LookupKinds
  BY Structure DEF TypeOK, Quiet
<1>engine. /\ engine \in [ProbeConns -> {"ready", "trying", "disconnected"}]
           /\ \A c \in ProbeConns : engine[c] # "trying"
  BY DEF TypeOK, Quiet
<1>redis. \A k \in Keys : redis[k] = "absent"
  BY DEF Quiet
<1>waiting. waiting \in [ProbeApps -> Seq(ExtApps)]
            /\ \A p \in ProbeApps : waiting[p] = <<>>
  BY DEF TypeOK, Quiet
<1>jobs. jobs = 0
  BY DEF Quiet
<1>rpc. rpc \in [Rpcs -> {"new", "wait", "resolved", "complete", "fail"}]
        /\ \A r \in Rpcs : rpc[r] = "new" /\ rpc'[r] = "new"
  BY DEF TypeOK, Unasked
<1>split. \A c \in ExtConns : c \in Conns /\ c \notin ProbeConns
  BY Structure
<1>1. ASSUME NEW c \in ExtConns, OpenExt(c) PROVE Quiet'
  BY <1>1 DEF OpenExt, Quiet, storeVars, listVars, lookVars, jobVars
<1>2. ASSUME NEW c \in ExtConns, FindProbe(c) PROVE Quiet'
  BY <1>2, <1>lookups DEF FindProbe
<1>3. ASSUME NEW c \in ExtConns, CloseExt(c) PROVE Quiet'
  <2>1. c \in Conns /\ fsm[c] = "ready" /\ key[c] = None
    BY <1>split, <1>fsm, <1>key
  <2>2. fsm' = [fsm EXCEPT ![c] = "ready"]
    BY <1>3, <2>1 DEF CloseExt
  <2>3. Rewrite(None, "ready", {})
    BY <1>3, <2>1 DEF CloseExt, Store
  <2>4. \A d \in ExtConns : lookups'[d]["keys"] = 0
    BY <1>3, <1>lookups, <1>split DEF CloseExt, StartLookup
  <2>5. UNCHANGED <<key, engine, waiting, jobs>>
    BY <1>3 DEF CloseExt, listVars, jobVars
  <2> QED
    BY <2>2, <2>3, <2>4, <2>5, <1>fsm, <1>key, <1>engine, <1>waiting, <1>jobs,
       <1>redis, QuietRewrite DEF Quiet
<1>22. ASSUME NEW c \in ExtConns, CloseUnrequested(c) PROVE Quiet'
  BY <1>22, <1>split, <1>fsm DEF CloseUnrequested, Unrequested
<1>4. ASSUME NEW c \in ExtConns, LeaveExt(c) PROVE Quiet'
  <2>1. \A d \in ExtConns : lookups'[d]["keys"] = 0
    BY <1>4, <1>lookups, <1>split DEF LeaveExt
  <2>2. /\ UNCHANGED <<fsm, key, engine, redis, jobs>>
        /\ \A p \in ProbeApps : waiting'[p] = <<>>
    BY <1>4, <1>waiting, WithoutEmpty
       DEF LeaveExt, flowVars, storeVars, jobVars
  <2> QED BY <2>1, <2>2 DEF Quiet
<1>5. ASSUME NEW c \in ExtConns, NEW k \in Keys, ExtNews(c, k) PROVE Quiet'
  <2>1. c \in Conns /\ key[c] = None /\ redis[k] = "absent"
    BY <1>split, <1>key, <1>redis
  <2>2. key' = [key EXCEPT ![c] = None] /\ fsm' = [fsm EXCEPT ![c] = fsm[c]]
    BY <1>5, <2>1 DEF ExtNews
  <2>3. UNCHANGED <<engine, redis, waiting, lookups, jobs>>
    BY <1>5 DEF ExtNews, listVars, lookVars, jobVars
  <2> QED BY <2>1, <2>2, <2>3, <1>fsm, <1>key DEF Quiet
<1>6. ASSUME NEW r \in Rpcs, Request(r) PROVE Quiet'
  BY <1>6, <1>rpc DEF Request
<1>7. ASSUME NEW r \in Rpcs, RequestRefused(r) PROVE Quiet'
  BY <1>7, <1>rpc DEF RequestRefused
<1>8. ASSUME NEW r \in Rpcs, Resume(r) PROVE Quiet'
  BY <1>8, <1>rpc DEF Resume
<1>9. ASSUME NEW c \in ProbeConns, OpenProbe(c) PROVE Quiet'
  <2>1. waiting[c[1]] = <<>>
    BY <1>waiting, Structure
  <2>2. /\ UNCHANGED <<fsm, key, engine, waiting, jobs>>
        /\ \E K : Rewrite(None, "absent", K)
        /\ lookups' = StartLookup(c, "keys")
    BY <1>9, <2>1 DEF OpenProbe, jobVars
  <2>3. \A d \in ExtConns : lookups'[d]["keys"] = 0
    BY <2>2, <1>lookups, <1>split DEF StartLookup
  <2> QED BY <2>2, <2>3, <1>redis, QuietRewrite DEF Quiet
<1>10. ASSUME NEW c \in ProbeConns, AnnounceProbe(c) PROVE Quiet'
  <2>1. \A d \in ExtConns : lookups'[d]["keys"] = 0
    BY <1>10, <1>lookups, <1>split DEF AnnounceProbe
  <2>2. UNCHANGED <<fsm, key, engine, redis, waiting, jobs>>
    BY <1>10 DEF AnnounceProbe, flowVars, storeVars, jobVars
  <2> QED BY <2>1, <2>2 DEF Quiet
<1>11. ASSUME NEW c \in ProbeConns, LeaveProbe(c) PROVE Quiet'
  <2>1. \A d \in ExtConns : lookups'[d]["keys"] = 0
    BY <1>11, <1>lookups, <1>split DEF LeaveProbe
  <2>2. /\ UNCHANGED <<fsm, key, engine, jobs>>
        /\ waiting' = [waiting EXCEPT ![c[1]] = <<>>]
        /\ \E K : Rewrite(None, "absent", K)
    BY <1>11 DEF LeaveProbe, flowVars, jobVars
  <2> QED BY <2>1, <2>2, <1>redis, <1>waiting, QuietRewrite DEF Quiet
<1>12. ASSUME NEW c \in ProbeConns, SendSamples(c) PROVE Quiet'
  BY <1>12, <1>engine DEF SendSamples
<1>13. ASSUME NEW c \in ProbeConns, CancelProbe(c) PROVE Quiet'
  BY <1>13, <1>engine DEF CancelProbe
<1>14. ASSUME NEW c \in ProbeConns, DropProbe(c) PROVE Quiet'
  <2>1. fsm[c] = "ready" /\ key[c] = None
    BY <1>fsm, <1>key, Structure
  <2>2. /\ UNCHANGED <<fsm, key, engine, waiting, jobs>>
        /\ Rewrite(None, "ready", {})
        /\ lookups' = StartLookup(c, "off")
    BY <1>14, <2>1 DEF DropProbe, Disconnected, Store, jobVars
  <2>3. \A d \in ExtConns : lookups'[d]["keys"] = 0
    BY <2>2, <1>lookups, <1>split DEF StartLookup
  <2> QED BY <2>2, <2>3, <1>redis, QuietRewrite DEF Quiet
<1>15. ASSUME NEW c \in ProbeConns, NEW e \in ExtApps, ResetOthers(c, e)
       PROVE Quiet'
  <2>1. \A d \in ExtConns : lookups'[d]["keys"] = 0
    BY <1>15, <1>lookups, <1>split DEF ResetOthers
  <2>2. /\ UNCHANGED <<fsm, key, engine, redis, jobs>>
        /\ \A p \in ProbeApps : waiting'[p] = <<>>
    BY <1>15, <1>waiting, WithoutEmpty DEF ResetOthers, flowVars, storeVars, jobVars
  <2> QED BY <2>1, <2>2 DEF Quiet
<1>16. ASSUME NEW c \in ProbeConns, NEW k \in Keys, ProbeNews(c, k) PROVE Quiet'
  <2>1. c \in Conns /\ key[c] = None /\ redis[k] = "absent"
    BY <1>key, <1>redis, Structure
  <2>2. /\ key' = [key EXCEPT ![c] = None] /\ fsm' = [fsm EXCEPT ![c] = fsm[c]]
        /\ engine' = [engine EXCEPT ![c] = engine[c]]
    BY <1>16, <2>1 DEF ProbeNews
  <2>3. UNCHANGED <<redis, waiting, lookups, jobs>>
    BY <1>16, <2>1 DEF ProbeNews, listVars, jobVars
  <2> QED BY <2>1, <2>2, <2>3, <1>fsm, <1>key, <1>engine DEF Quiet
<1>17. ASSUME NEW c \in ProbeConns,
              NEW s \in {"ready", "trying", "disconnected"}, ExpelProbe(c, s)
       PROVE Quiet'
  <2>1. c \in Conns /\ fsm[c] = "ready" /\ key[c] = None
    BY <1>fsm, <1>key, Structure
  <2>2. /\ fsm' = [fsm EXCEPT ![c] = fsm[c]]
        /\ engine' = [engine EXCEPT ![c] = s] /\ s # "trying"
        /\ Rewrite(None, "ready", {})
        /\ lookups' = StartLookup(c, "off")
        /\ UNCHANGED <<key, waiting, jobs>>
    BY <1>17, <2>1, <1>engine DEF ExpelProbe, Disconnected, Store, jobVars
  <2>3. \A d \in ExtConns : lookups'[d]["keys"] = 0
    BY <2>2, <1>lookups, <1>split DEF StartLookup
  <2> QED
    BY <2>1, <2>2, <2>3, <1>fsm, <1>engine, <1>redis, QuietRewrite DEF Quiet
<1>18. ASSUME NEW v \in Verdicts, JobDone(v) PROVE Quiet'
  BY <1>18, <1>jobs DEF JobDone
<1>19. ASSUME NEW a \in Apps, NEW k \in Keys, Lost(a, k) PROVE Quiet'
  BY <1>19 DEF Quiet, Lost, flowVars, listVars, lookVars, jobVars
<1>20. ASSUME NEW k \in Keys, Expire(k) PROVE Quiet'
  BY <1>20, <1>redis DEF Expire
<1>21. CASE UNCHANGED vars
  BY <1>21
     DEF Quiet, vars, flowVars, storeVars, listVars, lookVars, jobVars
<1> QED
  BY <1>1, <1>2, <1>3, <1>4, <1>5, <1>6, <1>7, <1>8, <1>9, <1>10, <1>11,
     <1>12, <1>13, <1>14, <1>15, <1>16, <1>17, <1>18, <1>19, <1>20, <1>21,
     <1>22
     DEF Next

\* The life of RPCs: issued, resolved by the flow of their connection, judged.
LEMMA RpcStep ==
  ASSUME [Next]_vars
  PROVE  \/ rpc' = rpc
         \/ \E c \in ExtConns : rpc' = Resolved(c)
         \/ \E r \in Rpcs, s \in {"wait", "fail", "complete"} :
              /\ rpc' = [rpc EXCEPT ![r] = s]
              /\ s = "complete" => fsm[r[1]] = "succeed"
<1>1. ASSUME NEW r \in Rpcs, Request(r) \/ RequestRefused(r) \/ Resume(r)
      PROVE  \E s \in {"wait", "fail", "complete"} :
               /\ rpc' = [rpc EXCEPT ![r] = s]
               /\ s = "complete" => fsm[r[1]] = "succeed"
  <2>1. CASE Request(r)
    BY <2>1 DEF Request
  <2>2. CASE RequestRefused(r)
    BY <2>2 DEF RequestRefused
  <2>3. CASE Resume(r)
    BY <2>3 DEF Resume
  <2> QED BY <1>1, <2>1, <2>2, <2>3
<1>2. ASSUME NEW c \in ExtConns,
             OpenExt(c) \/ FindProbe(c) \/ CloseExt(c) \/ LeaveExt(c)
               \/ CloseUnrequested(c)
               \/ \E k \in Keys : ExtNews(c, k)
      PROVE  rpc' = rpc \/ rpc' = Resolved(c)
  <2>1. CASE OpenExt(c) \/ FindProbe(c) \/ LeaveExt(c) \/ CloseUnrequested(c)
    BY <2>1 DEF OpenExt, FindProbe, LeaveExt, CloseUnrequested, rpcVars
  <2>2. CASE CloseExt(c) \/ \E k \in Keys : ExtNews(c, k)
    BY <2>2 DEF CloseExt, ExtNews
  <2> QED BY <1>2, <2>1, <2>2
<1>3. ASSUME NEW c \in ProbeConns,
             OpenProbe(c) \/ AnnounceProbe(c) \/ LeaveProbe(c)
               \/ SendSamples(c) \/ CancelProbe(c)
      PROVE  rpc' = rpc
  BY <1>3 DEF OpenProbe, AnnounceProbe, LeaveProbe, SendSamples, CancelProbe,
              rpcVars
<1>4. ASSUME NEW c \in ProbeConns,
             DropProbe(c) \/ (\E e \in ExtApps : ResetOthers(c, e))
               \/ (\E k \in Keys : ProbeNews(c, k))
               \/ \E s \in {"ready", "trying", "disconnected"} : ExpelProbe(c, s)
      PROVE  rpc' = rpc
  BY <1>4 DEF DropProbe, ResetOthers, ProbeNews, ExpelProbe, rpcVars
<1>5. ASSUME \/ \E v \in Verdicts : JobDone(v)
             \/ \E a \in Apps, k \in Keys : Lost(a, k)
             \/ \E k \in Keys : Expire(k)
             \/ UNCHANGED vars
      PROVE  rpc' = rpc
  BY <1>5 DEF JobDone, Lost, Expire, vars, rpcVars
<1> QED BY <1>1, <1>2, <1>3, <1>4, <1>5 DEF Next

\* An RPC that was issued stays issued.
LEMMA UnaskedBefore ==
  ASSUME TypeOK, [Next]_vars, Unasked'
  PROVE  Unasked
<1> SUFFICES ASSUME NEW r \in Rpcs, rpc'[r] = "new" PROVE rpc[r] = "new"
  BY DEF Unasked
<1>1. rpc \in [Rpcs -> {"new", "wait", "resolved", "complete", "fail"}]
  BY DEF TypeOK
<1>2. ASSUME NEW c \in ExtConns, rpc' = Resolved(c) PROVE rpc[r] = "new"
  BY <1>2 DEF Resolved
<1> QED BY <1>1, <1>2, RpcStep

\* Before the first RPC nothing but openings, closings and lookups happens.
LEMMA UntouchedStep ==
  ASSUME TypeOK, Untouched, [Next]_vars
  PROVE  Untouched'
BY QuietStep, UnaskedBefore DEF Untouched

-----------------------------------------------------------------------------
(* A success is earned.                                                    *)

\* A write puts its own value, and no other, into the store.
LEMMA RewriteValues ==
  ASSUME NEW k, NEW s, NEW K, Rewrite(k, s, K), NEW x \in Keys
  PROVE  redis'[x] \in {s, "absent", redis[x]}
BY DEF Rewrite

\* A handler that neither moves a flow to "succeed" nor writes it.
Silent ==
  /\ \/ fsm' = fsm
     \/ \E d \in Conns, s \in States :
          s # "succeed" /\ fsm' = [fsm EXCEPT ![d] = s]
  /\ \/ redis' = redis
     \/ \E k, s, K : s # "succeed" /\ Rewrite(k, s, K)

\* Without a success in the flows or the store, and with neither made by a
\* step, there is none afterwards.
LEMMA NoSuccess ==
  ASSUME TypeOK, SucceedIsEarned, earned = {}, Silent
  PROVE  SucceedIsEarned'
<1>1. \A c \in Conns : fsm'[c] # "succeed"
  BY DEF TypeOK, SucceedIsEarned, Silent
<1>2. \A x \in Keys : redis'[x] # "succeed"
  BY RewriteValues DEF SucceedIsEarned, Silent
<1> QED BY <1>1, <1>2 DEF SucceedIsEarned

\* A verification is never forgotten.
LEMMA EarnedGrows ==
  ASSUME [Next]_vars
  PROVE  earned \subseteq earned'
<1>1. ASSUME NEW c \in ExtConns,
             OpenExt(c) \/ FindProbe(c) \/ CloseExt(c) \/ LeaveExt(c)
               \/ CloseUnrequested(c)
               \/ \E k \in Keys : ExtNews(c, k)
      PROVE  earned' = earned
  BY <1>1 DEF OpenExt, FindProbe, CloseExt, CloseUnrequested, LeaveExt, ExtNews,
              rpcVars
<1>2. ASSUME NEW r \in Rpcs, Request(r) \/ RequestRefused(r) \/ Resume(r)
      PROVE  earned' = earned
  BY <1>2 DEF Request, RequestRefused, Resume
<1>3. ASSUME NEW c \in ProbeConns,
             OpenProbe(c) \/ AnnounceProbe(c) \/ LeaveProbe(c)
               \/ SendSamples(c) \/ CancelProbe(c)
      PROVE  earned' = earned
  BY <1>3 DEF OpenProbe, AnnounceProbe, LeaveProbe, SendSamples,
              CancelProbe, rpcVars
<1>4. ASSUME NEW c \in ProbeConns,
             DropProbe(c) \/ (\E e \in ExtApps : ResetOthers(c, e))
               \/ (\E k \in Keys : ProbeNews(c, k))
               \/ \E s \in {"ready", "trying", "disconnected"} : ExpelProbe(c, s)
      PROVE  earned' = earned
  BY <1>4 DEF DropProbe, ResetOthers, ProbeNews, ExpelProbe, rpcVars
<1>5. ASSUME \/ \E a \in Apps, k \in Keys : Lost(a, k)
             \/ \E k \in Keys : Expire(k)
             \/ UNCHANGED vars
      PROVE  earned' = earned
  BY <1>5 DEF Lost, Expire, vars, rpcVars
<1>6. ASSUME NEW v \in Verdicts, JobDone(v)
      PROVE  earned \subseteq earned'
  BY <1>6 DEF JobDone
<1> QED BY <1>1, <1>2, <1>3, <1>4, <1>5, <1>6 DEF Next

\* Only a positive verification makes the first success; every other step
\* copies states that are there already.
LEMMA EarnedStep ==
  ASSUME TypeOK, Untouched, SucceedIsEarned, [Next]_vars
  PROVE  SucceedIsEarned'
<1>fsm. fsm \in [Conns -> States]
  BY DEF TypeOK
<1>key. key \in [Conns -> Keys \cup {None}]
  BY DEF TypeOK
<1>1. earned \subseteq earned'
  BY EarnedGrows
<1> SUFFICES ASSUME earned = {}, earned' = {} PROVE Silent
  BY <1>1, NoSuccess DEF SucceedIsEarned
<1>old. /\ \A c \in Conns : fsm[c] # "succeed"
        /\ \A k \in Keys : redis[k] # "succeed"
  BY DEF SucceedIsEarned
<1>2. ASSUME NEW c \in ExtConns, OpenExt(c) PROVE Silent
  BY <1>2 DEF OpenExt, Silent, storeVars
<1>3. ASSUME NEW c \in ExtConns, FindProbe(c) PROVE Silent
  <2>1. redis' = redis \/ \E k, K : Rewrite(k, "wait", K)
    BY <1>3 DEF FindProbe, storeVars
  <2>2. fsm' = fsm
    BY <1>3 DEF FindProbe
  <2> QED BY <2>1, <2>2 DEF Silent
<1>4. ASSUME NEW c \in ExtConns, CloseExt(c) PROVE Silent
  <2> DEFINE s == IF fsm[c] = "wait" THEN "canceled" ELSE fsm[c]
  <2>1. s \in States /\ s # "succeed" /\ c \in Conns
    BY <1>fsm, <1>old, Structure
  <2>2. fsm' = [fsm EXCEPT ![c] = s] /\ Rewrite(key[c], s, {})
    BY <1>4 DEF CloseExt, Store
  <2> HIDE DEF s
  <2> QED BY <2>1, <2>2 DEF Silent
<1>21. ASSUME NEW c \in ExtConns, CloseUnrequested(c) PROVE Silent
  <2>1. c \in Conns /\ fsm' = [fsm EXCEPT ![c] = "canceled"] /\ redis' = redis
    BY <1>21, Structure DEF CloseUnrequested, storeVars
  <2> QED BY <2>1 DEF Silent, States
<1>5. ASSUME NEW c \in ExtConns, LeaveExt(c) PROVE Silent
  BY <1>5 DEF LeaveExt, Silent, flowVars, storeVars
<1>6. ASSUME NEW c \in ExtConns, NEW k \in Keys, ExtNews(c, k) PROVE Silent
  <2>1. c \in Conns /\ redis' = redis
    BY <1>6, Structure DEF ExtNews
  <2>2. \/ fsm' = [fsm EXCEPT ![c] = fsm[c]]
        \/ \E x \in Keys : /\ redis[x] # "absent"
                          /\ fsm' = [fsm EXCEPT ![c] = redis[x]]
    BY <1>6, <2>1, <1>key DEF ExtNews
  <2>3. fsm[c] \in States /\ \A x \in Keys : redis[x] \in States \cup {"absent"}
    BY <2>1, <1>fsm DEF TypeOK
  <2> QED BY <2>1, <2>2, <2>3, <1>old DEF Silent
<1>7. ASSUME NEW r \in Rpcs, Request(r) PROVE Silent
  <2>1. /\ r[1] \in Conns
        /\ fsm' = [fsm EXCEPT ![r[1]] = "wait"]
        /\ Rewrite(key[r[1]], "wait", {})
    BY <1>7, Structure DEF Request, Store
  <2> QED BY <2>1 DEF Silent, States
<1>8. ASSUME NEW r \in Rpcs, RequestRefused(r) \/ Resume(r) PROVE Silent
  BY <1>8 DEF RequestRefused, Resume, Silent, flowVars, storeVars
<1>9. ASSUME NEW c \in ProbeConns, OpenProbe(c) PROVE Silent
  <2>1. fsm' = fsm \/ fsm' = [fsm EXCEPT ![c] = "wait"]
    BY <1>9 DEF OpenProbe
  <2>2. \E k, K : Rewrite(k, "wait", K) \/ Rewrite(k, "absent", K)
    BY <1>9 DEF OpenProbe
  <2> QED BY <2>1, <2>2, Structure DEF Silent, States
<1>10. ASSUME NEW c \in ProbeConns,
              AnnounceProbe(c) \/ \E e \in ExtApps : ResetOthers(c, e)
       PROVE  Silent
  BY <1>10 DEF AnnounceProbe, ResetOthers, Silent, flowVars, storeVars
<1>11. ASSUME NEW c \in ProbeConns, LeaveProbe(c) PROVE Silent
  <2>1. fsm' = fsm /\ \E K : Rewrite(None, "absent", K)
    BY <1>11 DEF LeaveProbe, flowVars
  <2> QED BY <2>1 DEF Silent
<1>12. ASSUME NEW c \in ProbeConns, SendSamples(c) PROVE Silent
  <2>1. /\ c \in Conns
        /\ fsm' = [fsm EXCEPT ![c] = "started"]
        /\ Rewrite(key[c], "started", {})
    BY <1>12, Structure DEF SendSamples, Store
  <2> QED BY <2>1 DEF Silent, States
<1>13. ASSUME NEW c \in ProbeConns, CancelProbe(c) PROVE Silent
  <2>1. /\ fsm' = fsm \/ fsm' = [fsm EXCEPT ![c] = "canceled"]
        /\ redis' = redis \/ Rewrite(key[c], "canceled", {})
    BY <1>13 DEF CancelProbe, Store, storeVars
  <2> QED BY <2>1, Structure DEF Silent, States
<1>14. ASSUME NEW c \in ProbeConns, DropProbe(c) PROVE Silent
  <2>1. c \in Conns /\ fsm[c] # "succeed"
    BY <1>old, Structure
  <2>2. /\ fsm' = fsm \/ fsm' = [fsm EXCEPT ![c] = "canceled"]
        /\ redis' = redis \/ Rewrite(key[c], fsm[c], {})
    BY <1>14 DEF DropProbe, Store, storeVars
  <2> QED BY <2>1, <2>2 DEF Silent, States
<1>15. ASSUME NEW c \in ProbeConns,
              NEW a \in {"ready", "trying", "disconnected"}, ExpelProbe(c, a)
       PROVE Silent
  <2> DEFINE s == IF fsm[c] = "wait" THEN "canceled" ELSE fsm[c]
  <2>1. s \in States /\ s # "succeed" /\ c \in Conns
    BY <1>fsm, <1>old, Structure
  <2>2. /\ fsm' = [fsm EXCEPT ![c] = s]
        /\ redis' = redis \/ Rewrite(key[c], s, {})
    BY <1>15 DEF ExpelProbe, Store, storeVars
  <2> HIDE DEF s
  <2> QED BY <2>1, <2>2 DEF Silent
<1>16. ASSUME NEW c \in ProbeConns, NEW k \in Keys, ProbeNews(c, k) PROVE Silent
  <2>1. c \in Conns /\ redis' = redis
    BY <1>16, Structure DEF ProbeNews
  <2>2. \/ fsm' = [fsm EXCEPT ![c] = fsm[c]]
        \/ \E x \in Keys : /\ redis[x] # "absent"
                          /\ fsm' = [fsm EXCEPT ![c] = redis[x]]
    BY <1>16, <2>1, <1>key DEF ProbeNews
  <2>3. fsm[c] \in States /\ \A x \in Keys : redis[x] \in States \cup {"absent"}
    BY <2>1, <1>fsm DEF TypeOK
  <2> QED BY <2>1, <2>2, <2>3, <1>old DEF Silent
<1>17. ASSUME NEW v \in Verdicts, JobDone(v) PROVE Silent
  <2>1. CASE v \in {"yes", "named", "nobody"}
    <3>1. Unasked /\ jobs > 0
      BY <1>17, <2>1 DEF JobDone, Unasked, Issued
    <3> QED BY <3>1 DEF Untouched, Quiet
  <2>2. CASE v \notin {"yes", "named", "nobody"}
    <3>1. Outcome[v] \in States /\ Outcome[v] # "succeed"
      BY <1>17, <2>2 DEF Outcome, Verdicts, States
    <3>2. /\ \/ fsm' = fsm
             \/ plugin # None /\ fsm' = [fsm EXCEPT ![plugin] = Outcome[v]]
          /\ redis' = redis \/ Rewrite(key[plugin], Outcome[v], {})
      BY <1>17 DEF JobDone, Store, storeVars
    <3>3. plugin # None => plugin \in Conns
      BY Structure DEF TypeOK
    <3> QED BY <3>1, <3>2, <3>3 DEF Silent
  <2> QED BY <2>1, <2>2
<1>18. ASSUME NEW a \in Apps, NEW k \in Keys, Lost(a, k) PROVE Silent
  BY <1>18 DEF Lost, Silent, flowVars
<1>19. ASSUME NEW k \in Keys, Expire(k) PROVE Silent
  <2>1. fsm' = fsm /\ Rewrite(None, "absent", {k})
    BY <1>19 DEF Expire, flowVars
  <2> QED BY <2>1 DEF Silent
<1>20. CASE UNCHANGED vars
  BY <1>20 DEF vars, flowVars, storeVars, Silent
<1> QED
  BY <1>2, <1>3, <1>4, <1>5, <1>6, <1>7, <1>8, <1>9, <1>10, <1>11, <1>12,
     <1>13, <1>14, <1>15, <1>16, <1>17, <1>18, <1>19, <1>20, <1>21 DEF Next

\* What has succeeded is the outcome of a positive verification or of an
\* identification, for any number of applications, connections, requests and
\* retries.
THEOREM SuccessIsEarned == Spec => []SucceedIsEarned
<1>1. Init => Untouched /\ SucceedIsEarned
  <2>1. \A c \in ExtConns : c \in Conns
    BY Structure
  <2>2. "keys" \in LookupKinds
    BY Structure
  <2> QED BY <2>1, <2>2 DEF Init, Untouched, Quiet, SucceedIsEarned
<1> QED
  BY <1>1, TypeCorrect, UntouchedStep, EarnedStep, PTL DEF Spec

\* No RPC method runs before, after some RPC was issued, a verification had a
\* positive result or an identification answered with a text (rpcutils runs
\* the method when the flow says "succeed").  That it was the own RPC which was
\* issued by then is CompleteIsEarned, which the runs check.
CompleteAfterResult == \A r \in Rpcs : rpc[r] = "complete" => earned # {}

THEOREM CompletionIsEarned == Spec => []CompleteAfterResult
<1>1. Init => CompleteAfterResult
  BY DEF Init, CompleteAfterResult
<1>2. TypeOK /\ SucceedIsEarned /\ CompleteAfterResult /\ [Next]_vars
        => CompleteAfterResult'
  <2> SUFFICES ASSUME TypeOK, SucceedIsEarned, CompleteAfterResult, [Next]_vars,
                      NEW r \in Rpcs, rpc'[r] = "complete", earned' = {}
               PROVE  FALSE
    BY DEF CompleteAfterResult
  <2>1. earned = {}
    BY EarnedGrows
  <2>2. rpc[r] # "complete" /\ \A c \in Conns : fsm[c] # "succeed"
    BY <2>1 DEF CompleteAfterResult, SucceedIsEarned
  <2>3. rpc \in [Rpcs -> {"new", "wait", "resolved", "complete", "fail"}]
    BY DEF TypeOK
  <2>4. ASSUME NEW c \in ExtConns, rpc' = Resolved(c) PROVE FALSE
    BY <2>2, <2>3, <2>4 DEF Resolved
  <2>5. \A q \in Rpcs : q[1] \in Conns
    BY Structure
  <2> QED BY <2>2, <2>3, <2>4, <2>5, RpcStep
<1> QED
  BY <1>1, <1>2, TypeCorrect, SuccessIsEarned, PTL DEF Spec

-----------------------------------------------------------------------------
(* Who hears of which key.                                                 *)

\* A subscription belongs to an opened connection of its application.
Subscribed ==
  \A a \in Apps : subscriber[a] # None =>
    subscriber[a][1] = a /\ conn[subscriber[a]] # "new"

\* News of a key reach only the two applications it names.
Addressed == \A a \in Apps : \A k \in inbox[a] : a = k[1] \/ a = k[2]

\* A flow is bound to keys of its own application.
OwnKeys ==
  /\ \A c \in ExtConns : key[c] # None => key[c][1] = c[1]
  /\ \A c \in ProbeConns : key[c] # None => key[c][2] = c[1]

\* A connection that was never opened is bound to nothing.
Unopened ==
  \A c \in Conns : conn[c] = "new" => key[c] = None /\ lookups[c]["keys"] = 0

\* The protocol of an open connection is not disconnected.
Connected ==
  \A c \in ProbeConns : engine[c] = "disconnected" => conn[c] \in {"closing", "closed"}

Routes == Subscribed /\ Addressed /\ OwnKeys /\ Unopened /\ Connected

\* A write is announced to the two applications of its key only.
LEMMA RewriteAddressed ==
  ASSUME Addressed, TypeOK, NEW k \in Keys \cup {None}, NEW s, NEW K \in SUBSET Keys,
         Rewrite(k, s, K)
  PROVE  Addressed'
BY DEF Rewrite, Announce, Addressed, Bound, Existing, TypeOK

\* The same for a plain write.
LEMMA StoreAddressed ==
  ASSUME Addressed, TypeOK, NEW k \in Keys \cup {None}, NEW s, Store(k, s)
  PROVE  Addressed'
BY RewriteAddressed DEF Store

\* Every step keeps the routes of notifications.
LEMMA RoutesStep ==
  ASSUME TypeOK, Routes, [Next]_vars
  PROVE  Routes'
<1>conn. conn \in [Conns -> {"new", "open", "closing", "closed"}]
  BY DEF TypeOK
<1>fsm. fsm \in [Conns -> States]
  BY DEF TypeOK
<1>key. key \in [Conns -> Keys \cup {None}]
  BY DEF TypeOK
<1>engine. engine \in [ProbeConns -> {"ready", "trying", "disconnected"}]
  BY DEF TypeOK
<1>subscriber. subscriber \in [Apps -> Conns \cup {None}]
  BY DEF TypeOK
<1>inbox. inbox \in [Apps -> SUBSET Keys]
  BY DEF TypeOK
<1>lookups. /\ lookups \in [Conns -> [LookupKinds -> Nat]]
            /\ "keys" \in LookupKinds /\ "off" \in LookupKinds
  BY Structure DEF TypeOK
<1>waiting. waiting \in [ProbeApps -> Seq(ExtApps)]
  BY DEF TypeOK
<1>ext. \A c \in ExtConns : /\ c \in Conns /\ c[1] \in ExtApps /\ c[1] \in Apps
                            /\ c \notin ProbeConns
  BY Structure
<1>probe. \A c \in ProbeConns : /\ c \in Conns /\ c[1] \in ProbeApps
                                /\ c[1] \in Apps /\ c \notin ExtConns
  BY Structure
<1>keys. \A e \in ExtApps, p \in ProbeApps :
           <<e, p>> \in Keys /\ <<e, p>>[1] = e /\ <<e, p>>[2] = p /\ e # p
  BY Structure
<1>old. Subscribed /\ Addressed /\ OwnKeys /\ Unopened /\ Connected
  BY DEF Routes
<1>none. None \notin Conns /\ None \notin Keys
  BY NoneIsFresh
<1>1. ASSUME NEW c \in ExtConns, OpenExt(c) PROVE Routes'
  <2>1. Subscribed'
    BY <1>1, <1>old, <1>conn, <1>subscriber, <1>ext DEF OpenExt, Subscribed
  <2>2. Addressed' /\ OwnKeys'
    BY <1>1, <1>old DEF OpenExt, Addressed, OwnKeys, storeVars
  <2>3. Unopened' /\ Connected'
    BY <1>1, <1>old, <1>conn, <1>ext
       DEF OpenExt, Unopened, Connected, lookVars
  <2> QED BY <2>1, <2>2, <2>3 DEF Routes
<1>2. ASSUME NEW c \in ExtConns, FindProbe(c) PROVE Routes'
  <2>1. UNCHANGED <<conn, subscriber, engine>>
    BY <1>2 DEF FindProbe
  <2>2. lookups[c]["keys"] > 0 /\ lookups' = [lookups EXCEPT ![c]["keys"] = @ - 1]
    BY <1>2 DEF FindProbe
  <2>3. linked[c[1]] \subseteq ProbeApps /\ online \subseteq ProbeApps
    BY <1>ext DEF TypeOK
  <2>4. \/ \E p \in ProbeApps, K \in SUBSET Keys :
             /\ key' = [key EXCEPT ![c] = <<c[1], p>>]
             /\ Rewrite(<<c[1], p>>, "wait", K)
        \/ UNCHANGED <<key, inbox>>
    BY <1>2, <2>3 DEF FindProbe, Rivals, storeVars
  <2>5. Addressed'
    <3>1. CASE UNCHANGED <<key, inbox>>
      BY <3>1, <1>old DEF Addressed
    <3>2. CASE ~UNCHANGED <<key, inbox>>
      BY <2>4, <3>2, <1>old, <1>ext, <1>keys, RewriteAddressed
    <3> QED BY <3>1, <3>2
  <2>6. \/ key' = key
        \/ \E x \in Keys : x[1] = c[1] /\ key' = [key EXCEPT ![c] = x]
    BY <2>4, <1>ext, <1>keys
  <2>7. OwnKeys' /\ Unopened'
    <3>1. conn[c] # "new"
      BY <2>2, <1>old, <1>ext DEF Unopened
    <3>2. OwnKeys'
      BY <2>6, <1>old, <1>key, <1>ext, <1>probe DEF OwnKeys
    <3>3. Unopened'
      BY <2>1, <2>2, <2>6, <3>1, <1>old, <1>key, <1>lookups, <1>ext DEF Unopened
    <3> QED BY <3>2, <3>3
  <2>8. Subscribed' /\ Connected'
    BY <2>1, <1>old DEF Subscribed, Connected
  <2> QED BY <2>5, <2>7, <2>8 DEF Routes
<1>3. ASSUME NEW c \in ExtConns, CloseExt(c) PROVE Routes'
  <2>1. /\ \E x \in {"closing", "closed"} : conn' = [conn EXCEPT ![c] = x]
        /\ subscriber' = [subscriber EXCEPT ![c[1]] = None]
        /\ lookups' = StartLookup(c, "off")
        /\ UNCHANGED <<key, engine>>
        /\ \E s : Store(key[c], s)
    BY <1>3 DEF CloseExt, Shut
  <2>2. Addressed'
    BY <2>1, <1>old, <1>key, <1>ext, StoreAddressed
  <2>3. Subscribed' /\ Connected'
    BY <2>1, <1>old, <1>conn, <1>subscriber, <1>ext, <1>probe
       DEF Subscribed, Connected
  <2>4. OwnKeys' /\ Unopened'
    BY <2>1, <1>old, <1>conn, <1>lookups, <1>ext DEF OwnKeys, Unopened, StartLookup
  <2> QED BY <2>2, <2>3, <2>4 DEF Routes
<1>20. ASSUME NEW c \in ExtConns, CloseUnrequested(c) PROVE Routes'
  <2>1. /\ \E x \in {"open", "closing", "closed"} : conn' = [conn EXCEPT ![c] = x]
        /\ UNCHANGED <<key, engine, subscriber, inbox, lookups>>
    BY <1>20 DEF CloseUnrequested, storeVars, lookVars
  <2>2. conn[c] # "new"
    BY <1>20 DEF CloseUnrequested
  <2> QED
    BY <2>1, <2>2, <1>old, <1>conn, <1>ext, <1>probe
       DEF Routes, Subscribed, Addressed, OwnKeys, Unopened, Connected
<1>4. ASSUME NEW c \in ExtConns, LeaveExt(c) PROVE Routes'
  <2>1. /\ lookups' = [lookups EXCEPT ![c]["off"] = @ - 1]
        /\ UNCHANGED <<conn, subscriber, key, engine, inbox>>
    BY <1>4 DEF LeaveExt, flowVars, storeVars
  <2>2. Unopened'
    BY <2>1, <1>old, <1>lookups, <1>ext DEF Unopened
  <2> QED
    BY <2>1, <2>2, <1>old DEF Routes, Subscribed, Addressed, OwnKeys, Connected
<1>5. ASSUME NEW c \in ExtConns, NEW k \in Keys, ExtNews(c, k) PROVE Routes'
  <2>1. /\ k \in inbox[c[1]] /\ subscriber[c[1]] = c
        /\ inbox' = [inbox EXCEPT ![c[1]] = @ \ {k}]
        /\ key' = [key EXCEPT ![c] = k] \/ key' = [key EXCEPT ![c] = key[c]]
        /\ UNCHANGED <<conn, subscriber, engine, lookups>>
    BY <1>5 DEF ExtNews, lookVars
  <2>2. k[1] = c[1] /\ conn[c] # "new"
    <3>1. k[1] = c[1] \/ k[2] = c[1]
      BY <2>1, <1>old, <1>ext DEF Addressed
    <3>2. k[2] \in ProbeApps /\ ExtApps \cap ProbeApps = {}
      BY Structure
    <3> QED BY <2>1, <3>1, <3>2, <1>old, <1>ext, <1>none DEF Subscribed
  <2>3. Addressed'
    BY <2>1, <1>old, <1>inbox, <1>ext DEF Addressed
  <2>4. OwnKeys' /\ Unopened'
    BY <2>1, <2>2, <1>old, <1>key, <1>ext, <1>probe DEF OwnKeys, Unopened
  <2> QED BY <2>1, <2>3, <2>4, <1>old DEF Routes, Subscribed, Connected
<1>6. ASSUME NEW r \in Rpcs, Request(r) PROVE Routes'
  <2>1. r[1] \in ExtConns /\ r[1] \in Conns
    BY Structure
  <2>2. /\ conn[r[1]] # "new"
        /\ lookups' = StartLookup(r[1], "keys")
        /\ \E s : Store(key[r[1]], s)
        /\ UNCHANGED <<conn, subscriber, key, engine>>
    BY <1>6 DEF Request
  <2>3. Addressed'
    BY <2>1, <2>2, <1>old, <1>key, StoreAddressed
  <2>4. Unopened'
    BY <2>1, <2>2, <1>old, <1>lookups DEF Unopened, StartLookup
  <2> QED
    BY <2>2, <2>3, <2>4, <1>old DEF Routes, Subscribed, OwnKeys, Connected
<1>7. ASSUME NEW r \in Rpcs, RequestRefused(r) \/ Resume(r) PROVE Routes'
  BY <1>7, <1>old
     DEF Routes, RequestRefused, Resume, flowVars, storeVars, lookVars,
         Subscribed, Addressed, OwnKeys, Unopened, Connected
<1>8. ASSUME NEW c \in ProbeConns, OpenProbe(c) PROVE Routes'
  <2> DEFINE e == Head(waiting[c[1]])
  <2>1. /\ conn[c] = "new" /\ conn' = [conn EXCEPT ![c] = "open"]
        /\ subscriber' = [subscriber EXCEPT ![c[1]] = c]
    BY <1>8 DEF OpenProbe, Fresh
  <2>2. Subscribed'
    BY <2>1, <1>old, <1>conn, <1>subscriber, <1>probe DEF Subscribed
  <2>3. CASE waiting[c[1]] # <<>>
    <3>1. e \in ExtApps
      BY <2>3, <1>waiting, <1>probe
    <3>2. /\ key' = [key EXCEPT ![c] = <<e, c[1]>>]
          /\ engine' = [engine EXCEPT ![c] = "trying"]
          /\ \E K \in SUBSET Keys : Rewrite(<<e, c[1]>>, "wait", K)
          /\ lookups' = StartLookup(c, e)
      BY <1>8, <2>3 DEF OpenProbe, Rivals
    <3> HIDE DEF e
    <3>3. <<e, c[1]>> \in Keys /\ <<e, c[1]>>[2] = c[1]
      BY <3>1, <1>keys, <1>probe
    <3>4. Addressed'
      BY <3>2, <3>3, <1>old, RewriteAddressed
    <3>5. OwnKeys'
      BY <3>2, <3>3, <1>old, <1>key, <1>probe, <1>ext DEF OwnKeys
    <3>6. Unopened'
      BY <2>1, <3>2, <1>old, <1>conn, <1>key, <1>lookups, <1>probe
         DEF Unopened, StartLookup
    <3>7. Connected'
      BY <2>1, <3>2, <1>old, <1>conn, <1>engine, <1>probe DEF Connected
    <3> QED BY <2>2, <3>4, <3>5, <3>6, <3>7 DEF Routes
  <2>4. CASE waiting[c[1]] = <<>>
    <3>1. /\ UNCHANGED <<key, engine>>
          /\ \E K \in SUBSET Keys : Rewrite(None, "absent", K)
          /\ lookups' = StartLookup(c, "keys")
      BY <1>8, <2>4 DEF OpenProbe
    <3>2. Addressed'
      BY <3>1, <1>old, RewriteAddressed
    <3>3. OwnKeys'
      BY <3>1, <1>old DEF OwnKeys
    <3>4. Unopened'
      BY <2>1, <3>1, <1>old, <1>conn, <1>key, <1>lookups, <1>probe
         DEF Unopened, StartLookup
    <3>5. Connected'
      BY <2>1, <3>1, <1>old, <1>conn, <1>probe DEF Connected
    <3> QED BY <2>2, <3>2, <3>3, <3>4, <3>5 DEF Routes
  <2> QED BY <2>3, <2>4
<1>9. ASSUME NEW c \in ProbeConns, AnnounceProbe(c) PROVE Routes'
  <2>1. /\ lookups[c]["keys"] > 0
        /\ lookups' = [lookups EXCEPT ![c]["keys"] = @ - 1]
        /\ UNCHANGED <<conn, subscriber, key, engine, inbox>>
    BY <1>9 DEF AnnounceProbe, flowVars, storeVars
  <2>2. Unopened'
    BY <2>1, <1>old, <1>lookups, <1>probe DEF Unopened
  <2> QED
    BY <2>1, <2>2, <1>old DEF Routes, Subscribed, Addressed, OwnKeys, Connected
<1>10. ASSUME NEW c \in ProbeConns, LeaveProbe(c) PROVE Routes'
  <2>1. /\ lookups' = [lookups EXCEPT ![c]["off"] = @ - 1]
        /\ UNCHANGED <<conn, subscriber, key, engine>>
        /\ \E K \in SUBSET Keys : Rewrite(None, "absent", K)
    BY <1>10 DEF LeaveProbe, flowVars, Rivals
  <2>2. Unopened'
    BY <2>1, <1>old, <1>lookups, <1>probe DEF Unopened
  <2>3. Addressed'
    BY <2>1, <1>old, RewriteAddressed
  <2> QED
    BY <2>1, <2>2, <2>3, <1>old DEF Routes, Subscribed, OwnKeys, Connected
<1>11. ASSUME NEW c \in ProbeConns, NEW e \in ExtApps, ResetOthers(c, e)
       PROVE Routes'
  <2>1. /\ lookups[c][e] > 0
        /\ lookups' = [lookups EXCEPT ![c][e] = @ - 1]
        /\ UNCHANGED <<conn, subscriber, key, engine, inbox>>
    BY <1>11 DEF ResetOthers, flowVars, storeVars
  <2>2. Unopened'
    <3>1. e \in LookupKinds
      BY Structure
    <3> QED BY <2>1, <3>1, <1>old, <1>lookups, <1>probe DEF Unopened
  <2> QED
    BY <2>1, <2>2, <1>old DEF Routes, Subscribed, Addressed, OwnKeys, Connected
<1>12. ASSUME NEW c \in ProbeConns, SendSamples(c) \/ CancelProbe(c)
       PROVE  Routes'
  <2>1. /\ conn[c] = "open" /\ engine' = [engine EXCEPT ![c] = "ready"]
        /\ UNCHANGED <<conn, subscriber, key, lookups>>
        /\ inbox' = inbox \/ \E s : Store(key[c], s)
    BY <1>12 DEF SendSamples, CancelProbe, lookVars, storeVars
  <2>2. Addressed'
    <3>1. CASE inbox' = inbox
      BY <3>1, <1>old DEF Addressed
    <3>2. CASE \E s : Store(key[c], s)
      BY <3>2, <1>old, <1>key, <1>probe, StoreAddressed
    <3> QED BY <2>1, <3>1, <3>2
  <2>3. Connected'
    BY <2>1, <1>old, <1>engine DEF Connected
  <2> QED
    BY <2>1, <2>2, <2>3, <1>old DEF Routes, Subscribed, OwnKeys, Unopened
<1>13. ASSUME NEW c \in ProbeConns,
              DropProbe(c) \/ \E s \in {"ready", "trying", "disconnected"} :
                                ExpelProbe(c, s)
       PROVE  Routes'
  <2>1. /\ \E x \in {"closing", "closed"} : conn' = [conn EXCEPT ![c] = x]
        /\ engine' = engine \/ \E s : engine' = [engine EXCEPT ![c] = s]
        /\ UNCHANGED key
        /\ UNCHANGED subscriber \/ subscriber' = [subscriber EXCEPT ![c[1]] = None]
        /\ UNCHANGED lookups \/ lookups' = StartLookup(c, "off")
        /\ inbox' = inbox \/ \E s : Store(key[c], s)
    BY <1>13 DEF DropProbe, ExpelProbe, Disconnected, Shut, lookVars, storeVars
  <2>2. Addressed'
    <3>1. CASE inbox' = inbox
      BY <3>1, <1>old DEF Addressed
    <3>2. CASE \E s : Store(key[c], s)
      BY <3>2, <1>old, <1>key, <1>probe, StoreAddressed
    <3> QED BY <2>1, <3>1, <3>2
  <2>3. Subscribed'
    BY <2>1, <1>old, <1>conn, <1>subscriber, <1>probe DEF Subscribed
  <2>4. OwnKeys' /\ Unopened'
    BY <2>1, <1>old, <1>conn, <1>lookups, <1>probe
       DEF OwnKeys, Unopened, StartLookup
  <2>5. Connected'
    BY <2>1, <1>old, <1>conn, <1>engine, <1>probe DEF Connected
  <2> QED BY <2>2, <2>3, <2>4, <2>5 DEF Routes
<1>14. ASSUME NEW c \in ProbeConns, NEW k \in Keys, ProbeNews(c, k) PROVE Routes'
  <2> DEFINE seen == [inbox EXCEPT ![c[1]] = @ \ {k}]
             k2 == IF key[c] # k /\ redis[k] # "absent" THEN k ELSE key[c]
  <2>1. /\ k \in inbox[c[1]] /\ subscriber[c[1]] = c
        /\ key' = [key EXCEPT ![c] = k2]
        /\ \E s \in {"ready", "trying", engine[c]} :
             engine' = [engine EXCEPT ![c] = s]
        /\ UNCHANGED lookups \/ lookups' = StartLookup(c, "off")
        /\ UNCHANGED <<conn, subscriber>>
    BY <1>14 DEF ProbeNews
  <2>a. inbox' = seen \/ (k2 # None /\ inbox' = Announce(seen, {k2}))
    BY <1>14, <1>probe, <1>fsm DEF ProbeNews
  <2>2. k[2] = c[1] /\ conn[c] # "new"
    <3>1. k[1] = c[1] \/ k[2] = c[1]
      BY <2>1, <1>old, <1>probe DEF Addressed
    <3>2. k[1] \in ExtApps /\ ExtApps \cap ProbeApps = {}
      BY Structure
    <3> QED BY <2>1, <3>1, <3>2, <1>old, <1>probe, <1>none DEF Subscribed
  <2>3. k2 \in Keys \cup {None} /\ (k2 # None => k2[2] = c[1])
    BY <2>2, <1>old, <1>key, <1>probe DEF OwnKeys
  <2>4. Addressed'
    BY <2>1, <2>a, <2>3, <1>old, <1>inbox, <1>probe DEF Addressed, Announce
  <2> HIDE DEF k2
  <2>5. OwnKeys'
    BY <2>1, <2>3, <1>old, <1>key, <1>probe, <1>ext DEF OwnKeys
  <2>6. Unopened'
    BY <2>1, <2>2, <1>old, <1>key, <1>lookups, <1>probe DEF Unopened, StartLookup
  <2>7. Connected'
    BY <2>1, <1>old, <1>engine DEF Connected
  <2> QED BY <2>1, <2>4, <2>5, <2>6, <2>7, <1>old DEF Routes, Subscribed
<1>15. ASSUME NEW v \in Verdicts, JobDone(v) PROVE Routes'
  <2>1. /\ UNCHANGED <<conn, subscriber, key, lookups>>
        /\ \/ engine' = engine
           \/ plugin # None /\ engine' = [engine EXCEPT ![plugin] = "trying"]
        /\ inbox' = inbox \/ \E s : plugin # None /\ Store(key[plugin], s)
    BY <1>15 DEF JobDone, lookVars, storeVars
  <2>2. plugin # None => plugin \in ProbeConns
    BY DEF TypeOK
  <2>3. Addressed'
    <3>1. CASE inbox' = inbox
      BY <3>1, <1>old DEF Addressed
    <3>2. CASE \E s : plugin # None /\ Store(key[plugin], s)
      BY <2>2, <3>2, <1>old, <1>key, <1>probe, StoreAddressed
    <3> QED BY <2>1, <3>1, <3>2
  <2>4. Connected'
    BY <2>1, <2>2, <1>old, <1>engine DEF Connected
  <2> QED
    BY <2>1, <2>3, <2>4, <1>old DEF Routes, Subscribed, OwnKeys, Unopened
<1>16. ASSUME NEW a \in Apps, NEW k \in Keys, Lost(a, k) PROVE Routes'
  <2>1. /\ inbox' = [inbox EXCEPT ![a] = @ \ {k}]
        /\ UNCHANGED <<conn, subscriber, key, engine, lookups>>
    BY <1>16 DEF Lost, flowVars, lookVars
  <2> QED
    BY <2>1, <1>old, <1>inbox
       DEF Routes, Subscribed, Addressed, OwnKeys, Unopened, Connected
<1>17. ASSUME NEW k \in Keys, Expire(k) PROVE Routes'
  <2>1. /\ Rewrite(None, "absent", {k})
        /\ UNCHANGED <<conn, subscriber, key, engine, lookups>>
    BY <1>17 DEF Expire, flowVars, lookVars
  <2>2. Addressed'
    BY <2>1, <1>old, RewriteAddressed
  <2> QED
    BY <2>1, <2>2, <1>old DEF Routes, Subscribed, OwnKeys, Unopened, Connected
<1>18. CASE UNCHANGED vars
  BY <1>18, <1>old
     DEF vars, flowVars, storeVars, lookVars,
         Routes, Subscribed, Addressed, OwnKeys, Unopened, Connected
<1> QED
  BY <1>1, <1>2, <1>3, <1>4, <1>5, <1>6, <1>7, <1>8, <1>9, <1>10, <1>11,
     <1>12, <1>13, <1>14, <1>15, <1>16, <1>17, <1>18, <1>20 DEF Next

-----------------------------------------------------------------------------
(* Every state is published.                                               *)

\* What a flow that has seen all news knows about its key stays true.
Kept(d) ==
  key[d] # None /\ redis'[key[d]] # "absent" /\ key[d] \notin inbox'[d[1]] =>
    key[d] \notin inbox[d[1]] /\ redis'[key[d]] = redis[key[d]]

\* A flow keeps its place if it is not newly reachable and nothing of it
\* changes.
Unmoved(d) ==
  /\ conn'[d] = "open" /\ subscriber'[d[1]] = d => Current(d)
  /\ fsm'[d] = fsm[d] /\ key'[d] = key[d]
  /\ d \in ProbeConns => engine'[d] = engine[d]
  /\ d \in ExtConns => callback'[d] = callback[d]

\* A flow that a step leaves alone, and whose key it leaves alone or
\* announces, agrees with its key afterwards.
LEMMA Undisturbed ==
  ASSUME NEW d \in Conns, Agrees(d), Kept(d), Unmoved(d)
  PROVE  Agrees(d)'
BY DEF Agrees, Kept, Unmoved, Current

\* The own application of a flow hears of its key.
LEMMA OwnNews ==
  ASSUME TypeOK, OwnKeys, NEW d \in Conns, key[d] # None
  PROVE  key[d] \in Keys /\ (d[1] = key[d][1] \/ d[1] = key[d][2]) /\ d[1] \in Apps
BY Structure DEF TypeOK, OwnKeys, Conns

\* Whoever writes a key tells every flow bound to it.
LEMMA RewriteKeeps ==
  ASSUME TypeOK, OwnKeys, NEW k \in Keys \cup {None}, NEW s,
         NEW K \in SUBSET Keys, Rewrite(k, s, K), NEW d \in Conns
  PROVE  Kept(d)
<1> SUFFICES ASSUME key[d] # None PROVE Kept(d)
  BY DEF Kept
<1>1. key[d] \in Keys /\ (d[1] = key[d][1] \/ d[1] = key[d][2]) /\ d[1] \in Apps
  BY OwnNews
<1> QED
  BY <1>1 DEF Kept, Rewrite, Announce, Bound, Existing, TypeOK

\* The same for a plain write.
LEMMA StoreKeeps ==
  ASSUME TypeOK, OwnKeys, NEW k \in Keys \cup {None}, NEW s, Store(k, s),
         NEW d \in Conns
  PROVE  Kept(d)
BY RewriteKeeps DEF Store

\* A step that writes nothing and takes no news away keeps a flow informed.
LEMMA SilenceKeeps ==
  ASSUME UNCHANGED <<redis, inbox>>, NEW d \in Conns
  PROVE  Kept(d)
BY DEF Kept

\* A flow that enters the state it writes agrees with its key.
LEMMA WriterAgrees ==
  ASSUME NEW d \in Conns, NEW k \in Keys \cup {None}, NEW s, NEW K,
         Rewrite(k, s, K), key'[d] = k, fsm'[d] = s
  PROVE  Agrees(d)'
BY NoneIsFresh DEF Agrees, Rewrite

\* Nothing is asked of a flow whose websocket is gone.
LEMMA ClosedAgrees ==
  ASSUME NEW d \in Conns, conn'[d] \in {"closing", "closed"}
  PROVE  Agrees(d)'
BY DEF Agrees, Current

\* The step of an extension's connection.
LEMMA ExtAgrees ==
  ASSUME TypeOK, Routes, StateIsPublished, NEW c \in ExtConns,
         OpenExt(c) \/ FindProbe(c) \/ CloseExt(c) \/ LeaveExt(c)
               \/ CloseUnrequested(c)
           \/ \E k \in Keys : ExtNews(c, k),
         NEW d \in Conns
  PROVE  Agrees(d)'
<1>conn. conn \in [Conns -> {"new", "open", "closing", "closed"}]
  BY DEF TypeOK
<1>fsm. fsm \in [Conns -> States]
  BY DEF TypeOK
<1>key. key \in [Conns -> Keys \cup {None}]
  BY DEF TypeOK
<1>subscriber. subscriber \in [Apps -> Conns \cup {None}]
  BY DEF TypeOK
<1>inbox. inbox \in [Apps -> SUBSET Keys]
  BY DEF TypeOK
<1>ext. c \in Conns /\ c[1] \in ExtApps /\ c[1] \in Apps /\ c \notin ProbeConns
  BY Structure
<1>own. OwnKeys
  BY DEF Routes
<1>old. Agrees(d) /\ d[1] \in Apps
  BY Structure DEF StateIsPublished, Conns
<1>callback. callback' = callback
  BY DEF OpenExt, FindProbe, CloseExt, CloseUnrequested, LeaveExt, ExtNews, rpcVars
<1>1. CASE OpenExt(c)
  <2>1. Kept(d)
    BY <1>1, SilenceKeeps DEF OpenExt, storeVars
  <2>2. CASE d = c
    <3>1. key'[d] = None
      BY <1>1, <2>2, <1>ext DEF OpenExt, Fresh, Routes, Unopened
    <3> QED BY <3>1 DEF Agrees
  <2>3. CASE d # c
    <3>1. Unmoved(d)
      BY <1>callback, <1>1, <2>3, <1>conn, <1>subscriber, <1>ext, <1>old
         DEF OpenExt, Unmoved, Current
    <3> QED BY <2>1, <3>1, <1>old, Undisturbed
  <2> QED BY <2>2, <2>3
<1>2. CASE FindProbe(c)
  <2>1. linked[c[1]] \subseteq ProbeApps /\ online \subseteq ProbeApps
    BY <1>ext DEF TypeOK
  <2>2. /\ UNCHANGED <<conn, fsm, subscriber, engine>>
        /\ \/ UNCHANGED <<key, redis, inbox>>
           \/ \E p \in ProbeApps, K \in SUBSET Keys :
                /\ key' = [key EXCEPT ![c] = <<c[1], p>>]
                /\ Rewrite(<<c[1], p>>, "wait", K)
    BY <1>2, <2>1 DEF FindProbe, Rivals, storeVars
  <2>3. CASE UNCHANGED <<key, redis, inbox>>
    BY <1>callback, <2>2, <2>3, <1>old, SilenceKeeps, Undisturbed DEF Unmoved, Current
  <2>4. ASSUME NEW p \in ProbeApps, NEW K \in SUBSET Keys,
               key' = [key EXCEPT ![c] = <<c[1], p>>],
               Rewrite(<<c[1], p>>, "wait", K)
        PROVE  Agrees(d)'
    <3>1. <<c[1], p>> \in Keys /\ <<c[1], p>>[1] = c[1]
      BY <1>ext, Structure
    <3>2. CASE d = c
      <4>1. <<c[1], p>> \in inbox'[c[1]]
        BY <2>4, <3>1, <1>ext, NoneIsFresh DEF Rewrite, Announce, Bound
      <4> QED BY <2>4, <3>2, <4>1, <1>key, <1>ext DEF Agrees
    <3>3. CASE d # c
      <4>1. Kept(d)
        BY <2>4, <3>1, <1>own, RewriteKeeps
      <4>2. Unmoved(d)
        BY <1>callback, <2>2, <2>4, <3>3, <1>key, <1>ext DEF Unmoved, Current
      <4> QED BY <4>1, <4>2, <1>old, Undisturbed
    <3> QED BY <3>2, <3>3
  <2> QED BY <2>2, <2>3, <2>4
<1>3. CASE CloseExt(c)
  <2>1. /\ \E x \in {"closing", "closed"} : conn' = [conn EXCEPT ![c] = x]
        /\ subscriber' = [subscriber EXCEPT ![c[1]] = None]
        /\ \E s : fsm' = [fsm EXCEPT ![c] = s] /\ Store(key[c], s)
        /\ UNCHANGED <<key, engine>>
    BY <1>3 DEF CloseExt, Shut
  <2>2. CASE d = c
    BY <2>1, <2>2, <1>conn, <1>ext, ClosedAgrees
  <2>3. CASE d # c
    <3>1. Kept(d)
      BY <2>1, <1>key, <1>ext, <1>own, StoreKeeps
    <3>2. Unmoved(d)
      BY <1>callback, <2>1, <2>3, <1>conn, <1>fsm, <1>subscriber, <1>ext, <1>old, NoneIsFresh
         DEF Unmoved, Current
    <3> QED BY <3>1, <3>2, <1>old, Undisturbed
  <2> QED BY <2>2, <2>3
<1>6. CASE CloseUnrequested(c)
  <2>1. /\ \E x \in {"open", "closing", "closed"} : conn' = [conn EXCEPT ![c] = x]
        /\ fsm' = [fsm EXCEPT ![c] = "canceled"] /\ callback[c] = 0
        /\ UNCHANGED <<key, engine, subscriber, redis, inbox>>
        /\ conn[c] \in {"open", "closing"} /\ (conn[c] = "closing" => conn'[c] = "closed")
    BY <1>6, <1>conn, <1>ext DEF CloseUnrequested, Unrequested, storeVars
  <2>2. CASE d = c
    BY <2>1, <2>2, <1>callback, <1>fsm, <1>ext DEF Agrees
  <2>3. CASE d # c
    BY <2>1, <2>3, <1>callback, <1>conn, <1>fsm, <1>ext, <1>old, SilenceKeeps,
       Undisturbed DEF Unmoved, Current
  <2> QED BY <2>2, <2>3
<1>4. CASE LeaveExt(c)
  <2>1. UNCHANGED <<conn, fsm, key, engine, subscriber, redis, inbox>>
    BY <1>4 DEF LeaveExt, flowVars, storeVars
  <2> QED BY <1>callback, <2>1, <1>old, SilenceKeeps, Undisturbed DEF Unmoved, Current
<1>5. ASSUME NEW k \in Keys, ExtNews(c, k) PROVE Agrees(d)'
  <2> DEFINE k2 == IF key[c] # k /\ redis[k] # "absent" THEN k ELSE key[c]
             s  == IF k2 = None THEN "absent" ELSE redis[k2]
  <2>1. /\ subscriber[c[1]] = c
        /\ inbox' = [inbox EXCEPT ![c[1]] = @ \ {k}]
        /\ key' = [key EXCEPT ![c] = k2]
        /\ fsm' = [fsm EXCEPT ![c] = IF s = "absent" THEN fsm[c] ELSE s]
        /\ UNCHANGED <<conn, subscriber, engine, redis>>
    BY <1>5 DEF ExtNews
  <2>2. CASE d = c
    <3>1. key'[d] = k2 /\ (s # "absent" => fsm'[d] = s)
      BY <2>1, <2>2, <1>key, <1>fsm, <1>ext
    <3>2. k2 # None => redis'[k2] = s
      BY <2>1
    <3> HIDE DEF k2, s
    <3> QED BY <3>1, <3>2 DEF Agrees
  <2>3. CASE d # c
    <3>1. CASE d[1] = c[1]
      BY <1>callback, <2>1, <2>3, <3>1 DEF Agrees, Current
    <3>2. CASE d[1] # c[1]
      <4>1. key'[d] = key[d] /\ fsm'[d] = fsm[d] /\ inbox'[d[1]] = inbox[d[1]]
        BY <2>1, <2>3, <3>2, <1>key, <1>fsm, <1>inbox, <1>ext, <1>old
      <4> QED BY <1>callback, <2>1, <4>1, <1>old DEF Agrees, Current
    <3> QED BY <3>1, <3>2
  <2> QED BY <2>2, <2>3
<1> QED BY <1>1, <1>2, <1>3, <1>4, <1>5, <1>6

\* An RPC puts its extension's flow and the key into the same state.
LEMMA RequestAgrees ==
  ASSUME TypeOK, Routes, StateIsPublished, NEW r \in Rpcs,
         Request(r) \/ RequestRefused(r) \/ Resume(r),
         NEW d \in Conns
  PROVE  Agrees(d)'
<1>fsm. fsm \in [Conns -> States]
  BY DEF TypeOK
<1>key. key \in [Conns -> Keys \cup {None}]
  BY DEF TypeOK
<1>callback. callback \in [ExtConns -> 0..MaxRpcs]
  BY DEF TypeOK
<1>ext. r[1] \in ExtConns /\ r[1] \in Conns /\ r[1] \notin ProbeConns
  BY Structure
<1>own. OwnKeys
  BY DEF Routes
<1>old. Agrees(d)
  BY DEF StateIsPublished
<1>1. CASE Request(r)
  <2>1. /\ fsm' = [fsm EXCEPT ![r[1]] = "wait"]
        /\ callback' = [callback EXCEPT ![r[1]] = r[2]]
        /\ Rewrite(key[r[1]], "wait", {})
        /\ UNCHANGED <<conn, key, engine, subscriber>>
    BY <1>1 DEF Request, Store
  <2>2. CASE d = r[1]
    BY <2>1, <2>2, <1>fsm, <1>key, <1>ext, WriterAgrees
  <2>3. CASE d # r[1]
    <3>1. Kept(d)
      BY <2>1, <1>key, <1>ext, <1>own, RewriteKeeps
    <3>2. Unmoved(d)
      BY <1>callback, <2>1, <2>3, <1>fsm, <1>ext DEF Unmoved, Current
    <3> QED BY <3>1, <3>2, <1>old, Undisturbed
  <2> QED BY <2>2, <2>3
<1>2. CASE RequestRefused(r) \/ Resume(r)
  <2>1. UNCHANGED <<conn, fsm, key, engine, subscriber, redis, inbox, callback>>
    BY <1>2 DEF RequestRefused, Resume, flowVars, storeVars
  <2> QED BY <1>callback, <2>1, <1>old, SilenceKeeps, Undisturbed DEF Unmoved, Current
<1> QED BY <1>1, <1>2

\* The step of a phone's connection.
LEMMA ProbeAgrees ==
  ASSUME TypeOK, Routes, StateIsPublished, NEW c \in ProbeConns,
         \/ OpenProbe(c) \/ AnnounceProbe(c) \/ LeaveProbe(c)
         \/ SendSamples(c) \/ CancelProbe(c) \/ DropProbe(c)
         \/ \E e \in ExtApps : ResetOthers(c, e)
         \/ \E k \in Keys : ProbeNews(c, k)
         \/ \E s \in {"ready", "trying", "disconnected"} : ExpelProbe(c, s),
         NEW d \in Conns
  PROVE  Agrees(d)'
<1>conn. conn \in [Conns -> {"new", "open", "closing", "closed"}]
  BY DEF TypeOK
<1>fsm. fsm \in [Conns -> States]
  BY DEF TypeOK
<1>key. key \in [Conns -> Keys \cup {None}]
  BY DEF TypeOK
<1>engine. engine \in [ProbeConns -> {"ready", "trying", "disconnected"}]
  BY DEF TypeOK
<1>subscriber. subscriber \in [Apps -> Conns \cup {None}]
  BY DEF TypeOK
<1>inbox. inbox \in [Apps -> SUBSET Keys]
  BY DEF TypeOK
<1>waiting. waiting \in [ProbeApps -> Seq(ExtApps)]
  BY DEF TypeOK
<1>probe. c \in Conns /\ c[1] \in ProbeApps /\ c[1] \in Apps /\ c \notin ExtConns
  BY Structure
<1>own. OwnKeys
  BY DEF Routes
<1>old. Agrees(d) /\ d[1] \in Apps
  BY Structure DEF StateIsPublished, Conns
<1>callback. callback' = callback
  <2>1. CASE OpenProbe(c) \/ AnnounceProbe(c) \/ LeaveProbe(c) \/ SendSamples(c)
               \/ CancelProbe(c) \/ DropProbe(c)
    BY <2>1 DEF OpenProbe, AnnounceProbe, LeaveProbe, SendSamples, CancelProbe,
                DropProbe, rpcVars
  <2>2. CASE \/ \E e \in ExtApps : ResetOthers(c, e)
             \/ \E k \in Keys : ProbeNews(c, k)
             \/ \E s \in {"ready", "trying", "disconnected"} : ExpelProbe(c, s)
    BY <2>2 DEF ResetOthers, ProbeNews, ExpelProbe, rpcVars
  <2> QED BY <2>1, <2>2
<1>none. None \notin Conns /\ None \notin Keys
  BY NoneIsFresh
<1>1. CASE OpenProbe(c)
  <2> DEFINE e == Head(waiting[c[1]])
  <2>1. /\ conn[c] = "new" /\ key[c] = None
        /\ conn' = [conn EXCEPT ![c] = "open"]
        /\ subscriber' = [subscriber EXCEPT ![c[1]] = c]
    BY <1>1, <1>probe DEF OpenProbe, Fresh, Routes, Unopened
  <2>2. CASE waiting[c[1]] # <<>>
    <3>1. e \in ExtApps
      BY <2>2, <1>waiting, <1>probe
    <3>2. /\ key' = [key EXCEPT ![c] = <<e, c[1]>>]
          /\ fsm' = [fsm EXCEPT ![c] = "wait"]
          /\ engine' = [engine EXCEPT ![c] = "trying"]
          /\ \E K \in SUBSET Keys : Rewrite(<<e, c[1]>>, "wait", K)
      BY <1>1, <2>2 DEF OpenProbe, Rivals
    <3> HIDE DEF e
    <3>3. <<e, c[1]>> \in Keys
      BY <3>1, <1>probe, Structure
    <3>4. CASE d = c
      BY <3>2, <3>3, <3>4, <1>key, <1>fsm, <1>probe, WriterAgrees
    <3>5. CASE d # c
      <4>1. Kept(d)
        BY <3>2, <3>3, <1>own, RewriteKeeps
      <4>2. Unmoved(d)
        BY <1>callback, <2>1, <3>2, <3>5, <1>conn, <1>fsm, <1>key, <1>engine,
           <1>subscriber, <1>probe, <1>old DEF Unmoved, Current
      <4> QED BY <4>1, <4>2, <1>old, Undisturbed
    <3> QED BY <3>4, <3>5
  <2>3. CASE waiting[c[1]] = <<>>
    <3>1. /\ UNCHANGED <<fsm, key, engine>>
          /\ \E K \in SUBSET Keys : Rewrite(None, "absent", K)
      BY <1>1, <2>3 DEF OpenProbe
    <3>2. CASE d = c
      BY <2>1, <3>1, <3>2 DEF Agrees
    <3>3. CASE d # c
      <4>1. Kept(d)
        BY <3>1, <1>own, RewriteKeeps
      <4>2. Unmoved(d)
        BY <1>callback, <2>1, <3>1, <3>3, <1>conn, <1>subscriber, <1>probe, <1>old
           DEF Unmoved, Current
      <4> QED BY <4>1, <4>2, <1>old, Undisturbed
    <3> QED BY <3>2, <3>3
  <2> QED BY <2>2, <2>3
<1>2. CASE AnnounceProbe(c) \/ \E e \in ExtApps : ResetOthers(c, e)
  <2>1. UNCHANGED <<conn, fsm, key, engine, subscriber, redis, inbox>>
    BY <1>2 DEF AnnounceProbe, ResetOthers, flowVars, storeVars
  <2> QED BY <1>callback, <2>1, <1>old, SilenceKeeps, Undisturbed DEF Unmoved, Current
<1>3. CASE LeaveProbe(c)
  <2>1. /\ UNCHANGED <<conn, fsm, key, engine, subscriber>>
        /\ \E K \in SUBSET Keys : Rewrite(None, "absent", K)
    BY <1>3 DEF LeaveProbe, flowVars, Rivals
  <2>2. Kept(d)
    BY <2>1, <1>own, RewriteKeeps
  <2> QED BY <1>callback, <2>1, <2>2, <1>old, Undisturbed DEF Unmoved, Current
<1>4. CASE SendSamples(c)
  <2>1. /\ fsm' = [fsm EXCEPT ![c] = "started"]
        /\ engine' = [engine EXCEPT ![c] = "ready"]
        /\ Rewrite(key[c], "started", {})
        /\ UNCHANGED <<conn, key, subscriber>>
    BY <1>4 DEF SendSamples, Store
  <2>2. CASE d = c
    BY <2>1, <2>2, <1>fsm, <1>key, <1>probe, WriterAgrees
  <2>3. CASE d # c
    <3>1. Kept(d)
      BY <2>1, <1>key, <1>probe, <1>own, RewriteKeeps
    <3>2. Unmoved(d)
      BY <1>callback, <2>1, <2>3, <1>fsm, <1>engine, <1>probe DEF Unmoved, Current
    <3> QED BY <3>1, <3>2, <1>old, Undisturbed
  <2> QED BY <2>2, <2>3
<1>5. CASE CancelProbe(c)
  <2>1. /\ engine' = [engine EXCEPT ![c] = "ready"]
        /\ UNCHANGED <<conn, key, subscriber>>
    BY <1>5 DEF CancelProbe
  <2>2. CASE fsm[c] = "wait"
    <3>1. fsm' = [fsm EXCEPT ![c] = "canceled"] /\ Rewrite(key[c], "canceled", {})
      BY <1>5, <2>2 DEF CancelProbe, Store
    <3>2. CASE d = c
      BY <2>1, <3>1, <3>2, <1>fsm, <1>key, <1>probe, WriterAgrees
    <3>3. CASE d # c
      <4>1. Kept(d)
        BY <3>1, <1>key, <1>probe, <1>own, RewriteKeeps
      <4>2. Unmoved(d)
        BY <1>callback, <2>1, <3>1, <3>3, <1>fsm, <1>engine, <1>probe DEF Unmoved, Current
      <4> QED BY <4>1, <4>2, <1>old, Undisturbed
    <3> QED BY <3>2, <3>3
  <2>3. CASE fsm[c] # "wait"
    <3>1. UNCHANGED <<fsm, redis, inbox>>
      BY <1>5, <2>3 DEF CancelProbe, storeVars
    <3>2. CASE d = c
      BY <1>callback, <2>1, <2>3, <3>1, <3>2, <1>old DEF Agrees, Current
    <3>3. CASE d # c
      BY <1>callback, <2>1, <3>1, <3>3, <1>engine, <1>probe, <1>old, SilenceKeeps, Undisturbed
         DEF Unmoved, Current
    <3> QED BY <3>2, <3>3
  <2> QED BY <2>2, <2>3
<1>6. CASE DropProbe(c) \/ \E s \in {"ready", "trying", "disconnected"} :
                             ExpelProbe(c, s)
  <2>1. /\ \E x \in {"closing", "closed"} : conn' = [conn EXCEPT ![c] = x]
        /\ UNCHANGED subscriber \/ subscriber' = [subscriber EXCEPT ![c[1]] = None]
        /\ UNCHANGED fsm \/ \E s : fsm' = [fsm EXCEPT ![c] = s]
        /\ UNCHANGED engine \/ \E s : engine' = [engine EXCEPT ![c] = s]
        /\ UNCHANGED <<redis, inbox>> \/ \E s : Store(key[c], s)
        /\ UNCHANGED key
    BY <1>6 DEF DropProbe, ExpelProbe, Disconnected, Shut, lookVars, storeVars
  <2>2. CASE d = c
    BY <2>1, <2>2, <1>conn, <1>probe, ClosedAgrees
  <2>3. CASE d # c
    <3>1. Kept(d)
      BY <2>1, <1>key, <1>probe, <1>own, StoreKeeps, SilenceKeeps
    <3>2. Unmoved(d)
      BY <1>callback, <2>1, <2>3, <1>conn, <1>fsm, <1>engine, <1>subscriber, <1>probe,
         <1>old, <1>none DEF Unmoved, Current
    <3> QED BY <3>1, <3>2, <1>old, Undisturbed
  <2> QED BY <2>2, <2>3
<1>7. ASSUME NEW k \in Keys, ProbeNews(c, k) PROVE Agrees(d)'
  <2> DEFINE k2     == IF key[c] # k /\ redis[k] # "absent" THEN k ELSE key[c]
             s      == IF k2 = None THEN "absent" ELSE redis[k2]
             next   == IF s = "absent" THEN fsm[c] ELSE s
             tries  == next # fsm[c] /\ next = "wait" /\ engine[c] = "ready"
             told   == next # fsm[c] /\ next = "canceled" /\ conn[c] = "open"
             seen   == [inbox EXCEPT ![c[1]] = @ \ {k}]
  <2>1. /\ subscriber[c[1]] = c
        /\ key' = [key EXCEPT ![c] = k2]
        /\ fsm' = [fsm EXCEPT ![c] = next]
        /\ engine' = [engine EXCEPT ![c] = IF tries THEN "trying"
                                           ELSE IF told THEN "ready" ELSE @]
        /\ inbox' = IF tries THEN Announce(seen, {k2}) ELSE seen
        /\ UNCHANGED <<conn, subscriber, redis>>
    BY <1>7 DEF ProbeNews
  <2>2. CASE d = c
    <3>1. key'[d] = k2 /\ fsm'[d] = next
      BY <2>1, <2>2, <1>key, <1>fsm, <1>probe
    <3>2. k2 # None => redis'[k2] = s
      BY <2>1
    <3>3. s # "absent" => next = s
      OBVIOUS
    <3> HIDE DEF k2, s, next
    <3> QED BY <3>1, <3>2, <3>3 DEF Agrees
  <2>3. CASE d # c
    <3>1. CASE d[1] = c[1]
      BY <1>callback, <2>1, <2>3, <3>1 DEF Agrees, Current
    <3>2. CASE d[1] # c[1]
      <4>1. seen[d[1]] = inbox[d[1]]
        BY <3>2, <1>inbox, <1>probe, <1>old
      <4>2. inbox[d[1]] \subseteq inbox'[d[1]]
        BY <2>1, <4>1, <1>old DEF Announce
      <4>3. Unmoved(d)
        <5> HIDE DEF k2, next, tries, told, seen
        <5> QED BY <1>callback, <2>1, <2>3, <1>key, <1>fsm, <1>engine, <1>probe
                DEF Unmoved, Current
      <4>4. Kept(d)
        BY <2>1, <4>2 DEF Kept
      <4> QED BY <4>3, <4>4, <1>old, Undisturbed
    <3> QED BY <3>1, <3>2
  <2> QED BY <2>2, <2>3
<1> QED BY <1>1, <1>2, <1>3, <1>4, <1>5, <1>6, <1>7

\* The end of a verification, and the store itself.
LEMMA ServerAgrees ==
  ASSUME TypeOK, Routes, StateIsPublished,
         \/ \E v \in Verdicts : JobDone(v)
         \/ \E a \in Apps, k \in Keys : Lost(a, k)
         \/ \E k \in Keys : Expire(k)
         \/ UNCHANGED vars,
         NEW d \in Conns
  PROVE  Agrees(d)'
<1>fsm. fsm \in [Conns -> States]
  BY DEF TypeOK
<1>key. key \in [Conns -> Keys \cup {None}]
  BY DEF TypeOK
<1>engine. engine \in [ProbeConns -> {"ready", "trying", "disconnected"}]
  BY DEF TypeOK
<1>inbox. inbox \in [Apps -> SUBSET Keys]
  BY DEF TypeOK
<1>own. OwnKeys
  BY DEF Routes
<1>old. Agrees(d) /\ d[1] \in Apps
  BY Structure DEF StateIsPublished, Conns
<1>callback. callback' = callback
  BY DEF JobDone, Lost, Expire, vars, rpcVars
<1>1. ASSUME NEW v \in Verdicts, JobDone(v) PROVE Agrees(d)'
  <2> DEFINE heard  == plugin # None /\ fsm[plugin] = "started"
             stored == heard /\ (v = "error" => engine[plugin] = "ready")
  <2>1. /\ UNCHANGED <<conn, key, subscriber>>
        /\ fsm' = IF heard THEN [fsm EXCEPT ![plugin] = Outcome[v]] ELSE fsm
        /\ engine' = IF stored /\ v = "error"
                     THEN [engine EXCEPT ![plugin] = "trying"] ELSE engine
        /\ IF stored THEN Rewrite(key[plugin], Outcome[v], {})
                     ELSE UNCHANGED <<redis, inbox>>
    BY <1>1 DEF JobDone, Store, storeVars
  <2>2. plugin # None => plugin \in ProbeConns /\ plugin \in Conns
    BY Structure DEF TypeOK
  <2>3. CASE plugin # None /\ d = plugin
    <3>1. CASE stored
      BY <2>1, <2>2, <2>3, <3>1, <1>fsm, <1>key, WriterAgrees
    <3>2. CASE ~stored /\ heard
      <4>1. engine[d] # "ready" /\ fsm'[d] = "wait" /\ engine'[d] = engine[d]
        <5>1. v = "error" /\ engine[d] # "ready"
          BY <2>3, <3>2
        <5> QED BY <2>1, <2>2, <2>3, <3>2, <5>1, <1>fsm DEF Outcome
      <4>2. engine[d] \in {"trying", "disconnected"}
        BY <2>2, <2>3, <4>1, <1>engine
      <4> QED
        BY <1>callback, <2>1, <2>2, <2>3, <4>1, <4>2 DEF Agrees, Current, Routes, Connected
    <3>3. CASE ~heard
      BY <1>callback, <2>1, <2>3, <3>3, <1>old DEF Agrees, Current
    <3> QED BY <3>1, <3>2, <3>3
  <2>4. CASE plugin = None \/ d # plugin
    <3>1. Unmoved(d)
      BY <1>callback, <2>1, <2>2, <2>4, <1>fsm, <1>engine DEF Unmoved, Current
    <3>2. Kept(d)
      BY <2>1, <2>2, <1>key, <1>own, RewriteKeeps, SilenceKeeps
    <3> QED BY <3>1, <3>2, <1>old, Undisturbed
  <2> QED BY <2>3, <2>4
<1>2. ASSUME NEW a \in Apps, NEW k \in Keys, Lost(a, k) PROVE Agrees(d)'
  <2>1. /\ subscriber[a] = None
        /\ inbox' = [inbox EXCEPT ![a] = @ \ {k}]
        /\ UNCHANGED <<conn, fsm, key, engine, subscriber, redis>>
    BY <1>2 DEF Lost, flowVars
  <2>2. CASE d[1] = a
    BY <1>callback, <2>1, <2>2, NoneIsFresh DEF Agrees, Current
  <2>3. CASE d[1] # a
    <3>1. inbox'[d[1]] = inbox[d[1]]
      BY <2>1, <2>3, <1>inbox, <1>old
    <3> QED BY <1>callback, <2>1, <3>1, <1>old DEF Agrees, Current
  <2> QED BY <2>2, <2>3
<1>3. ASSUME NEW k \in Keys, Expire(k) PROVE Agrees(d)'
  <2>1. /\ Rewrite(None, "absent", {k})
        /\ UNCHANGED <<conn, fsm, key, engine, subscriber>>
    BY <1>3 DEF Expire, flowVars
  <2>2. Kept(d)
    BY <2>1, <1>own, RewriteKeeps
  <2> QED BY <1>callback, <2>1, <2>2, <1>old, Undisturbed DEF Unmoved, Current
<1>4. CASE UNCHANGED vars
  BY <1>callback, <1>4, <1>old, SilenceKeeps, Undisturbed
     DEF vars, flowVars, storeVars, Unmoved, Current
<1> QED BY <1>1, <1>2, <1>3, <1>4

\* Every step keeps every flow in agreement with its key.
LEMMA PublishedStep ==
  ASSUME TypeOK, Routes, StateIsPublished, [Next]_vars
  PROVE  StateIsPublished'
<1> SUFFICES ASSUME NEW d \in Conns PROVE Agrees(d)'
  BY DEF StateIsPublished
<1>1. ASSUME NEW c \in ExtConns,
             OpenExt(c) \/ FindProbe(c) \/ CloseExt(c) \/ LeaveExt(c)
               \/ CloseUnrequested(c)
               \/ \E k \in Keys : ExtNews(c, k)
      PROVE  Agrees(d)'
  BY <1>1, ExtAgrees
<1>2. ASSUME NEW r \in Rpcs, Request(r) \/ RequestRefused(r) \/ Resume(r)
      PROVE  Agrees(d)'
  BY <1>2, RequestAgrees
<1>3. ASSUME NEW c \in ProbeConns,
             \/ OpenProbe(c) \/ AnnounceProbe(c) \/ LeaveProbe(c)
             \/ SendSamples(c) \/ CancelProbe(c) \/ DropProbe(c)
             \/ \E e \in ExtApps : ResetOthers(c, e)
             \/ \E k \in Keys : ProbeNews(c, k)
             \/ \E s \in {"ready", "trying", "disconnected"} : ExpelProbe(c, s)
      PROVE  Agrees(d)'
  BY <1>3, ProbeAgrees
<1>4. ASSUME \/ \E v \in Verdicts : JobDone(v)
             \/ \E a \in Apps, k \in Keys : Lost(a, k)
             \/ \E k \in Keys : Expire(k)
             \/ UNCHANGED vars
      PROVE  Agrees(d)'
  BY <1>4, ServerAgrees
<1> QED BY <1>1, <1>2, <1>3, <1>4 DEF Next

\* However many extensions, phones, connections and requests there are, a
\* current flow that has seen all news agrees with its key.
THEOREM Published == Spec => []StateIsPublished
<1>1. Init => Routes /\ StateIsPublished
  <2>1. Init => Routes
    <3>1. "keys" \in LookupKinds
      BY Structure
    <3>2. \A c \in ProbeConns : c \in Conns
      BY Structure
    <3>3. \A c \in ExtConns : c \in Conns
      BY Structure
    <3> QED
      BY <3>1, <3>2, <3>3 DEF Init, Routes, Subscribed, Addressed, OwnKeys,
                              Unopened, Connected
  <2>2. Init => StateIsPublished
    BY DEF Init, StateIsPublished, Agrees
  <2> QED BY <2>1, <2>2
<1> QED
  BY <1>1, TypeCorrect, RoutesStep, PublishedStep, PTL DEF Spec
=============================================================================
