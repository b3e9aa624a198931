---------------------------- MODULE PgpKeysProofs ----------------------------
(* Proofs about PgpKeys, for any number of calls and generations: types,   *)
(* that keys handed out together belong together, and that a private key   *)
(* that was handed out does not stay in MySQL.                             *)
EXTENDS PgpKeys, TLAPS

\* A record whose two keys, if it has both, are of one generation, and whose
\* private key was made.
Sound(r) ==
  /\ r.pass # None /\ r.priv # None => r.pass = r.priv
  /\ r.priv # None => stage[r.priv] = "ended"

\* Every copy of the record is sound, and one is there where it is needed.
Copies ==
  /\ Sound(db)
  /\ lru # None => Sound(lru)
  /\ \A c \in Calls : /\ data[c] # None => Sound(data[c])
                      /\ answer[c] # None => Sound(answer[c])
                      /\ call[c] \in {"fetched", "got"} => data[c] # None

\* A private key that MySQL holds although it was handed out is about to be
\* erased, unless an erasure was refused.
Pending == db.priv \in HandedOut => updates > 0 \/ creates > 0 \/ refused

IInv == PgpTypeOK /\ Copies /\ Pending

-----------------------------------------------------------------------------
(* Records.                                                                *)

\* The generations, and what a record's fields are.
LEMMA GenerationFacts ==
  /\ 0 \in Generations /\ None \notin Generations
  /\ None \in Fields /\ Generations \subseteq Fields
  /\ None \notin Records
  /\ \A r \in Records : r.pass \in Fields /\ r.priv \in Fields
  /\ \A f, g \in Fields : [pass |-> f, priv |-> g] \in Records
BY KeyConstants, NoneIsNoRecord DEF Generations, Fields, Records

\* The erased record (_store_lru_data) is a sound record without private key.
LEMMA ErasedFacts ==
  ASSUME NEW r \in Records \cup {None}, r # None => Sound(r)
  PROVE  ErasedIn(r) \in Records /\ ErasedIn(r).priv = None /\ Sound(ErasedIn(r))
BY GenerationFacts DEF ErasedIn, Records, Sound

\* So is the row after an update job.
LEMMA UpdatedFacts ==
  ASSUME NEW r \in Records, Sound(r)
  PROVE  Updated(r) \in Records /\ Updated(r).priv = None /\ Sound(Updated(r))
BY GenerationFacts DEF Updated, Records, Sound

\* A generation whose keys are written later is in no record yet.
LEMMA SoundGrows ==
  ASSUME NEW r \in Records, Sound(r), PgpTypeOK, PgpTypeOK',
         \A g \in Generations : stage[g] = "ended" => stage'[g] = "ended"
  PROVE  Sound(r)'
BY GenerationFacts DEF Sound, PgpTypeOK, Records, Fields

-----------------------------------------------------------------------------
(* The invariant.                                                          *)

LEMMA InitInvariant == Init => IInv
<1> SUFFICES ASSUME Init PROVE IInv
  OBVIOUS
<1> USE GenerationFacts
<1>1. PgpTypeOK
  BY DEF Init, PgpTypeOK, Generations
<1>2. Copies
  BY DEF Init, Copies, Sound
<1>3. Pending
  BY DEF Init, Pending, HandedOut
<1> QED BY <1>1, <1>2, <1>3 DEF IInv

\* What get_pass_phrase does with a sound record keeps the invariant.
LEMMA ReplyInvariant ==
  ASSUME IInv, NEW c \in Calls, NEW r \in Records, Sound(r), Reply(c, r)
  PROVE  IInv'
<1> USE GenerationFacts DEF IInv
<1>1. lru \in Records \cup {None} /\ (lru # None => Sound(lru))
  BY DEF PgpTypeOK, Copies
<1>2. ErasedIn(lru) \in Records /\ Sound(ErasedIn(lru))
  BY <1>1, ErasedFacts
<1>3. PgpTypeOK'
  BY <1>2 DEF Reply, PgpTypeOK
<1>4. Copies'
  <2>1. stage' = stage /\ db' = db /\ data' = data
    BY DEF Reply
  <2>2. Sound(db)' /\ (lru' # None => Sound(lru)')
    BY <1>1, <1>2, <2>1 DEF Copies, Sound, Reply
  <2>3. ASSUME NEW d \in Calls
        PROVE  /\ data'[d] # None => Sound(data[d])'
               /\ answer'[d] # None => Sound(answer[d])'
               /\ call'[d] \in {"fetched", "got"} => data'[d] # None
    <3>1. data[d] # None => Sound(data[d])'
      BY <2>1 DEF Copies, Sound
    <3>2. answer'[d] = (IF d = c THEN r ELSE answer[d])
      BY DEF Reply, PgpTypeOK
    <3>3. answer'[d] # None => Sound(answer[d])'
      BY <2>1, <3>2 DEF Copies, Sound
    <3>4. call'[d] \in {"fetched", "got"} => call'[d] = call[d]
      BY DEF Reply, PgpTypeOK
    <3> QED BY <2>1, <3>1, <3>3, <3>4 DEF Copies
  <2> QED BY <2>2, <2>3 DEF Copies
<1>5. Pending'
  <2> SUFFICES ASSUME db'.priv \in HandedOut'
               PROVE  updates' > 0 \/ creates' > 0 \/ refused'
    BY DEF Pending
  <2>1. db' = db /\ refused' = refused
    BY DEF Reply
  <2>2. PICK d \in Calls : answer'[d] # None /\ db.priv = answer'[d].priv
                           /\ db.priv # None
    BY <2>1 DEF HandedOut
  <2>3. CASE d = c
    <3>1. r.priv # None
      BY <2>2, <2>3 DEF Reply, PgpTypeOK
    <3> QED BY <3>1 DEF Reply, PgpTypeOK
  <2>4. CASE d # c
    <3>1. answer'[d] = answer[d]
      BY <2>4 DEF Reply, PgpTypeOK
    <3>2. db.priv \in HandedOut
      BY <2>2, <3>1 DEF HandedOut
    <3> QED BY <2>1, <3>2 DEF Pending, Reply, PgpTypeOK
  <2> QED BY <2>3, <2>4
<1> QED BY <1>3, <1>4, <1>5

\* Everything that neither hands out a record nor touches MySQL keeps what is
\* pending.
LEMMA PendingKept ==
  ASSUME Pending, UNCHANGED <<db, answer, updates, creates, refused>>
  PROVE  Pending'
BY DEF Pending, HandedOut

\* A step that keeps the stages and caches a sound record, or none.
LEMMA CachedCopies ==
  ASSUME IInv, UNCHANGED <<db, stage, answer, data>>,
         lru' # None => Sound(lru)',
         \A c \in Calls : call'[c] \in {"fetched", "got"} =>
                            call[c] \in {"fetched", "got"}
  PROVE  Copies'
BY DEF IInv, Copies, Sound

LEMMA StepInvariant == IInv /\ [Next]_vars => IInv'
<1> SUFFICES ASSUME IInv, [Next]_vars PROVE IInv'
  OBVIOUS
<1>0. PgpTypeOK /\ Copies /\ Pending
  BY DEF IInv
<1> USE GenerationFacts
<1>1. ASSUME NEW c \in Calls, Hit(c) PROVE IInv'
  <2>1. lru \in Records /\ Sound(lru) /\ Reply(c, lru)
    BY <1>0, <1>1 DEF Hit, PgpTypeOK, Copies
  <2> QED BY <2>1, ReplyInvariant
<1>2. ASSUME NEW c \in Calls, Miss(c) PROVE IInv'
  <2>1. PgpTypeOK'
    BY <1>0, <1>2 DEF Miss, PgpTypeOK, eraseVars
  <2>2. Copies'
    BY <1>0, <1>2, CachedCopies DEF Miss, Copies, PgpTypeOK, Sound, eraseVars
  <2> QED BY <1>0, <1>2, <2>1, <2>2, PendingKept DEF IInv, Miss, eraseVars
<1>3. ASSUME NEW c \in Calls, Fetch(c) PROVE IInv'
  <2>1. PgpTypeOK'
    BY <1>0, <1>3 DEF Fetch, PgpTypeOK, eraseVars
  <2>2. Copies'
    <3>1. Sound(db)' /\ (lru' # None => Sound(lru)')
      BY <1>0, <1>3 DEF Fetch, Copies, Sound
    <3>2. ASSUME NEW d \in Calls
          PROVE  /\ data'[d] # None => Sound(data[d])'
                 /\ answer'[d] # None => Sound(answer[d])'
                 /\ call'[d] \in {"fetched", "got"} => data'[d] # None
      <4>1. answer'[d] # None => Sound(answer[d])'
        BY <1>0, <1>3 DEF Fetch, Copies, Sound
      <4>2. CASE d = c
        <5>1. data'[d] = db /\ db # None
          BY <1>0, <1>3, <4>2 DEF Fetch, PgpTypeOK
        <5> QED BY <3>1, <4>1, <5>1, <1>3 DEF Fetch, Sound
      <4>3. CASE d # c
        <5>1. data'[d] = data[d] /\ call'[d] = call[d]
          BY <1>0, <1>3, <4>3 DEF Fetch, PgpTypeOK
        <5> QED BY <1>0, <1>3, <4>1, <5>1 DEF Fetch, Copies, Sound
      <4> QED BY <4>2, <4>3
    <3> QED BY <3>1, <3>2 DEF Copies
  <2> QED BY <1>0, <1>3, <2>1, <2>2, PendingKept DEF IInv, Fetch, eraseVars
<1>4. ASSUME NEW c \in Calls, Fill(c) PROVE IInv'
  <2>1. data[c] \in Records /\ Sound(data[c]) /\ lru' = data[c]
    BY <1>0, <1>4 DEF Fill, PgpTypeOK, Copies, Merged
  <2>2. PgpTypeOK'
    BY <1>0, <1>4, <2>1 DEF Fill, PgpTypeOK, AfterFill, eraseVars
  <2>3. Copies'
    <3>1. lru' # None => Sound(lru)'
      BY <1>4, <2>1 DEF Fill, Sound
    <3>2. \A d \in Calls : call'[d] \in {"fetched", "got"} =>
                             call[d] \in {"fetched", "got"}
      BY <1>0, <1>4 DEF Fill, PgpTypeOK, AfterFill
    <3> QED BY <1>4, <3>1, <3>2, CachedCopies DEF Fill
  <2> QED BY <1>0, <1>4, <2>2, <2>3, PendingKept DEF IInv, Fill, eraseVars
<1>5. ASSUME NEW c \in Calls, Resume(c) PROVE IInv'
  <2>1. data[c] \in Records /\ Sound(data[c]) /\ Reply(c, data[c])
    BY <1>0, <1>5 DEF Resume, PgpTypeOK, Copies
  <2> QED BY <2>1, ReplyInvariant
<1>6. ASSUME Update PROVE IInv'
  <2>1. db' \in Records /\ db'.priv = None /\ Sound(db')
    BY <1>0, <1>6, UpdatedFacts DEF Update, PgpTypeOK, Copies
  <2>2. PgpTypeOK'
    BY <1>0, <1>6, <2>1 DEF Update, PgpTypeOK, callVars
  <2>3. Copies'
    BY <1>0, <1>6, <2>1 DEF Update, Copies, Sound, callVars
  <2>4. Pending'
    BY <2>1 DEF Pending, HandedOut
  <2> QED BY <2>2, <2>3, <2>4 DEF IInv
<1>7. ASSUME Create PROVE IInv'
  <2>1. PgpTypeOK'
    BY <1>0, <1>7 DEF Create, PgpTypeOK, callVars
  <2>2. Copies'
    BY <1>0, <1>7 DEF Create, Copies, Sound, callVars
  <2>3. Pending'
    BY <1>7 DEF Create, Pending
  <2> QED BY <2>1, <2>2, <2>3 DEF IInv
<1>8. ASSUME NEW g \in Generations, Generate(g) \/ Uncache(g) PROVE IInv'
  <2>1. /\ lru' \in {lru, None} /\ stage[g] # "ended"
        /\ \E s \in {"queued", "deleted"} : stage' = [stage EXCEPT ![g] = s]
        /\ UNCHANGED <<db, call, data, answer, updates, creates, refused>>
    BY <1>8 DEF Generate, Uncache, callVars, eraseVars
  <2>2. \A h \in Generations : stage[h] = "ended" => stage'[h] = "ended"
    BY <1>0, <2>1 DEF PgpTypeOK
  <2>3. PgpTypeOK'
    BY <1>0, <2>1 DEF PgpTypeOK
  <2>4. Copies'
    <3>1. ASSUME NEW r \in Records, Sound(r) PROVE Sound(r)'
      BY <1>0, <2>2, <2>3, <3>1, SoundGrows
    <3> QED BY <1>0, <2>1, <3>1 DEF Copies, PgpTypeOK, Sound
  <2> QED BY <1>0, <2>1, <2>3, <2>4, PendingKept DEF IInv
<1>9. ASSUME NEW g \in Generations, Write(g) PROVE IInv'
  <2>1. \A h \in Generations : stage[h] = "ended" => stage'[h] = "ended"
    BY <1>0, <1>9 DEF PgpTypeOK, Write
  <2>2. PgpTypeOK'
    BY <1>0, <1>9 DEF Write, PgpTypeOK, callVars, eraseVars
  <2>3. Copies'
    <3>1. ASSUME NEW r \in Records, Sound(r) PROVE Sound(r)'
      BY <1>0, <2>1, <2>2, <3>1, SoundGrows
    <3>2. Sound(db)'
      <4>1. stage'[g] = "ended"
        BY <1>0, <1>9 DEF PgpTypeOK, Write
      <4> QED BY <1>0, <1>9, <3>1, <4>1 DEF Write, Copies, PgpTypeOK, Sound
    <3> QED BY <1>0, <1>9, <3>1, <3>2
            DEF Write, Copies, PgpTypeOK, Sound, callVars, eraseVars
  <2>4. Pending'
    <3>1. HandedOut' = HandedOut
      BY <1>9 DEF Write, HandedOut, callVars
    <3>2. g \notin HandedOut
      BY <1>0, <1>9 DEF Write, HandedOut, Copies, Sound, PgpTypeOK
    <3> QED BY <1>0, <1>9, <3>1, <3>2 DEF Write, Pending, eraseVars
  <2> QED BY <2>2, <2>3, <2>4 DEF IInv
<1>10. ASSUME Evict PROVE IInv'
  <2>1. PgpTypeOK'
    BY <1>0, <1>10 DEF Evict, PgpTypeOK, callVars, eraseVars
  <2>2. Copies'
    BY <1>0, <1>10 DEF Evict, Copies, Sound, callVars
  <2> QED BY <1>0, <1>10, <2>1, <2>2, PendingKept DEF IInv, Evict, callVars, eraseVars
<1>11. CASE UNCHANGED vars
  BY <1>0, <1>11 DEF vars, IInv, PgpTypeOK, Copies, Sound, Pending, HandedOut
<1> QED
  BY <1>1, <1>2, <1>3, <1>4, <1>5, <1>6, <1>7, <1>8, <1>9, <1>10, <1>11
     DEF Next, CallStep

LEMMA Invariance == Spec => []IInv
BY InitInvariant, StepInvariant, PTL DEF Spec

-----------------------------------------------------------------------------
(* The properties.                                                         *)

\* Every copy of the record is a record or absent, and the stages of calls and
\* of key generations are the ones their code goes through.
THEOREM PgpTyped == Spec => []PgpTypeOK
BY Invariance, PTL DEF IInv

\* A pass phrase and a private key that get_pass_phrase returns together are
\* of one generation.
THEOREM AnswersMatch == Spec => []Matched
<1>1. IInv => Matched
  BY DEF IInv, Copies, Sound, Matched
<1> QED BY <1>1, Invariance, PTL

\* A private key that was handed out is erased from MySQL once the jobs have
\* run, unless an erasure met an empty cache and was refused.
THEOREM HandedOutIsErased == Spec => []Erased
<1>1. IInv => Erased
  BY DEF IInv, PgpTypeOK, Pending, Erased, Quiet
<1> QED BY <1>1, Invariance, PTL
=============================================================================
