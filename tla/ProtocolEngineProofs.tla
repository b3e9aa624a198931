----------------------- MODULE ProtocolEngineProofs -----------------------
(***************************************************************************)
(* Proofs about the protocol engines of a process, for any set of          *)
(* connections, phones and sessions.  The inductive invariant says of each *)
(* engine what it is entitled to (Sound), of the session manager that it   *)
(* is one its own proofs call good (Fit), of the callbacks that they lead  *)
(* to a living engine (Owners), and of an open connection that its session *)
(* waits to expire unless an engine that is past recovery gave it up       *)
(* (Held).  A handler is a chain of functions, so what the parts of a      *)
(* handler do is a relation (Carries) that its parts compose; one lemma    *)
(* (StepKept) takes a handler's relation to the invariant.                 *)
(***************************************************************************)
EXTENDS ProtocolEngine, SequenceTheorems, TLAPS

\* The lemmas about the session manager, whose process is never restarted.
SMP == INSTANCE SessionManagerProofs
       WITH Sessions <- Tokens, MaxRestarts <- 0, restarts <- 0

\* A manager between two handlers: a temporary session never waits, and the
\* check has a batch only while it runs.
Fit(m) == /\ SMP!Good(m) /\ ~SMP!Waits(m, 0)
          /\ ~m.checking => m.batch = <<>>

Served == {"appregistered", "resourceget"} \cup Probing

\* What every engine that was opened is built on: whoever does or will do
\* something has a session, the session of a connection that can still
\* receive is alive, and a connection that has said nothing has one timer.
Rooted(e, m) ==
  /\ e \in Engines
  /\ e.st \notin {"connected", "disconnected"} => e.sess # None \/ Lifted(e)
  /\ (\E v \in Events : e.pending[v] > 0) => e.sess # None
  /\ e.ws \in {"open", "closing"} /\ e.sess # None => e.sess \in m.known
  /\ e.st = "connected" => e.timers \in {0, 1}
  /\ e.st = "connected" /\ e.sess # None => e.timers = 0

\* p: the connection has proved who it is.
Sound(e, m, p) ==
  /\ Rooted(e, m)
  /\ e.ws = "new" => e = NewEngine
  /\ e.st = "disconnected" => e.ws # "open" \/ e.stranded
  /\ e.ws = "open" /\ e.st \in Served => p \/ Lifted(e)
  /\ p => e.sess # None

\* A callback leads to an engine that was opened and has a session.
Owners ==
  \A s \in Tokens \ {0} :
    /\ s \in sm.calls => owner[s] \in Conns
    /\ owner[s] \in Conns => engines[owner[s]].sess # None

\* A session waits, and will call its engine when it expires.
Holds(m, s) == SMP!Waits(m, s) /\ s \in m.calls

\* An engine that keeps its session for ever.
Gone(e, s) == e.sess = s /\ (e.st # "connected" \/ e.ws = "closed")

Held ==
  \A c \in Conns :
    /\ engines[c].ws = "open" /\ engines[c].sess \notin {None, 0}
    /\ owner[engines[c].sess] = c /\ ~sm.lapsed /\ ~engines[c].stranded
    => \/ Holds(sm, engines[c].sess)
       \/ \E d \in Conns \ {c} : Gone(engines[d], engines[c].sess)

Histories == /\ engines \in [Conns -> Engines]
             /\ owner \in [Tokens -> Conns \cup {None}]
             /\ received \in [Conns -> 0..MaxMessages]
             /\ proved \subseteq Conns

IInv == /\ Histories /\ Fit(sm)
        /\ \A c \in Conns : Sound(engines[c], sm, c \in proved)
        /\ Owners /\ Held

-----------------------------------------------------------------------------
(* Handlers as relations.                                                  *)

Runs == [e : Engines, m : SM!Managers, raised : BOOLEAN]

\* An engine that has let go of its session.
Over(f, s) ==
  f.sess = s /\ (f.ws # "open" \/ f.stranded) /\ f.st # "connected"

\* What a handler may do to the sessions: only its own is closed, and only by
\* an engine that is over.
Moves(m, n, f) ==
  /\ m.known \subseteq n.known /\ m.made \subseteq n.made
  /\ n.checking = m.checking /\ n.batch = m.batch
  /\ m.lapsed => n.lapsed
  /\ n.calls \ {0} = m.calls \ {0}
  /\ \A s \in Tokens \ {0} : SMP!Waits(m, s) => SMP!Waits(n, s) \/ Over(f, s)

\* What no handler takes back.
Fixed(e, f) ==
  /\ e.sess # None => f.sess = e.sess
  /\ e.sess = None => f.sess \in {None, 0}
  /\ e.ws = "closed" => f.ws = "closed"
  /\ f.ws = "open" => e.ws = "open"
  /\ e.ws # "new" => f.ws # "new"
  /\ e.st # "connected" => f.st # "connected"
  /\ e.lifted => f.lifted
  /\ e.stranded => f.stranded

Carries(x, y) == /\ y \in Runs /\ Fit(y.m)
                 /\ Moves(x.m, y.m, y.e) /\ Fixed(x.e, y.e)

\* All but the timer is the same.
Sames(e, f) == /\ f.ws = e.ws /\ f.st = e.st /\ f.sess = e.sess
               /\ f.pending = e.pending /\ f.flow = e.flow
               /\ f.lifted = e.lifted /\ f.stranded = e.stranded

-----------------------------------------------------------------------------
(* The session manager.                                                    *)

\* The engines and the proofs speak of the same methods.
LEMMA SameMethods ==
  ASSUME NEW m, NEW s
  PROVE  /\ SM!Created(m, s) = SMP!Created(m, s)
         /\ SM!Refreshed(m, s) = SMP!Refreshed(m, s)
         /\ SM!SessionClosed(m, s) = SMP!SessionClosed(m, s)
         /\ SM!Parted(m, s) = SMP!Parted(m, s)
         /\ SM!Restored(m, s) = SMP!Restored(m, s)
         /\ SM!Restorable(m, s) <=> SMP!Restorable(m, s)
         /\ SM!Queued(m, s) <=> SMP!Queued(m, s)
<1>1. \A q : SM!Removed(q, s) = SMP!Removed(q, s)
  BY DEF SM!Removed, SMP!Removed, SM!Queued, SMP!Queued
<1>2. \A n : SM!Enqueued(n, s) = SMP!Enqueued(n, s)
  BY DEF SM!Enqueued, SMP!Enqueued
<1>3. \A n : SM!Dequeued(n, s) = SMP!Dequeued(n, s)
  BY <1>1 DEF SM!Dequeued, SMP!Dequeued
<1>4. \A n : SM!Lapses(n) = SMP!Lapses(n)
  BY DEF SM!Lapses, SMP!Lapses
<1>5. \A n : SM!TimerRun(n) = SMP!TimerRun(n)
  BY DEF SM!TimerRun, SMP!TimerRun
<1>6. SM!Created(m, s) = SMP!Created(m, s)
  BY <1>2, <1>5 DEF SM!Created, SMP!Created
<1>7. SM!Refreshed(m, s) = SMP!Refreshed(m, s)
  BY <1>2, <1>3, <1>4 DEF SM!Refreshed, SMP!Refreshed
<1>8. SM!SessionClosed(m, s) = SMP!SessionClosed(m, s)
  <2>1. SM!Dequeued(m, s) = SMP!Dequeued(m, s)
    BY <1>3
  <2> QED
    BY <2>1, Zenon DEF SM!SessionClosed, SMP!SessionClosed
<1>9. SM!Parted(m, s) = SMP!Parted(m, s)
  BY DEF SM!Parted, SMP!Parted
<1>10. SM!Restored(m, s) = SMP!Restored(m, s)
  BY <1>2, <1>4 DEF SM!Restored, SMP!Restored
<1>11. SM!Restorable(m, s) <=> SMP!Restorable(m, s)
  BY DEF SM!Restorable, SMP!Restorable
<1>12. SM!Queued(m, s) <=> SMP!Queued(m, s)
  BY DEF SM!Queued, SMP!Queued
<1> QED
  BY <1>6, <1>7, <1>8, <1>9, <1>10, <1>11, <1>12

\* So it is with the check.
LEMMA SameCheck ==
  ASSUME NEW m, NEW k
  PROVE  /\ SM!CheckStarted(m, k) = SMP!CheckStarted(m, k)
         /\ SM!Expired(m) = SMP!Expired(m)
         /\ SM!CheckBroken(m) = SMP!CheckBroken(m)
         /\ SM!CheckEnded(m) = SMP!CheckEnded(m)
         /\ SM!Managers = SMP!Managers
<1>1. SM!CheckStarted(m, k) = SMP!CheckStarted(m, k)
  BY DEF SM!CheckStarted, SMP!CheckStarted
<1>2. SM!Expired(m) = SMP!Expired(m) /\ SM!CheckBroken(m) = SMP!CheckBroken(m)
  BY DEF SM!Expired, SMP!Expired, SM!CheckBroken, SMP!CheckBroken
<1>3. SM!CheckEnded(m) = SMP!CheckEnded(m)
  BY DEF SM!CheckEnded, SMP!CheckEnded, SM!TimerRun, SMP!TimerRun
<1>4. SM!Managers = SMP!Managers
  BY DEF SM!Managers, SMP!Managers
<1> QED
  BY <1>1, <1>2, <1>3, <1>4

\* A message refreshes a session; nobody stops waiting.
LEMMA RefreshedMoves ==
  ASSUME NEW m, Fit(m), NEW s \in m.known, s # 0, NEW f
  PROVE  LET n == SM!Refreshed(m, s) IN
         Fit(n) /\ Moves(m, n, f)
<1> DEFINE n == SMP!Refreshed(m, s)
<1>1. /\ SMP!Good(m) /\ ~SMP!Waits(m, 0) /\ (~m.checking => m.batch = <<>>)
      /\ m \in SMP!Managers /\ s \in Tokens /\ 0 \in Tokens
  BY EngineConstants DEF Fit, SMP!Good, SMP!Managers, Tokens
<1>2. SMP!Good(n)
  BY <1>1, SMP!RefreshedGood
<1>3. SMP!Leaves(m, n, {}, {s}) /\ n.calls = m.calls
  BY <1>1, SMP!RefreshedLeaves
<1> HIDE DEF n
<1>4. ~SMP!Waits(n, 0)
  BY <1>1, <1>3 DEF SMP!Leaves
<1>5. Fit(n) /\ Moves(m, n, f)
  BY <1>1, <1>2, <1>3, <1>4 DEF SMP!Leaves, Fit, Moves
<1> QED
  BY <1>5, SameMethods DEF n

\* A session is closed: it does not wait any more, unless it was about to
\* expire.
LEMMA ClosedLeaves ==
  ASSUME NEW m, Fit(m), NEW s \in Tokens
  PROVE  LET n == SM!SessionClosed(m, s) IN
         /\ Fit(n) /\ SMP!Leaves(m, n, {s}, {}) /\ n.calls = m.calls
<1> DEFINE n == SMP!SessionClosed(m, s)
<1>1. /\ SMP!Good(m) /\ ~SMP!Waits(m, 0) /\ (~m.checking => m.batch = <<>>)
      /\ 0 \in Tokens
  BY EngineConstants DEF Fit, Tokens
<1>2. SMP!Good(n)
  BY <1>1, SMP!SessionClosedGood
<1>3. SMP!Leaves(m, n, {s}, {}) /\ n.calls = m.calls
  BY <1>1, SMP!SessionClosedLeaves
<1> HIDE DEF n
<1>4. Fit(n)
  BY <1>1, <1>2, <1>3 DEF SMP!Leaves, Fit
<1> QED
  BY <1>3, <1>4, SameMethods DEF n

\* The temporary session that signs the 'bye' is created and closed at once.
LEMMA TemporaryLeaves ==
  ASSUME NEW m, Fit(m)
  PROVE  LET a == SM!Created(m, 0)
             n == SM!SessionClosed(a, 0) IN
         /\ a \in SM!Managers /\ 0 \in a.open
         /\ Fit(n) /\ SMP!Leaves(m, n, {0}, {0}) /\ 0 \in n.known
         /\ n.calls \ {0} = m.calls \ {0}
<1> DEFINE a == SMP!Created(m, 0)
           n == SMP!SessionClosed(a, 0)
<1>1. /\ SMP!Good(m) /\ ~SMP!Waits(m, 0) /\ (~m.checking => m.batch = <<>>)
      /\ m \in SMP!Managers /\ 0 \in Tokens
  BY EngineConstants DEF Fit, SMP!Good, Tokens
<1>2. ~SMP!Queued(m.queue, 0) /\ ~SMP!Queued(m.batch, 0)
  BY <1>1 DEF SMP!Waits
<1>3. SMP!Good(a)
  BY <1>1, <1>2, SMP!CreatedGood
<1>4. /\ SMP!Leaves(m, a, {}, {0}) /\ a.calls = m.calls \cup {0}
      /\ a.known = m.known \cup {0} /\ a.open = m.open \cup {0}
  BY <1>1, SMP!CreatedLeaves
<1> HIDE DEF a
<1>5. SMP!Good(n)
  BY <1>3, SMP!SessionClosedGood
<1>6. SMP!Leaves(a, n, {0}, {}) /\ n.calls = a.calls /\ ~SMP!Queued(n.queue, 0)
  BY <1>3, SMP!SessionClosedLeaves
<1> HIDE DEF n
<1>7. SMP!Leaves(m, n, {0}, {0})
  BY <1>4, <1>6 DEF SMP!Leaves
<1>8. ~SMP!Waits(n, 0)
  BY <1>2, <1>4, <1>6 DEF SMP!Leaves, SMP!Waits
<1>9. Fit(n)
  BY <1>1, <1>5, <1>7, <1>8 DEF SMP!Leaves, Fit
<1>10. 0 \in n.known /\ n.calls \ {0} = m.calls \ {0}
  BY <1>4, <1>6 DEF SMP!Leaves
<1>11. a \in SMP!Managers /\ 0 \in a.open
  BY <1>3, <1>4 DEF SMP!Good
<1> QED
  BY <1>7, <1>9, <1>10, <1>11, SameMethods, SameCheck DEF a, n

-----------------------------------------------------------------------------
(* The parts of a handler.                                                 *)

\* The timer is stopped.
LEMMA StoppedRun ==
  ASSUME NEW x \in Runs
  PROVE  LET y == Stopped(x) IN
         /\ y \in Runs /\ y.m = x.m /\ y.raised = x.raised /\ Sames(x.e, y.e)
         /\ y.e.timers <= x.e.timers
         /\ x.e.timers \in {0, 1} => y.e.timers = 0
<1> DEFINE k == IF x.e.timers > 0 THEN x.e.timers - 1 ELSE 0
           y == Stopped(x)
<1>1. x.e \in Engines /\ x.e.timers \in Nat
  BY DEF Runs, Engines
<1>2. k \in Nat /\ k <= x.e.timers /\ (x.e.timers \in {0, 1} => k = 0)
  BY <1>1
<1> HIDE DEF k
<1>3. y.e = [x.e EXCEPT !.timers = k] /\ y.m = x.m /\ y.raised = x.raised
  BY DEF Stopped, Runs, k
<1>4. y = [e |-> y.e, m |-> y.m, raised |-> y.raised]
  BY DEF Stopped, Runs
<1> HIDE DEF y
<1>5. y.e \in Engines /\ Sames(x.e, y.e) /\ y.e.timers = k
  BY <1>1, <1>2, <1>3 DEF Engines, Sames
<1>6. y \in Runs
  BY <1>3, <1>4, <1>5 DEF Runs
<1> QED
  BY <1>2, <1>3, <1>5, <1>6 DEF y

\* The timer is started.
LEMMA StartedRun ==
  ASSUME NEW x \in Runs
  PROVE  LET y == Started(x) IN
         /\ y \in Runs /\ y.m = x.m /\ y.raised = x.raised /\ Sames(x.e, y.e)
         /\ y.e.timers = x.e.timers + 1
<1> DEFINE k == x.e.timers + 1
           y == Started(x)
<1>1. x.e \in Engines /\ k \in Nat
  BY DEF Runs, Engines
<1> HIDE DEF k
<1>2. /\ y.e = [x.e EXCEPT !.timers = k, !.alarm = TRUE]
      /\ y.m = x.m /\ y.raised = x.raised
  BY DEF Started, Runs, k
<1>3. y = [e |-> y.e, m |-> y.m, raised |-> y.raised]
  <2> DEFINE z == [x EXCEPT !.e.timers = @ + 1]
  <2>1. z = [e |-> z.e, m |-> z.m, raised |-> z.raised]
    BY DEF Runs
  <2>2. y = [z EXCEPT !.e.alarm = TRUE]
    BY DEF Started
  <2> HIDE DEF z, y
  <2> QED
    BY <2>1, <2>2
<1> HIDE DEF y
<1>4. y.e \in Engines /\ Sames(x.e, y.e) /\ y.e.timers = k
  BY <1>1, <1>2 DEF Engines, Sames
<1>5. y \in Runs
  BY <1>2, <1>3, <1>4 DEF Runs
<1> QED
  BY <1>2, <1>4, <1>5 DEF y, k

\* A run that goes on with another engine and manager.
LEMMA RunOf ==
  ASSUME NEW f \in Engines, NEW n, Fit(n), NEW r \in BOOLEAN
  PROVE  [e |-> f, m |-> n, raised |-> r] \in Runs
<1>1. n \in SM!Managers
  BY SameCheck DEF Fit, SMP!Good
<1> QED
  BY <1>1 DEF Runs

\* A session is kept by the engine.
LEMMA SessionRun ==
  ASSUME NEW x \in Runs, NEW s \in Tokens
  PROVE  Session(x, s) = [e |-> [x.e EXCEPT !.sess = s],
                          m |-> SM!Created(x.m, s), raised |-> x.raised]
<1> DEFINE z == [x EXCEPT !.e.sess = s]
<1>1. z = [e |-> [x.e EXCEPT !.sess = s], m |-> x.m, raised |-> x.raised]
  BY DEF Runs
<1>2. Session(x, s) = [z EXCEPT !.m = SM!Created(@, s)]
  BY DEF Session
<1> HIDE DEF z
<1> QED
  BY <1>1, <1>2

\* The sessions of a connection that is closed: its own, or the temporary one.
LEMMA SessionOverRun ==
  ASSUME NEW x \in Runs, Fit(x.m)
  PROVE  LET y == SessionOver(x) IN
         /\ y \in Runs /\ Fit(y.m) /\ y.raised = x.raised
         /\ y.e = IF x.e.ws = "open" /\ x.e.sess = None
                  THEN [x.e EXCEPT !.sess = 0] ELSE x.e
         /\ SMP!Leaves(x.m, y.m, {y.e.sess}, {0})
         /\ y.m.calls \ {0} = x.m.calls \ {0}
         /\ y.e.sess # x.e.sess => 0 \in y.m.known
<1> DEFINE y == SessionOver(x)
<1>1. x.e \in Engines /\ x.m \in SM!Managers /\ x.raised \in BOOLEAN /\ 0 \in Tokens
  BY EngineConstants DEF Runs, Tokens
<1>2. CASE x.e.ws = "open" /\ x.e.sess = None
  <2> DEFINE a == SM!Created(x.m, 0)
             n == SM!SessionClosed(a, 0)
             f == [x.e EXCEPT !.sess = 0]
  <2>1. /\ a \in SM!Managers /\ 0 \in a.open
        /\ Fit(n) /\ SMP!Leaves(x.m, n, {0}, {0}) /\ 0 \in n.known
        /\ n.calls \ {0} = x.m.calls \ {0}
    BY TemporaryLeaves
  <2>2. Session(x, 0) = [e |-> f, m |-> a, raised |-> x.raised]
    BY <1>1, SessionRun
  <2> HIDE DEF a
  <2>3. f \in Engines /\ f.sess = 0
    BY <1>1 DEF Engines
  <2> HIDE DEF f
  <2>4. 0 # None
    BY <1>1, EngineConstants DEF Tokens
  <2>5. y = [e |-> f, m |-> n, raised |-> x.raised]
    BY <1>1, <1>2, <2>1, <2>2, <2>3, <2>4 DEF SessionOver
  <2> HIDE DEF n, y
  <2>6. y \in Runs
    BY <1>1, <2>1, <2>3, <2>5, RunOf
  <2>7. y.e.sess # x.e.sess => 0 \in y.m.known
    BY <2>1, <2>5
  <2>8. SMP!Leaves(x.m, y.m, {y.e.sess}, {0})
    BY <2>1, <2>3, <2>5
  <2>9. y.e = f /\ Fit(y.m) /\ y.raised = x.raised
        /\ y.m.calls \ {0} = x.m.calls \ {0}
    BY <2>1, <2>5
  <2> QED
    BY <1>2, <2>6, <2>7, <2>8, <2>9 DEF f, y
<1>3. CASE ~(x.e.ws = "open" /\ x.e.sess = None)
  <2> DEFINE s == x.e.sess
             n == SM!SessionClosed(x.m, s)
  <2>1. CASE s # None /\ s \in x.m.open
    <3>1. s \in Tokens
      BY <1>1, <2>1 DEF Engines
    <3>2. Fit(n) /\ SMP!Leaves(x.m, n, {s}, {}) /\ n.calls = x.m.calls
      BY <3>1, ClosedLeaves
    <3>3. y = [x EXCEPT !.m = n]
      BY <1>3, <2>1 DEF SessionOver
    <3> HIDE DEF n
    <3>4. y = [e |-> x.e, m |-> n, raised |-> x.raised]
      BY <3>3 DEF Runs
    <3> HIDE DEF y
    <3>5. y \in Runs
      BY <1>1, <3>2, <3>4, RunOf
    <3>6. SMP!Leaves(x.m, n, {s}, {0})
      BY <3>2 DEF SMP!Leaves
    <3> QED
      BY <1>3, <3>2, <3>4, <3>5, <3>6 DEF y
  <2>2. CASE ~(s # None /\ s \in x.m.open)
    <3>1. y = x
      BY <1>3, <2>2 DEF SessionOver
    <3>2. SMP!Leaves(x.m, x.m, {s}, {0})
      BY DEF SMP!Leaves
    <3> QED
      BY <1>3, <3>1, <3>2
  <2> QED
    BY <2>1, <2>2
<1> QED
  BY <1>2, <1>3

\* An engine in another state, or with another websocket.
LEMMA StateRun ==
  ASSUME NEW x \in Runs, NEW st \in States
  PROVE  LET y == [x EXCEPT !.e.st = st] IN
         /\ y \in Runs /\ y.m = x.m /\ y.raised = x.raised
         /\ y.e = [x.e EXCEPT !.st = st] /\ y.e.st = st
         /\ y.e.ws = x.e.ws /\ y.e.sess = x.e.sess
         /\ y.e.pending = x.e.pending /\ y.e.timers = x.e.timers
         /\ y.e.alarm = x.e.alarm /\ y.e.flow = x.e.flow
         /\ y.e.lifted = x.e.lifted /\ y.e.stranded = x.e.stranded
<1> DEFINE f == [x.e EXCEPT !.st = st]
           y == [x EXCEPT !.e.st = st]
<1>1. x.e \in Engines
  BY DEF Runs
<1>2. /\ f \in Engines /\ f.st = st /\ f.ws = x.e.ws /\ f.sess = x.e.sess
      /\ f.pending = x.e.pending /\ f.timers = x.e.timers
      /\ f.alarm = x.e.alarm /\ f.flow = x.e.flow
      /\ f.lifted = x.e.lifted /\ f.stranded = x.e.stranded
  BY <1>1 DEF Engines
<1>3. y = [e |-> f, m |-> x.m, raised |-> x.raised]
  BY DEF Runs
<1> HIDE DEF f, y
<1>4. y \in Runs
  BY <1>2, <1>3 DEF Runs
<1> QED
  BY <1>2, <1>3, <1>4 DEF y, f

LEMMA ClosingRun ==
  ASSUME NEW x \in Runs, NEW w, w = "closing" \/ w = "closed"
  PROVE  LET y == [x EXCEPT !.e.ws = w] IN
         /\ y \in Runs /\ y.m = x.m /\ y.raised = x.raised
         /\ y.e.ws = w /\ y.e.st = x.e.st /\ y.e.sess = x.e.sess
         /\ y.e.pending = x.e.pending /\ y.e.timers = x.e.timers
         /\ y.e.alarm = x.e.alarm /\ y.e.flow = x.e.flow
         /\ y.e.lifted = x.e.lifted /\ y.e.stranded = x.e.stranded
<1> DEFINE f == [x.e EXCEPT !.ws = w]
           y == [x EXCEPT !.e.ws = w]
<1>1. x.e \in Engines
  BY DEF Runs
<1>2. /\ f \in Engines /\ f.ws = w /\ f.st = x.e.st /\ f.sess = x.e.sess
      /\ f.pending = x.e.pending /\ f.timers = x.e.timers
      /\ f.alarm = x.e.alarm /\ f.flow = x.e.flow
      /\ f.lifted = x.e.lifted /\ f.stranded = x.e.stranded
  BY <1>1 DEF Engines
<1>3. y = [e |-> f, m |-> x.m, raised |-> x.raised]
  BY DEF Runs
<1> HIDE DEF f, y
<1>4. y \in Runs
  BY <1>2, <1>3 DEF Runs
<1> QED
  BY <1>2, <1>3, <1>4 DEF y

\* An exception ends a handler.
LEMMA RaiseRun ==
  ASSUME NEW x \in Runs
  PROVE  LET y == Raise(x) IN
         y \in Runs /\ y.e = x.e /\ y.m = x.m /\ y.raised
<1>1. Raise(x) \in Runs /\ Raise(x).raised
  BY DEF Raise, Runs
<1>2. Raise(x).e = x.e /\ Raise(x).m = x.m
  BY DEF Raise, Runs
<1> QED
  BY <1>1, <1>2

\* The shutdown of the flow: the engine is ready again, the shutdown leaves an
\* open websocket stranded, or nothing changes.
FlowsOver(x, y) ==
  /\ x.e.ws = "open" => \/ y.raised = x.raised
                        \/ y.raised /\ y.e.stranded
  /\ y.e.ws = x.e.ws /\ y.e.sess = x.e.sess
  /\ y.e.pending = x.e.pending /\ y.e.timers = x.e.timers
  /\ y.e.lifted = x.e.lifted /\ (x.e.stranded => y.e.stranded)
  /\ \/ y.e.st = x.e.st
     \/ x.e.ws = "open" /\ y.e.st = "ready" /\ y.raised = x.raised

LEMMA FlowOverRun ==
  ASSUME NEW x \in Runs, NEW phone \in BOOLEAN, NEW waits \in BOOLEAN
  PROVE  LET y == FlowOver(x, phone, waits) IN
         /\ y \in Runs /\ y.m = x.m /\ FlowsOver(x, y)
         /\ x.e.ws # "open" => y.e = x.e
<1> DEFINE y == FlowOver(x, phone, waits)
<1>1. CASE ~x.e.flow \/ ~waits
  <2>1. y = x
    BY <1>1 DEF FlowOver
  <2> HIDE DEF y
  <2>2. y \in Runs
    BY <2>1
  <2> QED
    BY <2>1, <2>2 DEF y, FlowsOver
<1>2. CASE x.e.flow /\ waits /\ ~phone
  <2> DEFINE b == x.e.stranded \/ x.e.ws = "open"
             f == [x.e EXCEPT !.stranded = b]
             z == [x EXCEPT !.e.stranded = @ \/ x.e.ws = "open"]
  <2>1. y = Raise(z)
    BY <1>2 DEF FlowOver
  <2>2. x.e \in Engines /\ b \in BOOLEAN
    BY DEF Runs, Engines
  <2>3. z = [e |-> f, m |-> x.m, raised |-> x.raised]
    BY DEF Runs
  <2>4. x.e.ws # "open" => b = x.e.stranded
    BY <2>2 DEF Engines
  <2>4a. (x.e.stranded => b) /\ (x.e.ws = "open" => b)
    OBVIOUS
  <2> HIDE DEF b
  <2>5. /\ f \in Engines /\ f.ws = x.e.ws /\ f.sess = x.e.sess
        /\ f.pending = x.e.pending /\ f.timers = x.e.timers
        /\ f.flow = x.e.flow /\ f.lifted = x.e.lifted /\ f.stranded = b
        /\ f.st = x.e.st
    BY <2>2 DEF Engines
  <2>6. x.e.ws # "open" => f = x.e
    BY <2>2, <2>4 DEF Engines
  <2> HIDE DEF f, z, y
  <2>7. z \in Runs /\ z.e = f /\ z.m = x.m
    BY <2>3, <2>5 DEF Runs
  <2>8. y \in Runs /\ y.e = f /\ y.m = x.m /\ y.raised
    BY <2>1, <2>7, RaiseRun
  <2> QED
    BY <2>4a, <2>5, <2>6, <2>8 DEF y, FlowsOver
<1>3. CASE x.e.flow /\ waits /\ phone /\ x.e.ws = "open"
  <2>1. y = [x EXCEPT !.e.st = "ready"]
    BY <1>3 DEF FlowOver
  <2>2. "ready" \in States
    BY DEF States
  <2> HIDE DEF y
  <2>3. /\ y \in Runs /\ y.m = x.m /\ y.raised = x.raised
        /\ y.e.st = "ready" /\ y.e.ws = x.e.ws /\ y.e.sess = x.e.sess
        /\ y.e.pending = x.e.pending /\ y.e.timers = x.e.timers
        /\ y.e.flow = x.e.flow /\ y.e.lifted = x.e.lifted
        /\ y.e.stranded = x.e.stranded
    BY <2>1, <2>2, StateRun
  <2> QED
    BY <1>3, <2>3 DEF y, FlowsOver
<1>4. CASE x.e.flow /\ waits /\ phone /\ x.e.ws # "open"
  <2>1. y = Raise(x)
    BY <1>4 DEF FlowOver
  <2>2. y \in Runs /\ y.e = x.e /\ y.m = x.m
    BY <2>1, RaiseRun
  <2> HIDE DEF y
  <2> QED
    BY <1>4, <2>2 DEF y, FlowsOver
<1> QED
  BY <1>1, <1>2, <1>3, <1>4

\* close_connection: the websocket is given up unless the shutdown of a flow
\* strands it, and only the session of an engine that is over stops waiting.
LEMMA ConnectionClosedCarries ==
  ASSUME NEW x \in Runs, Fit(x.m), ~x.raised, Rooted(x.e, x.m),
         x.e.ws # "new", x.e.st = "connected" => x.e.sess = None,
         NEW phone \in BOOLEAN, NEW waits \in BOOLEAN
  PROVE  LET y == ConnectionClosed(x, phone, waits) IN
         /\ Carries(x, y) /\ Rooted(y.e, y.m)
         /\ y.e.ws = "open" => y.raised /\ y.e.stranded /\ x.e.ws = "open"
                               /\ y.e.st = x.e.st
         /\ y.e.st \in {x.e.st, "ready"} /\ y.e.lifted = x.e.lifted
<1> DEFINE a == Stopped(x)
           b == SessionOver(a)
           d == FlowOver(b, phone, waits)
           y == ConnectionClosed(x, phone, waits)
<1>1. /\ a \in Runs /\ a.m = x.m /\ a.raised = x.raised /\ Sames(x.e, a.e)
      /\ a.e.timers <= x.e.timers
      /\ x.e.timers \in {0, 1} => a.e.timers = 0
  BY StoppedRun
<1>2. y = IF ~d.raised /\ d.e.ws = "open" THEN [d EXCEPT !.e.ws = "closing"] ELSE d
  BY DEF ConnectionClosed
<1> HIDE DEF a, y
<1>3. /\ b \in Runs /\ Fit(b.m) /\ b.raised = a.raised
      /\ b.e = IF a.e.ws = "open" /\ a.e.sess = None
               THEN [a.e EXCEPT !.sess = 0] ELSE a.e
      /\ SMP!Leaves(a.m, b.m, {b.e.sess}, {0})
      /\ b.m.calls \ {0} = a.m.calls \ {0}
      /\ b.e.sess # a.e.sess => 0 \in b.m.known
  BY <1>1, SessionOverRun
<1> HIDE DEF b
<1>4. d \in Runs /\ d.m = b.m /\ FlowsOver(b, d)
  BY <1>3, FlowOverRun
<1> HIDE DEF d
<1>5. /\ a.e \in Engines /\ b.e \in Engines /\ d.e \in Engines
      /\ x.e \in Engines
  BY <1>1, <1>3, <1>4 DEF Runs
<1>6. /\ b.e.ws = a.e.ws /\ b.e.st = a.e.st /\ b.e.pending = a.e.pending
      /\ b.e.flow = a.e.flow /\ b.e.timers = a.e.timers
      /\ b.e.lifted = a.e.lifted /\ b.e.stranded = a.e.stranded
      /\ b.e.sess = IF a.e.ws = "open" /\ a.e.sess = None THEN 0 ELSE a.e.sess
  BY <1>3, <1>5 DEF Engines
<1>7. /\ y \in Runs /\ y.m = d.m
      /\ y.e.ws = IF x.e.ws = "open" /\ ~d.raised THEN "closing" ELSE x.e.ws
      /\ y.raised = d.raised
      /\ y.e.sess = d.e.sess /\ y.e.pending = d.e.pending
      /\ y.e.lifted = d.e.lifted /\ y.e.stranded = d.e.stranded
      /\ y.e.timers = d.e.timers /\ y.e.st = d.e.st
  <2>1. CASE x.e.ws = "open" /\ ~d.raised
    <3>1. ~d.raised /\ d.e.ws = "open"
      BY <2>1, <1>1, <1>4, <1>6 DEF Sames, FlowsOver
    <3>2. y = [d EXCEPT !.e.ws = "closing"]
      BY <3>1, <1>2
    <3>3. LET z == [d EXCEPT !.e.ws = "closing"] IN
          /\ z \in Runs /\ z.m = d.m /\ z.e.ws = "closing" /\ z.e.st = d.e.st
          /\ z.e.sess = d.e.sess /\ z.e.pending = d.e.pending
          /\ z.e.timers = d.e.timers /\ z.raised = d.raised
          /\ z.e.lifted = d.e.lifted /\ z.e.stranded = d.e.stranded
      BY <1>4, ClosingRun
    <3> QED
      BY <2>1, <3>2, <3>3
  <2>2. CASE ~(x.e.ws = "open" /\ ~d.raised)
    <3>1. d.e.ws = x.e.ws
      BY <1>1, <1>4, <1>6 DEF Sames, FlowsOver
    <3>2. y = d
      BY <2>2, <3>1, <1>2
    <3> QED
      BY <2>2, <3>1, <3>2, <1>4
  <2> QED
    BY <2>1, <2>2
<1>8. /\ y.e.ws = "open" => y.raised /\ y.e.stranded /\ x.e.ws = "open"
      /\ y.e.ws = "open" => y.e.st = x.e.st
      /\ y.e.ws # "new" 
      /\ y.e.ws = x.e.ws \/ (x.e.ws = "open" /\ y.e.ws = "closing")
      /\ x.e.ws = "closed" => y.e.ws = "closed"
      /\ y.e.st = x.e.st \/ (x.e.ws = "open" /\ y.e.st = "ready")
      /\ y.e.sess = IF x.e.ws = "open" /\ x.e.sess = None THEN 0 ELSE x.e.sess
      /\ y.e.pending = x.e.pending
      /\ y.e.lifted = x.e.lifted /\ (x.e.stranded => y.e.stranded)
      /\ y.e.timers <= x.e.timers /\ (x.e.timers \in {0, 1} => y.e.timers = 0)
  <2>1. /\ b.raised = x.raised /\ b.e.ws = x.e.ws /\ b.e.st = x.e.st
        /\ b.e.pending = x.e.pending /\ b.e.lifted = x.e.lifted
        /\ b.e.stranded = x.e.stranded /\ b.e.timers = a.e.timers
        /\ b.e.sess = IF x.e.ws = "open" /\ x.e.sess = None THEN 0 ELSE x.e.sess
    BY <1>1, <1>3, <1>6 DEF Sames
  <2>2. x.e.ws = "open" /\ d.raised => d.e.stranded /\ d.e.st = x.e.st
    BY <1>4, <2>1 DEF FlowsOver
  <2>3. y.e.ws = "open" => x.e.ws = "open" /\ d.raised
    BY <1>7
  <2> QED
    BY <1>1, <1>4, <1>7, <2>1, <2>2, <2>3 DEF FlowsOver
<1>9. 0 # None /\ y.e \in Engines /\ x.e.timers \in Nat /\ y.e.timers \in Nat
  BY <1>5, <1>7, EngineConstants DEF Tokens, Runs, Engines
<1>10. Fixed(x.e, y.e)
  BY <1>8, <1>9 DEF Fixed, Rooted
<1>11. /\ Fit(y.m) /\ SMP!Leaves(x.m, y.m, {y.e.sess}, {0})
       /\ y.m.calls \ {0} = x.m.calls \ {0}
       /\ y.e.sess # x.e.sess => 0 \in y.m.known
  BY <1>1, <1>3, <1>4, <1>7 DEF Sames, FlowsOver
<1>12. \A s \in Tokens \ {0} : s = y.e.sess => Over(y.e, s)
  BY <1>8, <1>9, EngineConstants DEF Over, Tokens
<1>13. Moves(x.m, y.m, y.e)
  BY <1>11, <1>12 DEF Moves, SMP!Leaves
<1>14. Rooted(y.e, y.m)
  <2>1. /\ y.e.st \notin {"connected", "disconnected"} =>
             y.e.sess # None \/ Lifted(y.e)
        /\ (\E v \in Events : y.e.pending[v] > 0) => y.e.sess # None
    <3>1. x.e.sess # None => y.e.sess # None
      BY <1>8
    <3>2. (\E v \in Events : y.e.pending[v] > 0) => x.e.sess # None
      BY <1>8 DEF Rooted
    <3>3. y.e.st \notin {"connected", "disconnected"} =>
            y.e.sess # None \/ Lifted(y.e)
      BY <1>8, <1>9, <3>1 DEF Rooted, Lifted
    <3> QED
      BY <3>1, <3>2, <3>3
  <2>2. y.e.ws \in {"open", "closing"} /\ y.e.sess # None => y.e.sess \in y.m.known
    BY <1>8, <1>9, <1>11 DEF Rooted, SMP!Leaves
  <2>3. /\ y.e.st = "connected" => y.e.timers \in {0, 1}
        /\ y.e.st = "connected" /\ y.e.sess # None => y.e.timers = 0
    BY <1>8, <1>9 DEF Rooted
  <2> QED
    BY <2>1, <2>2, <2>3, <1>9 DEF Rooted
<1> QED
  BY <1>7, <1>8, <1>10, <1>11, <1>13, <1>14 DEF Carries, y

\* Parts of a handler compose.
LEMMA CarriesCompose ==
  ASSUME NEW x, NEW y, NEW z, Carries(x, y), Carries(y, z)
  PROVE  Carries(x, z)
<1>1. Fixed(x.e, z.e)
  BY DEF Carries, Fixed
<1>2. \A s \in Tokens \ {0} : Over(y.e, s) => Over(z.e, s)
  BY EngineConstants DEF Carries, Fixed, Over, Tokens
<1>3. Moves(x.m, z.m, z.e)
  BY <1>2 DEF Carries, Moves
<1> QED
  BY <1>1, <1>3 DEF Carries

\* A part that leaves the sessions alone.
LEMMA CarriesKept ==
  ASSUME NEW x, Fit(x.m), NEW y \in Runs, y.m = x.m, Fixed(x.e, y.e)
  PROVE  Carries(x, y)
<1>1. Moves(x.m, y.m, y.e)
  BY DEF Moves
<1> QED
  BY <1>1 DEF Carries

\* Sending something may end the handler.
LEMMA SentRun ==
  ASSUME NEW x \in Runs
  PROVE  Sent(x) \in Runs /\ Sent(x).e = x.e /\ Sent(x).m = x.m
  BY RaiseRun DEF Sent

\* An engine in a state of its own is sound if its session lives, and it is
\* entitled to be served if it is.
LEMMA SoundBeyond ==
  ASSUME NEW f \in Engines, NEW m, NEW p, f.sess # None \/ Lifted(f),
         (\E v \in Events : f.pending[v] > 0) \/ p => f.sess # None,
         f.ws # "new", f.st \notin {"connected", "disconnected"},
         f.ws \in {"open", "closing"} /\ f.sess # None => f.sess \in m.known,
         f.ws = "open" /\ f.st \in Served => p \/ Lifted(f)
  PROVE  Sound(f, m, p)
  BY DEF Sound, Rooted

\* A decision or a registration is under way.
LEMMA PendingRun ==
  ASSUME NEW x \in Runs, NEW v \in Events
  PROVE  LET y == [x EXCEPT !.e.pending[v] = @ + 1] IN
         /\ y \in Runs /\ y.m = x.m /\ y.raised = x.raised
         /\ y.e.ws = x.e.ws /\ y.e.st = x.e.st /\ y.e.sess = x.e.sess
         /\ y.e.flow = x.e.flow /\ y.e.timers = x.e.timers
         /\ y.e.lifted = x.e.lifted /\ y.e.stranded = x.e.stranded
         /\ y.e.pending \in [Events -> Nat]
<1> DEFINE g == [x.e.pending EXCEPT ![v] = @ + 1]
           f == [x.e EXCEPT !.pending = g]
           y == [x EXCEPT !.e.pending[v] = @ + 1]
<1>1. x.e \in Engines /\ x.e.pending \in [Events -> Nat]
  BY DEF Runs, Engines
<1>2. g \in [Events -> Nat]
  BY <1>1
<1>3. y = [x EXCEPT !.e = f]
  BY <1>1 DEF Runs, Engines
<1> HIDE DEF g
<1>4. /\ f \in Engines /\ f.ws = x.e.ws /\ f.st = x.e.st /\ f.sess = x.e.sess
      /\ f.flow = x.e.flow /\ f.timers = x.e.timers
      /\ f.lifted = x.e.lifted /\ f.stranded = x.e.stranded
      /\ f.pending = g
  BY <1>1, <1>2 DEF Engines
<1> HIDE DEF f, y
<1>5. y \in Runs /\ y.m = x.m /\ y.e = f /\ y.raised = x.raised
  BY <1>3, <1>4 DEF Runs
<1> QED
  BY <1>2, <1>4, <1>5 DEF y

\* One that was under way is decided.
LEMMA DecidedRun ==
  ASSUME NEW x \in Runs, NEW v \in Events, x.e.pending[v] > 0
  PROVE  LET y == [x EXCEPT !.e.pending[v] = @ - 1] IN
         /\ y \in Runs /\ y.m = x.m /\ y.raised = x.raised
         /\ y.e.ws = x.e.ws /\ y.e.st = x.e.st /\ y.e.sess = x.e.sess
         /\ y.e.flow = x.e.flow /\ y.e.timers = x.e.timers
         /\ y.e.lifted = x.e.lifted /\ y.e.stranded = x.e.stranded
         /\ y.e.pending \in [Events -> Nat]
<1> DEFINE g == [x.e.pending EXCEPT ![v] = @ - 1]
           f == [x.e EXCEPT !.pending = g]
           y == [x EXCEPT !.e.pending[v] = @ - 1]
<1>1. x.e \in Engines /\ x.e.pending \in [Events -> Nat]
  BY DEF Runs, Engines
<1>2. g \in [Events -> Nat]
  BY <1>1
<1>3. y = [x EXCEPT !.e = f]
  BY <1>1 DEF Runs, Engines
<1> HIDE DEF g
<1>4. /\ f \in Engines /\ f.ws = x.e.ws /\ f.st = x.e.st /\ f.sess = x.e.sess
      /\ f.flow = x.e.flow /\ f.timers = x.e.timers
      /\ f.lifted = x.e.lifted /\ f.stranded = x.e.stranded
      /\ f.pending = g
  BY <1>1, <1>2 DEF Engines
<1> HIDE DEF f, y
<1>5. y \in Runs /\ y.m = x.m /\ y.e = f /\ y.raised = x.raised
  BY <1>3, <1>4 DEF Runs
<1> QED
  BY <1>2, <1>4, <1>5 DEF y

\* A connection gets a flow.
LEMMA FlowRun ==
  ASSUME NEW x \in Runs
  PROVE  LET y == [x EXCEPT !.e.flow = TRUE] IN
         /\ y \in Runs /\ y.m = x.m /\ y.raised = x.raised
         /\ y.e.ws = x.e.ws /\ y.e.st = x.e.st /\ y.e.sess = x.e.sess
         /\ y.e.pending = x.e.pending /\ y.e.timers = x.e.timers
         /\ y.e.lifted = x.e.lifted /\ y.e.stranded = x.e.stranded
<1> DEFINE f == [x.e EXCEPT !.flow = TRUE]
           y == [x EXCEPT !.e.flow = TRUE]
<1>1. x.e \in Engines
  BY DEF Runs
<1>2. /\ f \in Engines
      /\ f.ws = x.e.ws /\ f.st = x.e.st /\ f.sess = x.e.sess
      /\ f.pending = x.e.pending /\ f.timers = x.e.timers
      /\ f.lifted = x.e.lifted /\ f.stranded = x.e.stranded
  BY <1>1 DEF Engines
<1>3. y = [x EXCEPT !.e = f]
  OBVIOUS
<1> HIDE DEF f, y
<1>4. y \in Runs /\ y.e = f /\ y.m = x.m /\ y.raised = x.raised
  BY <1>2, <1>3 DEF Runs
<1> QED
  BY <1>2, <1>4 DEF y

\* It stays sound.
LEMMA FlowCarries ==
  ASSUME NEW x \in Runs, Fit(x.m), NEW p, Sound(x.e, x.m, p), x.e.ws # "new"
  PROVE  LET y == [x EXCEPT !.e.flow = TRUE] IN
         Carries(x, y) /\ Sound(y.e, y.m, p)
<1> DEFINE y == [x EXCEPT !.e.flow = TRUE]
<1>1. /\ y \in Runs /\ y.m = x.m
      /\ y.e.ws = x.e.ws /\ y.e.st = x.e.st /\ y.e.sess = x.e.sess
      /\ y.e.pending = x.e.pending /\ y.e.timers = x.e.timers
      /\ y.e.lifted = x.e.lifted /\ y.e.stranded = x.e.stranded
  BY FlowRun
<1> HIDE DEF y
<1>2. Carries(x, y)
  BY <1>1, CarriesKept DEF Fixed
<1>3. Sound(y.e, y.m, p)
  BY <1>1 DEF Sound, Rooted, Runs, Lifted
<1> QED
  BY <1>2, <1>3 DEF y

\* The engine enters another state than the first, with its callback: it has
\* a session if it goes on, and has proved who it is if it is served, unless
\* it was lifted.
LEMMA MovedCarries ==
  ASSUME NEW x \in Runs, Fit(x.m), ~x.raised, NEW p, Sound(x.e, x.m, p),
         x.e.ws # "new", NEW c \in Conns, NEW waits \in BOOLEAN,
         NEW dst \in States \ {"connected"},
         dst = "registration" => x.e.sess # None,
         dst # "disconnected" => x.e.sess # None \/ (x.e.lifted /\ dst \in Probing),
         dst \in Served /\ x.e.ws = "open" => p \/ (x.e.lifted /\ dst \in Probing)
  PROVE  LET y == Moved(x, c, dst, waits) IN
         Carries(x, y) /\ Sound(y.e, y.m, p) /\ y.e.st # "connected"
<1> DEFINE z == [x EXCEPT !.e.st = dst]
           y == Moved(x, c, dst, waits)
<1>1. CASE x.e.st = dst
  <2>1. y = x
    BY <1>1 DEF Moved
  <2>2. Carries(x, x)
    BY CarriesKept DEF Fixed
  <2> QED
    BY <1>1, <2>1, <2>2
<1>2. CASE x.e.st # dst
  <2>1. /\ z \in Runs /\ z.m = x.m /\ z.raised = x.raised /\ z.e.st = dst
        /\ z.e.ws = x.e.ws /\ z.e.sess = x.e.sess
        /\ z.e.pending = x.e.pending /\ z.e.timers = x.e.timers
        /\ z.e.alarm = x.e.alarm /\ z.e.flow = x.e.flow
        /\ z.e.lifted = x.e.lifted /\ z.e.stranded = x.e.stranded
    BY StateRun
  <2>2. y = Entered(z, c \in Phones, waits)
    BY <1>2 DEF Moved
  <2> HIDE DEF z, y
  <2>3. z.e \in Engines /\ Fixed(x.e, z.e)
    BY <2>1 DEF Runs, Fixed
  <2>4. CASE dst = "disconnected"
    <3>1. Rooted(z.e, z.m)
      BY <2>1, <2>3, <2>4 DEF Sound, Rooted
    <3> DEFINE ph == c \in Phones
    <3>2. y = ConnectionClosed(z, ph, waits) /\ ph \in BOOLEAN
      BY <2>1, <2>2, <2>4 DEF Entered
    <3> HIDE DEF ph
    <3>3. /\ Carries(z, y) /\ Rooted(y.e, y.m)
          /\ y.e.ws = "open" => y.e.stranded /\ y.e.st = "disconnected"
          /\ y.e.st \in {z.e.st, "ready"}
      BY <2>1, <2>4, <3>1, <3>2, ConnectionClosedCarries
    <3>4. Carries(x, z)
      BY <2>1, <2>3, CarriesKept
    <3>5. Carries(x, y)
      BY <3>3, <3>4, CarriesCompose
    <3>6. y.e.ws # "new"
      BY <2>1, <3>3 DEF Carries, Fixed
    <3>7. Sound(y.e, y.m, p)
      <4>1. p => y.e.sess # None
        BY <3>5 DEF Carries, Fixed, Sound
      <4>2. "disconnected" \notin Served
        BY DEF Served, Probing
      <4> QED
        BY <3>3, <3>6, <4>1, <4>2 DEF Sound
    <3> QED
      BY <2>1, <2>4, <3>3, <3>5, <3>7 DEF y
  <2>5. CASE dst # "disconnected"
    <3>1. /\ y \in Runs /\ y.m = x.m /\ y.e.ws = x.e.ws /\ y.e.st = dst
          /\ y.e.sess = x.e.sess
          /\ y.e.lifted = x.e.lifted /\ y.e.stranded = x.e.stranded
          /\ (\E v \in Events : y.e.pending[v] > 0) =>
               x.e.sess # None
      <4>0. (\E v \in Events : z.e.pending[v] > 0) => x.e.sess # None
        BY <2>1 DEF Sound, Rooted
      <4>1. CASE dst \in {"handshake", "appregistered", "resourceget",
                          "probetrying"}
        <5>1. y = Sent(z)
          BY <2>1, <2>2, <4>1 DEF Entered
        <5> QED
          BY <2>1, <4>0, <5>1, SentRun
      <4>2. CASE dst = "registration"
        <5>1. y = [z EXCEPT !.e.pending["registration"] = @ + 1]
          BY <2>1, <2>2, <4>2 DEF Entered
        <5>2. "registration" \in Events
          BY DEF Events
        <5> QED
          BY <2>1, <4>2, <5>1, <5>2, PendingRun
      <4>3. CASE dst = "ready" /\ c \in Phones
        <5>1. y = [z EXCEPT !.e.flow = TRUE]
          BY <2>1, <2>2, <4>3 DEF Entered
        <5> QED
          BY <2>1, <4>0, <4>3, <5>1, FlowRun
      <4>4. CASE dst = "probegetting" \/ (dst = "ready" /\ c \notin Phones)
        <5>1. y = z
          BY <2>1, <2>2, <4>4 DEF Entered
        <5> QED
          BY <2>1, <4>0, <5>1
      <4> QED
        BY <4>1, <4>2, <4>3, <4>4, <2>5 DEF States
    <3>2. Fixed(x.e, y.e)
      BY <3>1 DEF Fixed
    <3>3. Carries(x, y)
      BY <3>1, <3>2, CarriesKept
    <3>4. /\ y.e \in Engines /\ y.e.ws # "new"
          /\ y.e.sess # None \/ Lifted(y.e)
      BY <3>1, <2>5 DEF Runs, Lifted
    <3>5. /\ y.e.st \notin {"connected", "disconnected"}
          /\ y.e.ws \in {"open", "closing"} /\ y.e.sess # None =>
               y.e.sess \in y.m.known
          /\ p => y.e.sess # None
      BY <3>1, <3>4, <2>5 DEF Sound, Rooted
    <3>6. y.e.ws = "open" /\ y.e.st \in Served => p \/ Lifted(y.e)
      BY <3>1 DEF Lifted
    <3>7. Sound(y.e, y.m, p)
      BY <3>1, <3>4, <3>5, <3>6, SoundBeyond
    <3> QED
      BY <3>3, <3>5, <3>7 DEF y
  <2> QED
    BY <2>4, <2>5
<1> QED
  BY <1>1, <1>2

\* 'bye' ends the connection, or raises and changes nothing.
LEMMA ByeCarries ==
  ASSUME NEW x \in Runs, Fit(x.m), ~x.raised, NEW p, Sound(x.e, x.m, p),
         x.e.ws # "new", NEW c \in Conns, NEW waits \in BOOLEAN
  PROVE  LET y == Bye(x, c, waits) IN
         /\ Carries(x, y) /\ Sound(y.e, y.m, p)
         /\ y.raised \/ y.e.st # "connected"
         /\ y.e.ws = "open" => y.raised
<1> DEFINE y == Bye(x, c, waits)
<1>1. CASE x.e.st \in ByeFrom
  <2>1. y = Moved(x, c, "disconnected", waits)
    BY <1>1 DEF Bye
  <2>2. "disconnected" \in States \ {"connected"} /\ "disconnected" \notin Served
    BY DEF States, Served, Probing
  <2> HIDE DEF y
  <2>3. Carries(x, y) /\ Sound(y.e, y.m, p) /\ y.e.st # "connected"
    BY <2>1, <2>2, MovedCarries
  <2>4. y.e.ws = "open" => y.raised
    <3> DEFINE z == [x EXCEPT !.e.st = "disconnected"]
    <3>1. /\ z \in Runs /\ z.m = x.m /\ z.raised = x.raised
          /\ z.e.st = "disconnected" /\ z.e.ws = x.e.ws /\ z.e.sess = x.e.sess
          /\ z.e.pending = x.e.pending /\ z.e.lifted = x.e.lifted
      BY <2>2, StateRun
    <3> DEFINE ph == c \in Phones
    <3>2. y = ConnectionClosed(z, ph, waits) /\ ph \in BOOLEAN
      <4>1. x.e.st # "disconnected"
        BY <1>1 DEF ByeFrom
      <4>2. y = Entered(z, c \in Phones, waits)
        BY <2>1, <4>1 DEF Moved
      <4> HIDE DEF z
      <4> QED
        BY <4>2, <3>1 DEF Entered
    <3> HIDE DEF z, ph
    <3>3. z.e \in Engines
      BY <3>1 DEF Runs
    <3>4. Rooted(z.e, z.m)
      BY <3>1, <3>3 DEF Sound, Rooted, Lifted
    <3> QED
      BY <3>1, <3>2, <3>4, ConnectionClosedCarries
  <2> QED
    BY <2>3, <2>4 DEF y
<1>2. CASE x.e.st \notin ByeFrom
  <2>1. y = Raise(x)
    BY <1>2 DEF Bye
  <2>2. y \in Runs /\ y.e = x.e /\ y.m = x.m /\ y.raised
    BY <2>1, RaiseRun
  <2> HIDE DEF y
  <2>3. Carries(x, y)
    BY <2>2, CarriesKept DEF Fixed
  <2> QED
    BY <2>2, <2>3 DEF y
<1> QED
  BY <1>1, <1>2

\* The end of a message: the timer is started again.
LEMMA FinishedCarries ==
  ASSUME NEW x \in Runs, Fit(x.m), NEW p, Sound(x.e, x.m, p),
         x.e.ws # "new", x.raised \/ x.e.st # "connected"
  PROVE  LET y == Finished(x) IN
         Carries(x, y) /\ Sound(y.e, y.m, p)
<1> DEFINE y == Finished(x)
<1>1. CASE x.raised \/ x.e.st = "disconnected"
  <2>1. y = x
    BY <1>1 DEF Finished
  <2>2. Carries(x, x)
    BY CarriesKept DEF Fixed
  <2> QED
    BY <2>1, <2>2
<1>2. CASE ~(x.raised \/ x.e.st = "disconnected")
  <2>1. y = Started(x)
    BY <1>2 DEF Finished
  <2> HIDE DEF y
  <2>2. y \in Runs /\ y.m = x.m /\ Sames(x.e, y.e)
    BY <2>1, StartedRun
  <2>3. Carries(x, y)
    BY <2>2, CarriesKept DEF Fixed, Sames
  <2>4. /\ y.e \in Engines /\ y.e.ws = x.e.ws /\ y.e.st = x.e.st
        /\ y.e.sess = x.e.sess /\ y.e.pending = x.e.pending
        /\ y.e.lifted = x.e.lifted
        /\ x.e.st # "connected" /\ x.e.st # "disconnected"
    BY <1>2, <2>2 DEF Runs, Sames
  <2>5. Sound(y.e, y.m, p)
    BY <2>2, <2>4 DEF Sound, Rooted, Lifted
  <2> QED
    BY <2>3, <2>5 DEF y
<1> QED
  BY <1>1, <1>2

-----------------------------------------------------------------------------
(* Steps.                                                                  *)

\* What a step of connection c must leave behind: the manager only grows, the
\* owner of a session changes to c alone, a callback that is lost is lost to
\* an engine that is over, to c itself or with the check, and an open
\* connection has its old session or one that waits.
LEMMA StepKept ==
  ASSUME IInv, NEW c \in Conns, NEW y \in Runs, Takes(c, y), Fit(y.m),
         Sound(y.e, y.m, c \in proved'),
         proved \subseteq proved', proved' \subseteq proved \cup {c},
         received' \in [Conns -> 0..MaxMessages],
         owner' \in [Tokens -> Conns \cup {None}],
         \A s \in Tokens : owner'[s] = owner[s] \/ owner'[s] = c,
         \A s \in Tokens \ {0} : owner'[s] = c => y.e.sess # None,
         \A s \in Tokens \ {0} : s \in y.m.calls =>
                                   s \in sm.calls \/ owner'[s] = c,
         sm.known \subseteq y.m.known, sm.lapsed => y.m.lapsed,
         \A s \in Tokens \ {0} :
           s \in sm.known /\ Holds(sm, s) =>
             \/ Holds(y.m, s) \/ y.m.lapsed
             \/ /\ y.e.ws # "open" \/ y.e.stranded
                /\ Gone(y.e, s) \/ owner'[s] = c,
         \A s \in Tokens \ {0} : Gone(engines[c], s) => Gone(y.e, s),
         y.e.ws = "open" /\ y.e.sess \notin {None, 0}
           /\ owner'[y.e.sess] = c /\ ~y.e.stranded =>
           \/ Holds(y.m, y.e.sess)
           \/ /\ engines[c].ws = "open" /\ engines[c].sess = y.e.sess
              /\ owner[y.e.sess] = c /\ ~engines[c].stranded
  PROVE  IInv'
<1>1. engines \in [Conns -> Engines] /\ y.e \in Engines /\ Fit(sm)
  BY DEF IInv, Histories, Runs
<1>2. /\ engines' = [engines EXCEPT ![c] = y.e] /\ sm' = y.m
      /\ engines'[c] = y.e
      /\ \A d \in Conns \ {c} : engines'[d] = engines[d]
  BY <1>1 DEF Takes
<1>3. Histories'
  <2>1. engines' \in [Conns -> Engines]
    BY <1>1, <1>2
  <2>2. proved' \subseteq Conns
    BY DEF IInv, Histories
  <2> QED
    BY <2>1, <2>2 DEF Histories
<1>4. \A d \in Conns : Sound(engines'[d], sm', d \in proved')
  <2> SUFFICES ASSUME NEW d \in Conns, d # c
               PROVE  Sound(engines'[d], sm', d \in proved')
    BY <1>2
  <2>1. Sound(engines[d], sm, d \in proved)
    BY DEF IInv
  <2>2. d \in proved' <=> d \in proved
    OBVIOUS
  <2>3. Sound(engines[d], sm', d \in proved')
    BY <1>2, <2>1, <2>2 DEF Sound, Rooted, Lifted
  <2> QED
    BY <1>2, <2>3
<1>5. Owners'
  <2>1. ASSUME NEW s \in Tokens \ {0}
        PROVE  /\ s \in sm'.calls => owner'[s] \in Conns
               /\ owner'[s] \in Conns => engines'[owner'[s]].sess # None
    <3>1. /\ s \in sm.calls => owner[s] \in Conns
          /\ owner[s] \in Conns => engines[owner[s]].sess # None
      BY DEF IInv, Owners
    <3> QED
      BY <1>2, <3>1
  <2> QED
    BY <2>1 DEF Owners
<1>6. Held'
  <2> SUFFICES ASSUME NEW d \in Conns,
                      engines'[d].ws = "open", engines'[d].sess \notin {None, 0},
                      owner'[engines'[d].sess] = d, ~sm'.lapsed,
                      ~engines'[d].stranded
               PROVE  \/ Holds(sm', engines'[d].sess)
                      \/ \E b \in Conns \ {d} : Gone(engines'[b], engines'[d].sess)
    BY DEF Held, Holds
  <2> DEFINE s == engines'[d].sess
  <2>1. engines'[d] \in Engines
    BY <1>3 DEF Histories
  <2>2. s \in Tokens \ {0}
    BY <2>1 DEF Engines
  <2> HIDE DEF s
  <2>3. CASE d = c
    <3>1. CASE Holds(y.m, s)
      BY <1>2, <3>1 DEF s
    <3>2. CASE /\ engines[c].ws = "open" /\ engines[c].sess = s
               /\ owner[s] = c /\ ~engines[c].stranded
      <4>1. s \in sm.known
        BY <2>2, <3>2, EngineConstants DEF IInv, Sound, Rooted, Tokens
      <4>2. ~sm.lapsed /\ ~y.m.lapsed /\ y.e.ws = "open" /\ ~y.e.stranded
        BY <1>2, <2>3
      <4>3. \/ Holds(sm, s)
            \/ \E b \in Conns \ {c} : Gone(engines[b], s)
        BY <2>2, <3>2, <4>2, EngineConstants DEF IInv, Held, Tokens
      <4>4. ASSUME Holds(sm, s) PROVE Holds(y.m, s)
        BY <2>2, <4>1, <4>2, <4>4
      <4>5. ASSUME NEW b \in Conns \ {c}, Gone(engines[b], s)
            PROVE  Gone(engines'[b], s)
        BY <1>2, <4>5
      <4> QED
        BY <1>2, <2>3, <4>3, <4>4, <4>5 DEF s
    <3>3. Holds(y.m, s) \/ (engines[c].ws = "open" /\ engines[c].sess = s
                            /\ owner[s] = c /\ ~engines[c].stranded)
      BY <1>2, <2>3 DEF s
    <3> QED
      BY <3>1, <3>2, <3>3
  <2>4. CASE d # c
    <3>1. /\ engines'[d] = engines[d] /\ owner[s] = d /\ ~sm.lapsed /\ ~y.m.lapsed
          /\ ~engines[d].stranded
      BY <1>2, <2>2, <2>4 DEF s
    <3>2. s \in sm.known
      BY <2>2, <3>1, EngineConstants DEF IInv, Sound, Rooted, Tokens, s
    <3>3. \/ Holds(sm, s)
          \/ \E b \in Conns \ {d} : Gone(engines[b], s)
      BY <2>2, <3>1, EngineConstants DEF IInv, Held, Tokens, s
    <3>4. CASE Holds(sm, s)
      <4>1. Holds(y.m, s) \/ Gone(y.e, s)
        BY <2>2, <2>4, <3>1, <3>2, <3>4 DEF s
      <4> QED
        BY <1>2, <2>4, <4>1 DEF s
    <3>5. CASE \E b \in Conns \ {d} : Gone(engines[b], s)
      <4>1. PICK b \in Conns \ {d} : Gone(engines[b], s)
        BY <3>5
      <4>2. Gone(engines'[b], s)
        BY <1>2, <2>2, <4>1
      <4> QED
        BY <4>1, <4>2 DEF s
    <3> QED
      BY <3>3, <3>4, <3>5
  <2> QED
    BY <2>3, <2>4
<1> QED
  BY <1>2, <1>3, <1>4, <1>5, <1>6 DEF IInv, Fit

\* A step that is a handler's run.
LEMMA RunKept ==
  ASSUME IInv, NEW c \in Conns, NEW y, Carries(At(c), y), Takes(c, y),
         Sound(y.e, y.m, c \in proved'),
         proved \subseteq proved', proved' \subseteq proved \cup {c},
         received' \in [Conns -> 0..MaxMessages], owner' = owner
  PROVE  IInv'
<1>1. /\ y \in Runs /\ Fit(y.m)
      /\ Moves(sm, y.m, y.e) /\ Fixed(engines[c], y.e)
  BY DEF Carries, At
<1>2. owner \in [Tokens -> Conns \cup {None}]
  BY DEF IInv, Histories
<1>3. ASSUME NEW s \in Tokens \ {0}, owner[s] = c
      PROVE  y.e.sess # None
  BY <1>1, <1>3, EngineConstants DEF IInv, Owners, Fixed, Tokens
<1>4. \A s \in Tokens \ {0} : s \in y.m.calls <=> s \in sm.calls
  BY <1>1 DEF Moves
<1>5. \A s \in Tokens \ {0} :
        Holds(sm, s) => \/ Holds(y.m, s)
                        \/ Gone(y.e, s) /\ (y.e.ws # "open" \/ y.e.stranded)
  BY <1>1, <1>4 DEF Moves, Holds, Over, Gone
<1>6. \A s \in Tokens \ {0} : Gone(engines[c], s) => Gone(y.e, s)
  BY <1>1, EngineConstants DEF Fixed, Gone, Tokens
<1>7. y.e.ws = "open" /\ y.e.sess \notin {None, 0} /\ ~y.e.stranded =>
        /\ engines[c].ws = "open" /\ engines[c].sess = y.e.sess
        /\ ~engines[c].stranded
  BY <1>1 DEF Fixed
<1>8. sm.known \subseteq y.m.known /\ (sm.lapsed => y.m.lapsed)
  BY <1>1 DEF Moves
<1> QED
  BY <1>1, <1>2, <1>3, <1>4, <1>5, <1>6, <1>7, <1>8, StepKept

\* A step of the manager that only an engine that is over, or the check, can
\* notice.
LEMMA ManagerKept ==
  ASSUME IInv, UNCHANGED <<engines, owner, received, proved>>, Fit(sm'),
         sm'.calls \subseteq sm.calls, sm.lapsed => sm'.lapsed,
         \A c \in Conns :
           engines[c].ws \in {"open", "closing"} /\ engines[c].sess \in sm.known
             => engines[c].sess \in sm'.known,
         \A s \in Tokens \ {0} : Holds(sm, s) => Holds(sm', s) \/ sm'.lapsed
  PROVE  IInv'
<1>1. Histories'
  BY DEF IInv, Histories
<1>2. ASSUME NEW c \in Conns
      PROVE  Sound(engines'[c], sm', c \in proved')
  <2>1. Sound(engines[c], sm, c \in proved)
    BY DEF IInv
  <2>2. Sound(engines[c], sm', c \in proved)
    BY <2>1 DEF Sound, Rooted, Lifted
  <2> QED
    BY <2>2
<1>3. Owners'
  BY DEF IInv, Owners
<1>4. Held'
  <2> SUFFICES ASSUME NEW c \in Conns,
                      engines[c].ws = "open", engines[c].sess \notin {None, 0},
                      owner[engines[c].sess] = c, ~sm'.lapsed,
                      ~engines[c].stranded
               PROVE  \/ Holds(sm', engines[c].sess)
                      \/ \E d \in Conns \ {c} : Gone(engines[d], engines[c].sess)
    BY DEF Held, Holds
  <2>1. engines[c].sess \in Tokens \ {0}
    BY DEF IInv, Histories, Engines
  <2>2. \/ Holds(sm, engines[c].sess)
        \/ \E d \in Conns \ {c} : Gone(engines[d], engines[c].sess)
    BY DEF IInv, Held
  <2> QED
    BY <2>1, <2>2
<1> QED
  BY <1>1, <1>2, <1>3, <1>4 DEF IInv, Fit

-----------------------------------------------------------------------------
(* The actions.                                                            *)

\* Where every handler starts.
LEMMA AtRun ==
  ASSUME IInv, NEW c \in Conns
  PROVE  /\ At(c) \in Runs /\ At(c).e = engines[c] /\ At(c).m = sm
         /\ ~At(c).raised /\ Fit(At(c).m) /\ engines[c] \in Engines
         /\ Sound(At(c).e, At(c).m, c \in proved)
         /\ Carries(At(c), At(c))
<1>1. At(c) = [e |-> engines[c], m |-> sm, raised |-> FALSE]
  BY DEF At
<1>2. engines[c] \in Engines /\ Fit(sm) /\ Sound(engines[c], sm, c \in proved)
  BY DEF IInv, Histories
<1>3. At(c) \in Runs
  BY <1>1, <1>2, RunOf
<1>4. Carries(At(c), At(c))
  BY <1>1, <1>2, <1>3, CarriesKept DEF Fixed
<1> QED
  BY <1>1, <1>2, <1>3, <1>4

\* An engine that waits for something, or has a flow or a timer, was opened
\* and is not what a new one is.
LEMMA Opened ==
  ASSUME IInv, NEW c \in Conns,
         \/ engines[c].flow \/ engines[c].timers > 0
         \/ engines[c].sess # None
         \/ \E v \in Events : engines[c].pending[v] > 0
  PROVE  engines[c].ws # "new"
<1>1. engines[c].ws = "new" => engines[c] = NewEngine
  BY DEF IInv, Sound
<1> QED
  BY <1>1 DEF NewEngine

\* The part every message has: its timer is stopped, and the session whose
\* token it carries is refreshed.
LEMMA MessageCarries ==
  ASSUME IInv, NEW c \in Conns, NEW own \in BOOLEAN, Received(c, own)
  PROVE  LET x == Message(c, own) IN
         /\ Carries(At(c), x) /\ x \in Runs /\ Fit(x.m) /\ ~x.raised
         /\ Sound(x.e, x.m, c \in proved)
         /\ x.e.ws = engines[c].ws /\ x.e.ws \in {"open", "closing"}
         /\ x.e.st = engines[c].st /\ x.e.sess = engines[c].sess
         /\ x.e.pending = engines[c].pending
         /\ x.e.lifted = engines[c].lifted
         /\ x.e.stranded = engines[c].stranded
         /\ x.e.st = "connected" => x.e.timers = 0
         /\ ~own => x.m = sm
         /\ received' \in [Conns -> 0..MaxMessages]
<1> DEFINE a == Stopped(At(c))
           x == Message(c, own)
<1>1. /\ At(c) \in Runs /\ At(c).e = engines[c] /\ At(c).m = sm
      /\ ~At(c).raised /\ Fit(sm) /\ engines[c] \in Engines
      /\ Sound(engines[c], sm, c \in proved) /\ Carries(At(c), At(c))
  BY AtRun
<1>2. /\ engines[c].ws \in {"open", "closing"}
      /\ own => engines[c].sess \notin {None, 0}
      /\ received[c] < MaxMessages
      /\ received' = [received EXCEPT ![c] = @ + 1]
  BY DEF Received
<1>3. received' \in [Conns -> 0..MaxMessages]
  <2>1. received \in [Conns -> 0..MaxMessages]
    BY DEF IInv, Histories
  <2>2. received[c] + 1 \in 0..MaxMessages
    BY <1>2, <2>1, EngineConstants
  <2> QED
    BY <1>2, <2>1, <2>2
<1>4. /\ a \in Runs /\ a.m = sm /\ ~a.raised /\ Sames(engines[c], a.e)
      /\ a.e.timers <= engines[c].timers
      /\ engines[c].timers \in {0, 1} => a.e.timers = 0
  BY <1>1, StoppedRun
<1>5. x = IF own THEN [a EXCEPT !.m = SM!Refreshed(@, a.e.sess)] ELSE a
  BY DEF Message, Refreshed
<1> HIDE DEF a, x
<1>6. a.e \in Engines
  BY <1>4 DEF Runs
<1>7. /\ a.e.ws = engines[c].ws /\ a.e.st = engines[c].st
      /\ a.e.sess = engines[c].sess /\ a.e.lifted = engines[c].lifted
      /\ a.e.pending = engines[c].pending
      /\ a.e.stranded = engines[c].stranded
      /\ a.e.st = "connected" => a.e.timers = 0
  BY <1>1, <1>4 DEF Sames, Sound, Rooted
<1>8. Sound(a.e, sm, c \in proved)
  BY <1>1, <1>2, <1>6, <1>7 DEF Sound, Rooted, Lifted
<1>9. Carries(At(c), a)
  BY <1>1, <1>4, <1>7, CarriesKept DEF Fixed
<1>10. CASE ~own
  BY <1>1, <1>2, <1>3, <1>4, <1>5, <1>7, <1>8, <1>9, <1>10 DEF x
<1>11. CASE own
  <2> DEFINE s == a.e.sess
             n == SM!Refreshed(sm, s)
  <2>1. s \in sm.known /\ s # 0 /\ s # None
    BY <1>2, <1>7, <1>8, <1>11 DEF Sound, Rooted, Lifted
  <2>2. Fit(n) /\ Moves(sm, n, a.e)
    BY <1>1, <2>1, RefreshedMoves
  <2>3. x = [a EXCEPT !.m = n]
    BY <1>4, <1>5, <1>11
  <2> HIDE DEF n, s
  <2>4. x = [e |-> a.e, m |-> n, raised |-> a.raised]
    BY <1>4, <2>3 DEF Runs
  <2>5. a.raised \in BOOLEAN
    BY <1>4 DEF Runs
  <2>6. x \in Runs /\ x.e = a.e /\ x.m = n /\ ~x.raised
    BY <1>4, <1>6, <2>2, <2>4, <2>5, RunOf
  <2>7. Fixed(a.e, x.e)
    BY <2>6 DEF Fixed
  <2>8. Carries(a, x)
    BY <1>4, <2>2, <2>6, <2>7 DEF Carries
  <2>9. Carries(At(c), x)
    BY <1>9, <2>8, CarriesCompose
  <2>10. Sound(x.e, x.m, c \in proved)
    BY <1>8, <2>2, <2>6 DEF Sound, Rooted, Moves
  <2> QED
    BY <1>2, <1>3, <1>7, <1>11, <2>2, <2>6, <2>9, <2>10 DEF x
<1> QED
  BY <1>10, <1>11

\* A handler that moves to another state and ends as a message does.
LEMMA MovedFinishedCarries ==
  ASSUME NEW x \in Runs, Fit(x.m), ~x.raised, NEW p, Sound(x.e, x.m, p),
         x.e.ws # "new", NEW c \in Conns, NEW waits \in BOOLEAN,
         NEW dst \in States \ {"connected"},
         dst = "registration" => x.e.sess # None,
         dst # "disconnected" => x.e.sess # None \/ (x.e.lifted /\ dst \in Probing),
         dst \in Served /\ x.e.ws = "open" => p \/ (x.e.lifted /\ dst \in Probing)
  PROVE  LET y == Finished(Moved(x, c, dst, waits)) IN
         Carries(x, y) /\ Sound(y.e, y.m, p)
<1> DEFINE z == Moved(x, c, dst, waits)
           y == Finished(z)
<1>1. Carries(x, z) /\ Sound(z.e, z.m, p) /\ z.e.st # "connected"
  BY MovedCarries
<1> HIDE DEF z
<1>2. z \in Runs /\ Fit(z.m) /\ z.e.ws # "new"
  BY <1>1 DEF Carries, Fixed
<1>3. Carries(z, y) /\ Sound(y.e, y.m, p)
  BY <1>1, <1>2, FinishedCarries
<1> HIDE DEF y
<1>4. Carries(x, y)
  BY <1>1, <1>3, CarriesCompose
<1> QED
  BY <1>3, <1>4 DEF y, z

\* The run of an event that is decided now.
LEMMA DecisionRun ==
  ASSUME IInv, NEW c \in Conns, NEW v \in Events, engines[c].pending[v] > 0
  PROVE  LET x == [At(c) EXCEPT !.e.pending[v] = @ - 1] IN
         /\ x \in Runs /\ x.m = sm /\ ~x.raised /\ Fit(x.m)
         /\ Carries(At(c), x) /\ Sound(x.e, x.m, c \in proved)
         /\ x.e.ws # "new" /\ x.e.sess # None
         /\ x.e.st = engines[c].st /\ x.e.ws = engines[c].ws
<1> DEFINE x == [At(c) EXCEPT !.e.pending[v] = @ - 1]
<1>1. /\ At(c) \in Runs /\ At(c).e = engines[c] /\ At(c).m = sm
      /\ ~At(c).raised /\ Fit(sm) /\ engines[c] \in Engines
      /\ Sound(engines[c], sm, c \in proved)
  BY AtRun
<1>2. engines[c].ws # "new" /\ engines[c].sess # None
  <2>1. engines[c].ws # "new"
    BY Opened
  <2> QED
    BY <1>1, <2>1 DEF Sound, Rooted, Lifted
<1>3. /\ x \in Runs /\ x.m = sm /\ ~x.raised
      /\ x.e.ws = engines[c].ws /\ x.e.st = engines[c].st
      /\ x.e.sess = engines[c].sess /\ x.e.timers = engines[c].timers
      /\ x.e.lifted = engines[c].lifted
      /\ x.e.stranded = engines[c].stranded
  BY <1>1, DecidedRun
<1> HIDE DEF x
<1>4. x.e \in Engines
  BY <1>3 DEF Runs
<1>5. Carries(At(c), x)
  BY <1>1, <1>3, CarriesKept DEF Fixed
<1>6. Sound(x.e, x.m, c \in proved)
  BY <1>1, <1>2, <1>3, <1>4 DEF Sound, Rooted, Lifted
<1> QED
  BY <1>1, <1>2, <1>3, <1>5, <1>6 DEF x

\* Who was sound is so when it has proved more.
LEMMA SoundMore ==
  ASSUME NEW e, NEW m, NEW p, NEW q, Sound(e, m, p), p => q,
         q => e.sess # None
  PROVE  Sound(e, m, q)
  BY DEF Sound

LEMMA HelloDecidedKept ==
  ASSUME IInv, NEW c \in Conns, NEW dst, NEW waits \in BOOLEAN,
         HelloDecided(c, dst, waits)
  PROVE  IInv'
<1> DEFINE x == [At(c) EXCEPT !.e.pending["clientHello"] = @ - 1]
           y == Finished(Moved(x, c, dst, waits))
<1>1. /\ engines[c].pending["clientHello"] > 0
      /\ dst \in {"handshake", "disconnected"} /\ Takes(c, y)
      /\ UNCHANGED <<owner, received, proved>> /\ "clientHello" \in Events
  BY DEF HelloDecided, Events
<1>2. /\ x \in Runs /\ ~x.raised /\ Fit(x.m) /\ x.e.ws # "new"
      /\ Carries(At(c), x) /\ Sound(x.e, x.m, c \in proved) /\ x.e.sess # None
  BY <1>1, DecisionRun
<1> HIDE DEF x
<1>3. dst \in States \ {"connected"} /\ dst \notin Served
  BY <1>1 DEF States, Served, Probing
<1>4. Carries(x, y) /\ Sound(y.e, y.m, c \in proved)
  BY <1>2, <1>3, MovedFinishedCarries
<1> HIDE DEF y
<1>5. Carries(At(c), y)
  BY <1>2, <1>4, CarriesCompose
<1>6. received \in [Conns -> 0..MaxMessages]
  BY DEF IInv, Histories
<1> QED
  BY <1>1, <1>4, <1>5, <1>6, RunKept

LEMMA AuthDecidedKept ==
  ASSUME IInv, NEW c \in Conns, NEW dst, NEW waits \in BOOLEAN,
         AuthDecided(c, dst, waits)
  PROVE  IInv'
<1> DEFINE x == [At(c) EXCEPT !.e.pending["auth"] = @ - 1]
           y == Finished(Moved(x, c, dst, waits))
<1>1. /\ engines[c].pending["auth"] > 0
      /\ dst \in Welcomes(c) \cup {"disconnected"} /\ Takes(c, y)
      /\ proved' = IF dst = "disconnected" THEN proved ELSE proved \cup {c}
      /\ UNCHANGED <<owner, received>> /\ "auth" \in Events
  BY DEF AuthDecided, Events
<1>2. /\ x \in Runs /\ ~x.raised /\ Fit(x.m) /\ x.e.ws # "new"
      /\ Carries(At(c), x) /\ Sound(x.e, x.m, c \in proved) /\ x.e.sess # None
  BY <1>1, DecisionRun
<1> HIDE DEF x
<1>3. /\ dst \in States \ {"connected"}
      /\ dst \in Served => c \in proved'
  BY <1>1 DEF Welcomes, States, Served, Probing
<1>4. Sound(x.e, x.m, c \in proved')
  BY <1>1, <1>2, SoundMore
<1>5. Carries(x, y) /\ Sound(y.e, y.m, c \in proved')
  BY <1>2, <1>3, <1>4, MovedFinishedCarries
<1> HIDE DEF y
<1>6. Carries(At(c), y)
  BY <1>2, <1>5, CarriesCompose
<1>7. received \in [Conns -> 0..MaxMessages]
  BY DEF IInv, Histories
<1> QED
  BY <1>1, <1>5, <1>6, <1>7, RunKept

LEMMA RegisteredKept ==
  ASSUME IInv, NEW c \in Conns, NEW dst, Registered(c, dst)
  PROVE  IInv'
<1> DEFINE x == [At(c) EXCEPT !.e.pending["registration"] = @ - 1]
           y == IF x.e.st = "registration" THEN Moved(x, c, dst, FALSE)
                                           ELSE Raise(x)
<1>1. /\ engines[c].pending["registration"] > 0
      /\ dst \in {"appregistered", "disconnected"} /\ Takes(c, y)
      /\ proved' = IF dst = "appregistered" THEN proved \cup {c} ELSE proved
      /\ UNCHANGED <<owner, received>> /\ "registration" \in Events
  BY DEF Registered, Events
<1>2. /\ x \in Runs /\ ~x.raised /\ Fit(x.m) /\ x.e.ws # "new"
      /\ Carries(At(c), x) /\ Sound(x.e, x.m, c \in proved) /\ x.e.sess # None
  BY <1>1, DecisionRun
<1> HIDE DEF x
<1>3. /\ dst \in States \ {"connected"}
      /\ dst \in Served => c \in proved'
  BY <1>1 DEF States, Served, Probing
<1>4. Sound(x.e, x.m, c \in proved')
  BY <1>1, <1>2, SoundMore
<1>5. Carries(x, y) /\ Sound(y.e, y.m, c \in proved')
  <2>1. CASE x.e.st = "registration"
    BY <1>2, <1>3, <1>4, <2>1, MovedCarries
  <2>2. CASE x.e.st # "registration"
    <3>1. y \in Runs /\ y.e = x.e /\ y.m = x.m
      BY <1>2, <2>2, RaiseRun
    <3> HIDE DEF y
    <3>2. Carries(x, y)
      BY <1>2, <3>1, CarriesKept DEF Fixed
    <3> QED
      BY <1>4, <3>1, <3>2
  <2> QED
    BY <2>1, <2>2
<1> HIDE DEF y
<1>6. Carries(At(c), y)
  BY <1>2, <1>5, CarriesCompose
<1>7. received \in [Conns -> 0..MaxMessages]
  BY DEF IInv, Histories
<1> QED
  BY <1>1, <1>5, <1>6, <1>7, RunKept

LEMMA AuthKept ==
  ASSUME IInv, NEW c \in Conns, NEW own \in BOOLEAN, Auth(c, own)
  PROVE  IInv'
<1> DEFINE x == Message(c, own)
           y == [x EXCEPT !.e.pending["auth"] = @ + 1]
<1>1. /\ Received(c, own) /\ engines[c].st = "handshake" /\ Takes(c, y)
      /\ UNCHANGED <<owner, proved>> /\ "auth" \in Events
  BY DEF Auth, Events
<1>2. /\ Carries(At(c), x) /\ x \in Runs /\ Fit(x.m)
      /\ Sound(x.e, x.m, c \in proved) /\ x.e.st = "handshake"
      /\ x.e.ws \in {"open", "closing"}
      /\ received' \in [Conns -> 0..MaxMessages]
  BY <1>1, MessageCarries
<1> HIDE DEF x
<1>3. /\ y \in Runs /\ y.m = x.m
      /\ y.e.ws = x.e.ws /\ y.e.st = x.e.st /\ y.e.sess = x.e.sess
      /\ y.e.lifted = x.e.lifted /\ y.e.stranded = x.e.stranded
  BY <1>1, <1>2, PendingRun
<1> HIDE DEF y
<1>4. Carries(x, y)
  BY <1>2, <1>3, CarriesKept DEF Fixed
<1>5. Carries(At(c), y)
  BY <1>2, <1>4, CarriesCompose
<1>6. Sound(y.e, y.m, c \in proved)
  <2>1. y.e \in Engines /\ y.e.sess # None
    BY <1>2, <1>3 DEF Runs, Sound, Rooted, Lifted, Probing
  <2>2. x.e.sess \in x.m.known
    BY <1>2, <1>3, <2>1 DEF Sound, Rooted
  <2>3. y.e.st \notin Served
    BY <1>2, <1>3 DEF Served, Probing
  <2>4. y.e.st \notin {"connected", "disconnected"} /\ y.e.ws # "new"
    BY <1>2, <1>3
  <2> QED
    BY <1>3, <2>1, <2>2, <2>3, <2>4, SoundBeyond
<1> QED
  BY <1>1, <1>2, <1>5, <1>6, RunKept

\* Where the messages of an engine that is served lead.
LEMMA RepliesServed ==
  ASSUME NEW c, NEW st, NEW r \in Replies(c, st)
  PROVE  /\ st \in Served /\ r[1] \in Served /\ r[2] \in BOOLEAN
         /\ st \in Probing => r[1] \in Probing
<1>0. \A a, b : <<a, b>>[1] = a /\ <<a, b>>[2] = b
  OBVIOUS
<1>1. CASE st = "appregistered"
  <2>1. r \in Welcomes(c) \X {FALSE}
    BY <1>1 DEF Replies
  <2>2. r[1] \in Welcomes(c) /\ r[2] \in {FALSE}
    BY <2>1
  <2> QED
    BY <1>1, <2>2 DEF Welcomes, Served, Probing
<1>2. CASE st = "resourceget"
  <2>1. r \in {<<"ready", FALSE>>, <<"resourceget", TRUE>>}
    BY <1>2 DEF Replies
  <2>2. CASE r = <<"ready", FALSE>>
    BY <1>2, <2>2 DEF Served, Probing
  <2>3. CASE r = <<"resourceget", TRUE>>
    BY <1>2, <2>3 DEF Served, Probing
  <2> QED
    BY <2>1, <2>2, <2>3
<1>3. CASE st = "ready"
  <2>1. r \in {<<"ready", TRUE>>}
    BY <1>3 DEF Replies
  <2> QED
    BY <1>0, <1>3, <2>1 DEF Served, Probing
<1>4. CASE st \in {"probetrying", "probegetting"}
  <2>1. \/ r \in {<<st, TRUE>>, <<"probegetting", FALSE>>}
        \/ r \in {"ready"} \X BOOLEAN
    BY <1>4 DEF Replies
  <2>2. CASE r = <<st, TRUE>>
    BY <1>0, <1>4, <2>2 DEF Served, Probing
  <2>3. CASE r = <<"probegetting", FALSE>>
    BY <1>4, <2>3 DEF Served, Probing
  <2>4. CASE r \in {"ready"} \X BOOLEAN
    <3>1. r[1] = "ready" /\ r[2] \in BOOLEAN
      BY <2>4
    <3> QED
      BY <1>4, <3>1 DEF Served, Probing
  <2> QED
    BY <2>1, <2>2, <2>3, <2>4
<1>5. CASE st \notin {"appregistered", "resourceget", "ready", "probetrying",
                      "probegetting"}
  BY <1>5 DEF Replies
<1> QED
  BY <1>1, <1>2, <1>3, <1>4, <1>5

LEMMA DecidedKept ==
  ASSUME IInv, NEW c \in Conns, NEW own \in BOOLEAN, NEW waits \in BOOLEAN,
         Decided(c, own, waits)
  PROVE  IInv'
<1> DEFINE x == Message(c, own)
<1>1. PICK r \in Replies(c, engines[c].st) \cup {BadHeader} :
        LET y == IF r[2] THEN Sent(x) ELSE x IN
        Takes(c, IF y.raised THEN y ELSE Finished(Moved(y, c, r[1], waits)))
  BY DEF Decided
<1>2. /\ Received(c, own) /\ Replies(c, engines[c].st) # {}
      /\ UNCHANGED <<owner, proved>>
  BY DEF Decided
<1>3. /\ Carries(At(c), x) /\ x \in Runs /\ Fit(x.m) /\ ~x.raised
      /\ Sound(x.e, x.m, c \in proved) /\ x.e.st = engines[c].st
      /\ x.e.ws \in {"open", "closing"}
      /\ received' \in [Conns -> 0..MaxMessages]
  BY <1>2, MessageCarries
<1>4. engines[c].st \in Served
  BY <1>2, RepliesServed
<1>5. /\ r[1] \in States \ {"connected"} /\ r[2] \in BOOLEAN
  <2>1. CASE r = BadHeader
    BY <2>1 DEF BadHeader, States
  <2>2. CASE r \in Replies(c, engines[c].st)
    <3>1. r[1] \in Served /\ r[2] \in BOOLEAN
      BY <2>2, RepliesServed
    <3> QED
      BY <3>1 DEF Served, Probing, States
  <2> QED
    BY <2>1, <2>2
<1> DEFINE y == IF r[2] THEN Sent(x) ELSE x
           z == IF y.raised THEN y ELSE Finished(Moved(y, c, r[1], waits))
<1> HIDE DEF x
<1>6. y \in Runs /\ y.e = x.e /\ y.m = x.m
  BY <1>3, SentRun
<1>7. Takes(c, z)
  BY <1>1
<1> HIDE DEF y
<1>8. Carries(x, y) /\ Sound(y.e, y.m, c \in proved) /\ Fit(y.m)
  BY <1>3, <1>6, CarriesKept DEF Fixed
<1>9. /\ r[1] # "disconnected" => y.e.sess # None
                                   \/ (y.e.lifted /\ r[1] \in Probing)
      /\ r[1] \in Served /\ y.e.ws = "open" =>
           c \in proved \/ (y.e.lifted /\ r[1] \in Probing)
      /\ y.e.ws # "new" /\ r[1] # "registration"
  <2>1. CASE r = BadHeader
    BY <1>3, <1>6, <2>1 DEF BadHeader, Served, Probing
  <2>2. CASE r \in Replies(c, engines[c].st)
    <3>1. /\ r[1] \in Served
          /\ engines[c].st \in Probing => r[1] \in Probing
      BY <2>2, RepliesServed
    <3>2. /\ y.e.sess # None \/ Lifted(y.e)
          /\ y.e.ws = "open" => c \in proved \/ Lifted(y.e)
      BY <1>3, <1>4, <1>6 DEF Sound, Rooted, Served, Probing
    <3>3. Lifted(y.e) => y.e.lifted /\ r[1] \in Probing
      BY <1>3, <1>6, <3>1 DEF Lifted
    <3> QED
      BY <1>3, <1>6, <3>1, <3>2, <3>3 DEF Served, Probing
  <2> QED
    BY <2>1, <2>2
<1>10. Carries(y, z) /\ Sound(z.e, z.m, c \in proved)
  <2>1. CASE y.raised
    BY <1>6, <1>8, <2>1, CarriesKept DEF Fixed
  <2>2. CASE ~y.raised
    <3>1. z = Finished(Moved(y, c, r[1], waits))
      BY <2>2
    <3>2. /\ Carries(y, Finished(Moved(y, c, r[1], waits)))
          /\ Sound(Finished(Moved(y, c, r[1], waits)).e,
                   Finished(Moved(y, c, r[1], waits)).m, c \in proved)
      BY <1>5, <1>6, <1>8, <1>9, <2>2, MovedFinishedCarries
    <3> QED
      BY <3>1, <3>2
  <2> QED
    BY <2>1, <2>2
<1> HIDE DEF z
<1>11. Carries(At(c), z)
  <2>1. Carries(At(c), y)
    BY <1>3, <1>8, CarriesCompose
  <2> QED
    BY <1>10, <2>1, CarriesCompose
<1> QED
  BY <1>2, <1>3, <1>7, <1>10, <1>11, RunKept

LEMMA GoodbyeKept ==
  ASSUME IInv, NEW c \in Conns, NEW own \in BOOLEAN, NEW meant \in BOOLEAN,
         NEW waits \in BOOLEAN, Goodbye(c, own, meant, waits)
  PROVE  IInv'
<1> DEFINE x == Message(c, own)
           y == Bye(x, c, waits)
           z == IF meant THEN Finished(y) ELSE y
<1>1. Received(c, own) /\ Takes(c, z) /\ UNCHANGED <<owner, proved>>
  BY DEF Goodbye
<1>2. /\ Carries(At(c), x) /\ x \in Runs /\ Fit(x.m) /\ ~x.raised
      /\ Sound(x.e, x.m, c \in proved) /\ x.e.ws \in {"open", "closing"}
      /\ received' \in [Conns -> 0..MaxMessages]
  BY <1>1, MessageCarries
<1> HIDE DEF x
<1>3. /\ Carries(x, y) /\ Sound(y.e, y.m, c \in proved)
      /\ y.raised \/ y.e.st # "connected"
  BY <1>2, ByeCarries
<1> HIDE DEF y
<1>4. y \in Runs /\ Fit(y.m) /\ y.e.ws # "new"
  BY <1>2, <1>3 DEF Carries, Fixed
<1>5. Carries(y, z) /\ Sound(z.e, z.m, c \in proved)
  <2>1. CASE meant
    BY <1>3, <1>4, <2>1, FinishedCarries
  <2>2. CASE ~meant
    BY <1>3, <1>4, <2>2, CarriesKept DEF Fixed
  <2> QED
    BY <2>1, <2>2
<1> HIDE DEF z
<1>6. Carries(At(c), z)
  <2>1. Carries(At(c), y)
    BY <1>2, <1>3, CarriesCompose
  <2> QED
    BY <1>5, <2>1, CarriesCompose
<1> QED
  BY <1>1, <1>2, <1>5, <1>6, RunKept

LEMMA RpcKept ==
  ASSUME IInv, NEW c \in Conns, NEW own \in BOOLEAN, Rpc(c, own)
  PROVE  IInv'
<1> DEFINE x == Message(c, own)
           y == [x EXCEPT !.e.flow = TRUE]
           z == Moved(y, c, "probetrying", FALSE)
<1>1. /\ Received(c, own) /\ UNCHANGED <<owner, proved>>
      /\ \/ Takes(c, x) \/ Takes(c, y)
         \/ y.e.st = "ready" /\ Takes(c, z)
  BY DEF Rpc
<1>2. /\ Carries(At(c), x) /\ Sound(x.e, x.m, c \in proved)
      /\ x \in Runs /\ Fit(x.m) /\ ~x.raised
      /\ x.e.ws \in {"open", "closing"}
      /\ received' \in [Conns -> 0..MaxMessages]
  BY <1>1, MessageCarries
<1> HIDE DEF x
<1>3. Carries(x, y) /\ Sound(y.e, y.m, c \in proved)
  BY <1>2, FlowCarries
<1>4. ~y.raised /\ y.e.ws # "new" /\ y \in Runs /\ Fit(y.m)
  BY <1>2, <1>3, FlowRun DEF Carries
<1>5. Carries(At(c), y)
  BY <1>2, <1>3, CarriesCompose
<1> HIDE DEF y
<1>6. CASE y.e.st = "ready" /\ Takes(c, z)
  <2>1. /\ y.e.sess # None \/ y.e.lifted
        /\ y.e.ws = "open" => c \in proved \/ y.e.lifted
    BY <1>3, <1>6 DEF Sound, Rooted, Served, Probing, Lifted
  <2>2. /\ "probetrying" \in States \ {"connected"}
        /\ "probetrying" \in Probing
    BY DEF States, Probing
  <2>3. Carries(y, z) /\ Sound(z.e, z.m, c \in proved)
    BY <1>3, <1>4, <2>1, <2>2, MovedCarries
  <2> HIDE DEF z
  <2>4. Carries(At(c), z)
    BY <1>5, <2>3, CarriesCompose
  <2> QED
    BY <1>1, <1>2, <1>6, <2>3, <2>4, RunKept
<1> QED
  BY <1>1, <1>2, <1>3, <1>5, <1>6, RunKept

LEMMA TryProbeKept ==
  ASSUME IInv, NEW c \in Conns, TryProbe(c)
  PROVE  IInv'
<1> DEFINE x == At(c)
           y == Moved(x, c, "probetrying", FALSE)
<1>1. /\ engines[c].flow /\ engines[c].st = "ready" /\ Takes(c, y)
      /\ UNCHANGED <<owner, received, proved>>
  BY DEF TryProbe
<1>2. /\ x \in Runs /\ x.e = engines[c] /\ ~x.raised /\ Fit(x.m)
      /\ Sound(x.e, x.m, c \in proved)
  BY AtRun
<1>3. x.e.ws # "new"
  BY <1>1, <1>2, Opened
<1> HIDE DEF x
<1>4. /\ x.e.sess # None \/ x.e.lifted
      /\ x.e.ws = "open" => c \in proved \/ x.e.lifted
  BY <1>1, <1>2 DEF Sound, Rooted, Served, Probing, Lifted
<1>5. /\ "probetrying" \in States \ {"connected"}
      /\ "probetrying" \in Probing
  BY DEF States, Probing
<1>6. Carries(x, y) /\ Sound(y.e, y.m, c \in proved)
  BY <1>2, <1>3, <1>4, <1>5, MovedCarries
<1> HIDE DEF y
<1>7. received \in [Conns -> 0..MaxMessages]
  BY DEF IInv, Histories
<1> QED
  BY <1>1, <1>6, <1>7, RunKept DEF x

LEMMA CancelAuthKept ==
  ASSUME IInv, NEW c \in Conns, CancelAuth(c)
  PROVE  IInv'
<1> DEFINE x == At(c)
           b == engines[c].lifted \/ c \notin proved
           z == [x EXCEPT !.e.st = "ready"]
           f == [z.e EXCEPT !.lifted = b]
           y == [x EXCEPT !.e.st = "ready", !.e.lifted = @ \/ c \notin proved]
<1>1. /\ engines[c].flow /\ engines[c].ws = "open" /\ Takes(c, y)
      /\ UNCHANGED <<owner, received, proved>>
  BY DEF CancelAuth
<1>2. /\ x \in Runs /\ x.e = engines[c] /\ ~x.raised /\ Fit(x.m)
      /\ Sound(x.e, x.m, c \in proved) /\ engines[c] \in Engines
  BY AtRun
<1> HIDE DEF x
<1>3. "ready" \in States /\ "ready" \in Probing /\ b \in BOOLEAN
  BY <1>2 DEF States, Probing, Engines
<1>4. /\ z \in Runs /\ z.m = x.m /\ z.e.st = "ready" /\ z.e.ws = "open"
      /\ z.e.sess = engines[c].sess /\ z.e.pending = engines[c].pending
      /\ z.e.lifted = engines[c].lifted /\ z.e.stranded = engines[c].stranded
  BY <1>1, <1>2, <1>3, StateRun
<1>5. (engines[c].lifted => b) /\ (c \in proved \/ b)
  OBVIOUS
<1>5a. y = [z EXCEPT !.e = f]
  <2>1. y = [z EXCEPT !.e.lifted = @ \/ c \notin proved]
    OBVIOUS
  <2>2. z.e.lifted \/ c \notin proved <=> b
    BY <1>4
  <2> HIDE DEF z, y
  <2> QED
    BY <2>1, <2>2, <1>4
<1> HIDE DEF b, z
<1>6. /\ f \in Engines /\ f.st = "ready" /\ f.ws = "open"
      /\ f.sess = engines[c].sess /\ f.pending = engines[c].pending
      /\ f.lifted = b /\ f.stranded = engines[c].stranded
  BY <1>3, <1>4 DEF Engines, Runs
<1> HIDE DEF f, y
<1>7. y \in Runs /\ y.e = f /\ y.m = x.m
  BY <1>4, <1>5a, <1>6 DEF Runs
<1>8. Carries(x, y)
  BY <1>1, <1>2, <1>5, <1>6, <1>7, CarriesKept DEF Fixed
<1>9. c \in proved => y.e.sess # None
  BY <1>2, <1>6, <1>7 DEF Sound
<1>10. Lifted(f) <=> b
  BY <1>3, <1>6 DEF Lifted
<1>11. /\ (\E v \in Events : f.pending[v] > 0) => f.sess # None
       /\ f.sess # None => f.sess \in x.m.known
  BY <1>1, <1>2, <1>6 DEF Sound, Rooted
<1>12. Sound(y.e, y.m, c \in proved)
  BY <1>5, <1>6, <1>7, <1>9, <1>10, <1>11, SoundBeyond
<1>13. received \in [Conns -> 0..MaxMessages]
  BY DEF IInv, Histories
<1> QED
  BY <1>1, <1>8, <1>12, <1>13, RunKept DEF x

LEMMA TimeoutKept ==
  ASSUME IInv, NEW c \in Conns, NEW waits \in BOOLEAN, Timeout(c, waits)
  PROVE  IInv'
<1> DEFINE a == At(c)
           x == [a EXCEPT !.e.timers = @ - 1]
           z == [x EXCEPT !.e.alarm = FALSE]
           ph == c \in Phones
           y == IF x.e.alarm THEN ConnectionClosed(z, ph, waits) ELSE x
<1>1. /\ engines[c].timers > 0 /\ Takes(c, y)
      /\ UNCHANGED <<owner, received, proved>>
  BY DEF Timeout
<1>2. /\ a \in Runs /\ a.e = engines[c] /\ a.m = sm /\ ~a.raised /\ Fit(sm)
      /\ Sound(engines[c], sm, c \in proved) /\ engines[c] \in Engines
  BY AtRun
<1>3. engines[c].ws # "new"
  BY <1>1, Opened
<1>4. engines[c].st = "connected" =>
        engines[c].sess = None /\ engines[c].timers = 1
  BY <1>1, <1>2 DEF Sound, Rooted, Lifted
<1> HIDE DEF a
<1>5. /\ x \in Runs /\ x.m = sm /\ ~x.raised
      /\ x.e.ws = engines[c].ws /\ x.e.st = engines[c].st
      /\ x.e.sess = engines[c].sess /\ x.e.pending = engines[c].pending
      /\ x.e.lifted = engines[c].lifted
      /\ x.e.stranded = engines[c].stranded
      /\ x.e.timers = engines[c].timers - 1
  <2> DEFINE k == engines[c].timers - 1
             f == [engines[c] EXCEPT !.timers = k]
  <2>1. k \in Nat
    BY <1>1, <1>2 DEF Engines
  <2>2. x = [a EXCEPT !.e = f]
    BY <1>2 DEF Runs
  <2> HIDE DEF k
  <2>3. /\ f \in Engines /\ f.ws = engines[c].ws /\ f.st = engines[c].st
        /\ f.sess = engines[c].sess /\ f.pending = engines[c].pending
        /\ f.lifted = engines[c].lifted
        /\ f.stranded = engines[c].stranded /\ f.timers = k
    BY <1>2, <2>1 DEF Engines
  <2> HIDE DEF f, x
  <2>4. x \in Runs /\ x.e = f /\ x.m = sm /\ ~x.raised
    BY <1>2, <2>2, <2>3 DEF Runs
  <2> QED
    BY <2>3, <2>4 DEF k
<1> HIDE DEF x
<1>6. /\ z \in Runs /\ z.m = x.m /\ ~z.raised
      /\ z.e.ws = x.e.ws /\ z.e.st = x.e.st /\ z.e.sess = x.e.sess
      /\ z.e.pending = x.e.pending /\ z.e.lifted = x.e.lifted
      /\ z.e.stranded = x.e.stranded
      /\ z.e.timers = x.e.timers
  <2> DEFINE f == [x.e EXCEPT !.alarm = FALSE]
  <2>1. x.e \in Engines
    BY <1>5 DEF Runs
  <2>2. z = [x EXCEPT !.e = f]
    BY <1>5 DEF Runs
  <2>3. /\ f \in Engines /\ f.ws = x.e.ws /\ f.st = x.e.st
        /\ f.sess = x.e.sess /\ f.pending = x.e.pending
        /\ f.lifted = x.e.lifted /\ f.stranded = x.e.stranded
        /\ f.timers = x.e.timers
    BY <2>1 DEF Engines
  <2> HIDE DEF f, z
  <2>4. z \in Runs /\ z.e = f /\ z.m = x.m /\ z.raised = x.raised
    BY <1>5, <2>2, <2>3 DEF Runs
  <2> QED
    BY <1>5, <2>3, <2>4
<1> HIDE DEF z
<1>7. x.e \in Engines /\ z.e \in Engines /\ engines[c].timers \in Nat
  BY <1>2, <1>5, <1>6 DEF Runs, Engines
<1>8. Sound(x.e, sm, c \in proved)
  BY <1>1, <1>2, <1>3, <1>4, <1>5, <1>7 DEF Sound, Rooted, Lifted
<1>9. Rooted(z.e, z.m)
  BY <1>5, <1>6, <1>7, <1>8 DEF Sound, Rooted, Lifted
<1>10. Carries(a, x)
  BY <1>2, <1>5, CarriesKept DEF Fixed
<1>11. Carries(a, y) /\ Sound(y.e, y.m, c \in proved)
  <2>1. CASE x.e.alarm
    <3> HIDE DEF ph
    <3>0. /\ y = ConnectionClosed(z, ph, waits) /\ ph \in BOOLEAN
      BY <2>1 DEF ph
    <3>1. /\ Carries(z, y) /\ Rooted(y.e, y.m) /\ y.e.lifted = z.e.lifted
          /\ y.e.ws = "open" => y.e.stranded /\ z.e.ws = "open"
                                /\ y.e.st = z.e.st
      BY <3>0, <1>2, <1>3, <1>4, <1>5, <1>6, <1>9, <2>1, ConnectionClosedCarries
    <3> HIDE DEF y
    <3>2. Carries(a, z)
      BY <1>2, <1>5, <1>6, CarriesKept DEF Fixed
    <3>3. y.e.ws # "new"
      BY <1>3, <1>5, <1>6, <3>1 DEF Carries, Fixed
    <3>4. Sound(y.e, y.m, c \in proved)
      <4>1. c \in proved => y.e.sess # None
        BY <1>2, <1>5, <1>6, <3>1 DEF Carries, Fixed, Sound
      <4>2. y.e.ws = "open" /\ y.e.st \in Served =>
              c \in proved \/ Lifted(y.e)
        BY <1>2, <1>5, <1>6, <3>1 DEF Sound, Lifted
      <4> QED
        BY <3>1, <3>3, <4>1, <4>2 DEF Sound
    <3> QED
      BY <3>1, <3>2, <3>4, CarriesCompose
  <2>2. CASE ~x.e.alarm
    BY <1>5, <1>8, <1>10, <2>2
  <2> QED
    BY <2>1, <2>2
<1> HIDE DEF y
<1>12. received \in [Conns -> 0..MaxMessages]
  BY DEF IInv, Histories
<1> QED
  BY <1>1, <1>11, <1>12, RunKept DEF a

\* The session of a handshake is new, and waits.
LEMMA CreatedFit ==
  ASSUME NEW m, Fit(m), NEW s \in Tokens \ {0}, s \notin m.made
  PROVE  LET n == SM!Created(m, s) IN
         /\ Fit(n) /\ SMP!Leaves(m, n, {}, {s}) /\ SMP!Waits(n, s)
         /\ s \in n.known /\ n.calls = m.calls \cup {s}
<1> DEFINE n == SMP!Created(m, s)
<1>1. /\ SMP!Good(m) /\ ~SMP!Waits(m, 0) /\ (~m.checking => m.batch = <<>>)
      /\ m \in SMP!Managers /\ 0 \in Tokens
  BY EngineConstants DEF Fit, SMP!Good, Tokens
<1>2. ~SMP!Queued(m.queue, s)
  BY <1>1 DEF SMP!Good, SMP!Alive, SMP!Queued
<1>3. SMP!Good(n)
  BY <1>1, <1>2, SMP!CreatedGood
<1>4. /\ SMP!Leaves(m, n, {}, {s}) /\ SMP!Waits(n, s)
      /\ n.known = m.known \cup {s} /\ n.calls = m.calls \cup {s}
  BY <1>1, SMP!CreatedLeaves
<1> HIDE DEF n
<1>5. Fit(n)
  BY <1>1, <1>3, <1>4 DEF SMP!Leaves, Fit
<1> QED
  BY <1>4, <1>5, SameMethods DEF n

\* What follows the creation of a session in the first state.
LEMMA HandshakeKept ==
  ASSUME IInv, NEW c \in Conns, Received(c, FALSE),
         engines[c].st = "connected", NEW s \in Tokens \ {0}, s \notin sm.made,
         NEW y, Carries(Session(Message(c, FALSE), s), y), Takes(c, y),
         Sound(y.e, y.m, c \in proved),
         owner' = [owner EXCEPT ![s] = c], UNCHANGED proved
  PROVE  IInv'
<1> DEFINE x == Message(c, FALSE)
           n == SM!Created(sm, s)
           z == Session(x, s)
<1>1. /\ Carries(At(c), x) /\ x \in Runs /\ x.m = sm /\ Fit(sm)
      /\ x.e.ws = engines[c].ws /\ x.e.ws \in {"open", "closing"}
      /\ received' \in [Conns -> 0..MaxMessages]
  BY MessageCarries
<1>2. /\ Fit(n) /\ SMP!Leaves(sm, n, {}, {s}) /\ SMP!Waits(n, s)
      /\ s \in n.known /\ n.calls = sm.calls \cup {s}
  BY <1>1, CreatedFit
<1>3. z = [e |-> [x.e EXCEPT !.sess = s], m |-> n, raised |-> x.raised]
  BY <1>1, SessionRun
<1> HIDE DEF x, n
<1>4. z.m = n /\ z.e.sess = s /\ s # None /\ s # 0
  <2>1. x.e \in Engines
    BY <1>1 DEF Runs
  <2> QED
    BY <1>3, <2>1, EngineConstants DEF Engines, Tokens
<1> HIDE DEF z
<1>5. /\ y \in Runs /\ Fit(y.m) /\ Moves(n, y.m, y.e) /\ y.e.sess = s
  BY <1>4 DEF Carries, Fixed, z, x
<1>6. owner \in [Tokens -> Conns \cup {None}]
  BY DEF IInv, Histories
<1>7. /\ owner' \in [Tokens -> Conns \cup {None}] /\ owner'[s] = c
      /\ \A t \in Tokens : owner'[t] = owner[t] \/ t = s
  BY <1>6
<1>8. \A t \in Tokens \ {0} : t \in y.m.calls <=> t \in sm.calls \/ t = s
  BY <1>2, <1>5 DEF Moves
<1>9. \A t \in Tokens \ {0} :
        Holds(sm, t) => \/ Holds(y.m, t)
                        \/ Gone(y.e, t) /\ (y.e.ws # "open" \/ y.e.stranded)
  BY <1>2, <1>5, <1>8 DEF Holds, Moves, SMP!Leaves, Over, Gone
<1>10. y.e.ws = "open" /\ ~y.e.stranded => Holds(y.m, s)
  BY <1>2, <1>5, <1>8 DEF Holds, Moves, Over
<1>11. \A t \in Tokens \ {0} : ~Gone(engines[c], t)
  BY <1>1 DEF Gone
<1>12. sm.known \subseteq y.m.known /\ (sm.lapsed => y.m.lapsed)
  BY <1>2, <1>5 DEF Moves, SMP!Leaves
<1>13. \A t \in Tokens \ {0} : t \in y.m.calls => t \in sm.calls \/ owner'[t] = c
  BY <1>7, <1>8
<1> QED
  BY <1>1, <1>4, <1>5, <1>7, <1>9, <1>10, <1>11, <1>12, <1>13, StepKept

\* The engine that has created a session is sound, still in its first state.
LEMMA SessionSound ==
  ASSUME IInv, NEW c \in Conns, Received(c, FALSE),
         engines[c].st = "connected", NEW s \in Tokens \ {0}, s \notin sm.made
  PROVE  LET z == Session(Message(c, FALSE), s) IN
         /\ z \in Runs /\ Fit(z.m) /\ ~z.raised /\ Sound(z.e, z.m, c \in proved)
         /\ z.e.ws \in {"open", "closing"} /\ z.e.sess = s /\ s # None
         /\ z.e.st = "connected" /\ z.e.timers = 0
<1> DEFINE x == Message(c, FALSE)
           n == SM!Created(sm, s)
           f == [x.e EXCEPT !.sess = s]
           z == Session(x, s)
<1>1. /\ x \in Runs /\ x.m = sm /\ Fit(sm) /\ ~x.raised
      /\ Sound(x.e, sm, c \in proved)
      /\ x.e.st = "connected" /\ x.e.timers = 0
      /\ x.e.ws \in {"open", "closing"}
  BY MessageCarries DEF Carries
<1>2. Fit(n) /\ s \in n.known
  BY <1>1, CreatedFit
<1>3. z = [e |-> f, m |-> n, raised |-> x.raised]
  BY <1>1, SessionRun
<1> HIDE DEF x, n, z
<1>4. x.e \in Engines /\ x.raised \in BOOLEAN /\ s # None
  BY <1>1, EngineConstants DEF Runs, Tokens
<1>5. /\ f \in Engines /\ f.sess = s /\ f.ws = x.e.ws /\ f.st = x.e.st
      /\ f.lifted = x.e.lifted /\ f.stranded = x.e.stranded
      /\ f.timers = x.e.timers
  BY <1>4 DEF Engines
<1> HIDE DEF f
<1>6. z \in Runs /\ z.e = f /\ z.m = n /\ ~z.raised
  BY <1>1, <1>2, <1>3, <1>4, <1>5, RunOf
<1>7. Sound(f, n, c \in proved)
  BY <1>1, <1>2, <1>4, <1>5 DEF Sound, Rooted, Lifted
<1> QED
  BY <1>1, <1>2, <1>4, <1>5, <1>6, <1>7 DEF z, x

LEMMA HelloKept ==
  ASSUME IInv, NEW c \in Conns, Hello(c)
  PROVE  IInv'
<1> DEFINE s == CHOOSE s \in 1..MaxSessions : s \notin sm.made
           z == Session(Message(c, FALSE), s)
           y == [z EXCEPT !.e.pending["clientHello"] = @ + 1]
<1>1. /\ Received(c, FALSE) /\ engines[c].st = "connected"
      /\ ~(1..MaxSessions \subseteq sm.made) /\ Takes(c, y)
      /\ owner' = [owner EXCEPT ![s] = c] /\ UNCHANGED proved
      /\ "clientHello" \in Events
  BY DEF Hello, Events
<1>2. s \in 1..MaxSessions /\ s \notin sm.made
  BY <1>1
<1> HIDE DEF s
<1>3. s \in Tokens \ {0} /\ s \notin sm.made
  BY <1>2, EngineConstants DEF Tokens
<1>4. /\ z \in Runs /\ Fit(z.m) /\ Sound(z.e, z.m, c \in proved)
      /\ z.e.ws \in {"open", "closing"} /\ z.e.sess = s /\ s # None
      /\ z.e.st = "connected" /\ z.e.timers = 0
  BY <1>1, <1>3, SessionSound
<1> HIDE DEF z
<1>5. /\ y \in Runs /\ y.m = z.m
      /\ y.e.ws = z.e.ws /\ y.e.st = z.e.st /\ y.e.sess = z.e.sess
      /\ y.e.lifted = z.e.lifted /\ y.e.stranded = z.e.stranded
      /\ y.e.timers = z.e.timers
  BY <1>1, <1>4, PendingRun
<1> HIDE DEF y
<1>6. y.e \in Engines
  BY <1>5 DEF Runs
<1>7. Sound(y.e, y.m, c \in proved)
  BY <1>4, <1>5, <1>6 DEF Sound, Rooted, Lifted
<1>8. Carries(z, y)
  BY <1>4, <1>5, CarriesKept DEF Fixed
<1> QED
  BY <1>1, <1>3, <1>7, <1>8, HandshakeKept DEF z

LEMMA RegisterKept ==
  ASSUME IInv, NEW c \in Conns, NEW dst, Register(c, dst)
  PROVE  IInv'
<1> DEFINE s == CHOOSE s \in 1..MaxSessions : s \notin sm.made
           z == Session(Message(c, FALSE), s)
           y == Finished(Moved(z, c, dst, FALSE))
<1>1. /\ Received(c, FALSE) /\ engines[c].st = "connected"
      /\ ~(1..MaxSessions \subseteq sm.made) /\ Takes(c, y)
      /\ dst \in {"registration", "disconnected"}
      /\ owner' = [owner EXCEPT ![s] = c] /\ UNCHANGED proved
  BY DEF Register
<1>2. s \in 1..MaxSessions /\ s \notin sm.made
  BY <1>1
<1> HIDE DEF s
<1>3. s \in Tokens \ {0} /\ s \notin sm.made
  BY <1>2, EngineConstants DEF Tokens
<1>4. /\ z \in Runs /\ Fit(z.m) /\ ~z.raised /\ Sound(z.e, z.m, c \in proved)
      /\ z.e.ws \in {"open", "closing"} /\ z.e.sess = s /\ s # None
  BY <1>1, <1>3, SessionSound
<1> HIDE DEF z
<1>5. dst \in States \ {"connected"} /\ dst \notin Served
  BY <1>1 DEF States, Served, Probing
<1>6. Carries(z, y) /\ Sound(y.e, y.m, c \in proved)
  BY <1>4, <1>5, MovedFinishedCarries
<1> HIDE DEF y
<1> QED
  BY <1>1, <1>3, <1>6, HandshakeKept DEF z

LEMMA RestoreStateKept ==
  ASSUME IInv, NEW c \in Conns, NEW s \in Tokens, NEW waits \in BOOLEAN,
         RestoreState(c, s, waits)
  PROVE  IInv'
<1> DEFINE x == Message(c, FALSE)
           n == SM!Restored(sm, s)
<1>1. /\ Received(c, FALSE) /\ engines[c].sess = None /\ s # 0
      /\ UNCHANGED <<owner, proved>>
      /\ LET b == Bye(x, c, waits) IN
         \/ Takes(c, IF SM!Restorable(sm, s)
                     THEN Raise([x EXCEPT !.e.sess = s, !.m = SM!Restored(@, s)])
                     ELSE b)
         \/ ~SM!Restorable(sm, s) /\ Takes(c, [b EXCEPT !.e.flow = TRUE])
  BY DEF RestoreState
<1>2. /\ Carries(At(c), x) /\ x \in Runs /\ Fit(x.m) /\ ~x.raised
      /\ Sound(x.e, x.m, c \in proved)
      /\ x.e.ws = engines[c].ws /\ x.e.ws \in {"open", "closing"}
      /\ x.e.st = engines[c].st /\ x.e.sess = None
      /\ x.e.pending = engines[c].pending /\ x.e.lifted = engines[c].lifted
      /\ x.e.stranded = engines[c].stranded
      /\ x.e.st = "connected" => x.e.timers = 0
      /\ x.m = sm /\ received' \in [Conns -> 0..MaxMessages]
  BY <1>1, MessageCarries
<1> HIDE DEF x
<1>3. CASE ~SM!Restorable(sm, s)
  <2> DEFINE y == Bye(x, c, waits)
             z == [y EXCEPT !.e.flow = TRUE]
  <2>1. Takes(c, y) \/ Takes(c, z)
    BY <1>1, <1>3
  <2>2. Carries(x, y) /\ Sound(y.e, y.m, c \in proved)
    BY <1>2, ByeCarries
  <2> HIDE DEF y
  <2>3. Carries(At(c), y)
    BY <1>2, <2>2, CarriesCompose
  <2>4. y \in Runs /\ Fit(y.m) /\ y.e.ws # "new"
    BY <1>2, <2>2 DEF Carries, Fixed
  <2>5. Carries(y, z) /\ Sound(z.e, z.m, c \in proved)
    BY <2>2, <2>4, FlowCarries
  <2> HIDE DEF z
  <2>6. Carries(At(c), z)
    BY <2>3, <2>5, CarriesCompose
  <2>7. CASE Takes(c, y)
    BY <1>1, <1>2, <2>2, <2>3, <2>7, RunKept
  <2>8. CASE Takes(c, z)
    BY <1>1, <1>2, <2>5, <2>6, <2>8, RunKept
  <2> QED
    BY <2>1, <2>7, <2>8
<1>4. CASE SM!Restorable(sm, s)
  <2> DEFINE z == [x EXCEPT !.e.sess = s, !.m = SM!Restored(@, s)]
             f == [x.e EXCEPT !.sess = s]
             y == Raise(z)
  <2>1. Takes(c, y)
    BY <1>1, <1>4
  <2>2. SMP!Good(sm) /\ sm \in SMP!Managers /\ ~SMP!Waits(sm, 0) /\ 0 \in Tokens
        /\ (~sm.checking => sm.batch = <<>>)
    BY <1>2, EngineConstants DEF Fit, SMP!Good, Tokens
  <2>3. /\ SMP!Leaves(sm, n, {}, {s}) /\ s \in n.known
        /\ sm.calls \cap sm.known \subseteq n.calls /\ n.calls \subseteq sm.calls
        /\ SMP!Good(n)
    <3> DEFINE k == SMP!Restored(sm, s)
    <3>1. /\ SMP!Leaves(sm, k, {}, {s})
          /\ SMP!Restorable(sm, s) => s \in k.known
          /\ sm.calls \cap sm.known \subseteq k.calls /\ k.calls \subseteq sm.calls
      BY <2>2, SMP!RestoredLeaves
    <3>2. SMP!Good(k)
      BY <2>2, SMP!RestoredGood
    <3> HIDE DEF k
    <3>3. n = k /\ SMP!Restorable(sm, s)
      BY <1>4, SameMethods DEF k
    <3> QED
      BY <3>1, <3>2, <3>3
  <2> HIDE DEF n
  <2>4. Fit(n)
    BY <1>1, <2>2, <2>3 DEF SMP!Leaves, Fit
  <2>5. z = [e |-> f, m |-> n, raised |-> x.raised]
    <3> DEFINE w == [x EXCEPT !.e.sess = s]
    <3>1. w = [e |-> f, m |-> sm, raised |-> x.raised]
      BY <1>2 DEF Runs
    <3>2. z = [w EXCEPT !.m = SM!Restored(@, s)]
      OBVIOUS
    <3> HIDE DEF w, z, f
    <3> QED
      BY <3>1, <3>2 DEF n
  <2> HIDE DEF z
  <2>6. x.e \in Engines /\ x.raised \in BOOLEAN /\ s # None
    BY <1>2, EngineConstants DEF Runs, Tokens
  <2>7. /\ f \in Engines /\ f.sess = s /\ f.ws = x.e.ws /\ f.st = x.e.st
        /\ f.timers = x.e.timers /\ f.pending = x.e.pending
        /\ f.lifted = x.e.lifted /\ f.stranded = x.e.stranded
    BY <2>6 DEF Engines
  <2> HIDE DEF f
  <2>8. z \in Runs
    BY <2>4, <2>5, <2>6, <2>7, RunOf
  <2>9. y \in Runs /\ y.e = f /\ y.m = n
    BY <2>5, <2>8, RaiseRun
  <2> HIDE DEF y
  <2>10. Sound(f, n, c \in proved)
    BY <1>2, <2>3, <2>6, <2>7 DEF Sound, Rooted, Lifted
  <2>11. owner \in [Tokens -> Conns \cup {None}]
    BY DEF IInv, Histories
  <2>12. \A t \in Tokens \ {0} : owner[t] # c
    BY <1>1 DEF IInv, Owners
  <2>13. \A t \in Tokens \ {0} : ~Gone(engines[c], t)
    BY <1>1, EngineConstants DEF Gone, Tokens
  <2>14. \A t \in Tokens \ {0} :
           t \in sm.known /\ Holds(sm, t) => Holds(y.m, t)
    BY <2>3, <2>9 DEF Holds, SMP!Leaves
  <2>15. /\ sm.known \subseteq y.m.known /\ (sm.lapsed => y.m.lapsed)
         /\ y.e.sess = s
         /\ \A t \in Tokens \ {0} : t \in y.m.calls => t \in sm.calls
    BY <2>3, <2>7, <2>9 DEF SMP!Leaves
  <2> QED
    BY <1>1, <1>2, <2>1, <2>4, <2>9, <2>10, <2>11, <2>12, <2>13, <2>14, <2>15,
       StepKept
<1> QED
  BY <1>3, <1>4

LEMMA OpenKept ==
  ASSUME IInv, NEW c \in Conns, Open(c)
  PROVE  IInv'
<1> DEFINE x == [At(c) EXCEPT !.e.ws = "open"]
           y == Started(x)
<1>1. /\ engines[c].ws = "new" /\ Takes(c, y)
      /\ UNCHANGED <<owner, received, proved>>
  BY DEF Open
<1>2. /\ At(c) \in Runs /\ At(c).e = engines[c] /\ At(c).m = sm
      /\ ~At(c).raised /\ Fit(sm) /\ engines[c] \in Engines
      /\ engines[c] = NewEngine
  BY <1>1, AtRun DEF Sound
<1>3. /\ x \in Runs /\ x.m = sm /\ x.e.ws = "open" /\ x.e.st = "connected"
      /\ x.e.sess = None /\ x.e.pending = NewEngine.pending
      /\ x.e.timers = 0 /\ ~x.e.stranded
  <2> DEFINE f == [NewEngine EXCEPT !.ws = "open"]
  <2>1. f \in Engines
    BY <1>2 DEF Engines
  <2>2. x = [At(c) EXCEPT !.e = f]
    BY <1>2 DEF Runs
  <2>3. /\ f.ws = "open" /\ f.st = "connected" /\ f.sess = None
        /\ f.pending = NewEngine.pending /\ f.timers = 0 /\ ~f.stranded
    BY DEF NewEngine
  <2> HIDE DEF f, x
  <2>4. x \in Runs /\ x.e = f /\ x.m = sm
    BY <1>2, <2>1, <2>2 DEF Runs
  <2> QED
    BY <2>3, <2>4
<1> HIDE DEF x
<1>4. y \in Runs /\ y.m = sm /\ Sames(x.e, y.e) /\ y.e.timers = 1
  BY <1>3, StartedRun
<1> HIDE DEF y
<1>5. /\ y.e.ws = "open" /\ y.e.st = "connected" /\ y.e.sess = None
      /\ ~y.e.stranded /\ y.e \in Engines /\ y.e.pending = NewEngine.pending
  BY <1>3, <1>4 DEF Sames, Runs
<1>6. \A v \in Events : y.e.pending[v] = 0
  BY <1>5 DEF NewEngine
<1>7. Sound(y.e, y.m, c \in proved)
  <2>1. "connected" \notin Served /\ c \notin proved
    <3>1. engines[c].sess = None /\ Sound(engines[c], sm, c \in proved)
      BY <1>2 DEF NewEngine, IInv
    <3> QED
      BY <3>1 DEF Sound, Served, Probing
  <2> QED
    BY <1>4, <1>5, <1>6, <2>1 DEF Sound, Rooted
<1>8. engines[c].sess = None
  BY <1>2 DEF NewEngine
<1>9. /\ owner \in [Tokens -> Conns \cup {None}]
      /\ received \in [Conns -> 0..MaxMessages]
  BY DEF IInv, Histories
<1>10. \A t \in Tokens \ {0} : owner[t] # c
  BY <1>8 DEF IInv, Owners
<1>11. \A t \in Tokens \ {0} : ~Gone(engines[c], t)
  BY <1>8, EngineConstants DEF Gone, Tokens
<1> QED
  BY <1>1, <1>2, <1>4, <1>5, <1>7, <1>9, <1>10, <1>11, StepKept

LEMMA ClientClosedKept ==
  ASSUME IInv, NEW c \in Conns, NEW waits \in BOOLEAN, ClientClosed(c, waits)
  PROVE  IInv'
<1> DEFINE x == Stopped(At(c))
           s == x.e.sess
           n == IF s = None THEN sm ELSE SM!Parted(sm, s)
           y == IF s = None THEN x ELSE [x EXCEPT !.m = SM!Parted(@, s)]
           a == [y EXCEPT !.e.ws = "closed"]
           b == Stopped(a)
           ph == c \in Phones
           z == FlowOver(b, ph, waits)
<1>1. /\ engines[c].ws \in {"open", "closing"} /\ Takes(c, z)
      /\ UNCHANGED <<owner, received, proved>>
  BY DEF ClientClosed, ClosedByClient
<1>2. /\ At(c) \in Runs /\ At(c).e = engines[c] /\ At(c).m = sm
      /\ ~At(c).raised /\ Fit(sm) /\ engines[c] \in Engines
      /\ Sound(engines[c], sm, c \in proved)
  BY AtRun
<1>3. /\ x \in Runs /\ x.m = sm /\ Sames(engines[c], x.e)
      /\ x.e.timers <= engines[c].timers
      /\ engines[c].timers \in {0, 1} => x.e.timers = 0
  BY <1>2, StoppedRun
<1> HIDE DEF x
<1>4. /\ x.e \in Engines /\ s = engines[c].sess /\ x.e.st = engines[c].st
      /\ x.e.pending = engines[c].pending
      /\ x.e.lifted = engines[c].lifted
      /\ x.e.stranded = engines[c].stranded
      /\ s # None => s \in sm.known /\ s \in Tokens
  BY <1>1, <1>2, <1>3 DEF Runs, Sames, Sound, Rooted, Engines
<1> HIDE DEF s
<1>5. /\ Fit(n) /\ SMP!Leaves(sm, n, {}, {}) /\ n.known = sm.known
      /\ n.calls = sm.calls \ {s} \/ (s = None /\ n.calls = sm.calls)
  <2>1. CASE s = None
    <3>1. SMP!Leaves(sm, sm, {}, {})
      BY DEF SMP!Leaves
    <3> QED
      BY <1>2, <2>1, <3>1
  <2>2. CASE s # None
    <3> DEFINE k == SMP!Parted(sm, s)
    <3>1. /\ SMP!Good(sm) /\ sm \in SMP!Managers /\ ~SMP!Waits(sm, 0)
          /\ 0 \in Tokens /\ (~sm.checking => sm.batch = <<>>)
      BY <1>2, EngineConstants DEF Fit, SMP!Good, Tokens
    <3>2. SMP!Good(k)
      BY <1>4, <2>2, <3>1, SMP!PartedGood
    <3>3. SMP!Leaves(sm, k, {}, {}) /\ k.known = sm.known /\ k.calls = sm.calls \ {s}
      BY <3>1, SMP!PartedLeaves
    <3> HIDE DEF k
    <3>4. Fit(k)
      BY <3>1, <3>2, <3>3 DEF SMP!Leaves, Fit
    <3>5. n = k
      BY <2>2, SameMethods DEF k
    <3> QED
      BY <3>3, <3>4, <3>5
  <2> QED
    BY <2>1, <2>2
<1>6. y = [e |-> x.e, m |-> n, raised |-> x.raised]
  BY <1>3 DEF Runs
<1> HIDE DEF n, y
<1>7. y \in Runs /\ y.e = x.e /\ y.m = n
  <2>1. x.raised \in BOOLEAN
    BY <1>3 DEF Runs
  <2> QED
    BY <1>4, <1>5, <1>6, <2>1, RunOf
<1>8. /\ a \in Runs /\ a.m = n /\ a.e.ws = "closed" /\ a.e.st = x.e.st
      /\ a.e.sess = x.e.sess /\ a.e.pending = x.e.pending
      /\ a.e.timers = x.e.timers /\ a.e.lifted = x.e.lifted
      /\ a.e.stranded = x.e.stranded
  BY <1>7, ClosingRun
<1> HIDE DEF a
<1>9. /\ b \in Runs /\ b.m = n /\ Sames(a.e, b.e) /\ b.e.timers <= a.e.timers
  BY <1>8, StoppedRun
<1> HIDE DEF b
<1>10. b.e.ws # "open"
  BY <1>8, <1>9 DEF Sames
<1>10a. ph \in BOOLEAN
  OBVIOUS
<1> HIDE DEF ph
<1>11. z \in Runs /\ z.m = n /\ z.e = b.e
  BY <1>9, <1>10, <1>10a, FlowOverRun
<1> HIDE DEF z
<1>12. /\ z.e.ws = "closed" /\ z.e.st = engines[c].st
       /\ z.e.sess = s /\ s = engines[c].sess
       /\ z.e.pending = engines[c].pending
       /\ z.e.lifted = engines[c].lifted /\ z.e.timers <= x.e.timers
       /\ z.e.stranded = engines[c].stranded
  BY <1>4, <1>8, <1>9, <1>11 DEF Sames, s
<1>13. /\ z.e \in Engines /\ z.e.timers \in Nat /\ x.e.timers \in Nat
       /\ engines[c].timers \in Nat
  BY <1>2, <1>4, <1>11 DEF Runs, Engines
<1>14. engines[c].st = "connected" => z.e.timers = 0
  BY <1>2, <1>3, <1>12, <1>13 DEF Sound, Rooted, Lifted
<1>15. Sound(z.e, z.m, c \in proved)
  BY <1>2, <1>12, <1>13, <1>14 DEF Sound, Rooted, Lifted
<1>16. \A t \in Tokens \ {0} : Holds(sm, t) => Holds(z.m, t) \/ Gone(z.e, t)
  BY <1>5, <1>11, <1>12 DEF Holds, Gone, SMP!Leaves
<1>17. \A t \in Tokens \ {0} : Gone(engines[c], t) => Gone(z.e, t)
  BY <1>12 DEF Gone
<1>18. /\ owner \in [Tokens -> Conns \cup {None}]
       /\ received \in [Conns -> 0..MaxMessages]
  BY DEF IInv, Histories
<1>19. \A t \in Tokens \ {0} : owner[t] = c => z.e.sess # None
  BY <1>12 DEF IInv, Owners
<1>20. /\ sm.known \subseteq z.m.known /\ (sm.lapsed => z.m.lapsed)
       /\ z.m.calls \subseteq sm.calls
  BY <1>5, <1>11 DEF SMP!Leaves
<1> QED
  BY <1>1, <1>5, <1>11, <1>12, <1>15, <1>16, <1>17, <1>18, <1>19, <1>20, StepKept

\* The check takes sessions out of the queue; they still wait, in the batch.
LEMMA StartCheckKept ==
  ASSUME IInv, NEW k \in 0..Len(sm.queue), StartCheck(k)
  PROVE  IInv'
<1> DEFINE n == SMP!CheckStarted(sm, k)
<1>1. /\ ~sm.checking /\ sm.timers > 0 /\ sm' = n
      /\ UNCHANGED <<engines, owner, received, proved>>
  BY SameCheck DEF StartCheck, Idle
<1>2. /\ SMP!Good(sm) /\ sm \in SMP!Managers /\ ~SMP!Waits(sm, 0)
      /\ sm.batch = <<>>
  BY <1>1 DEF IInv, Fit, SMP!Good
<1>3. SMP!Good(n)
  BY <1>1, <1>2, SMP!CheckStartedGood
<1>4. /\ \A s : SMP!Queued(sm.queue, s) => SMP!Waits(n, s)
      /\ \A s : SMP!Waits(n, s) => SMP!Queued(sm.queue, s)
      /\ n.known = sm.known /\ n.made = sm.made /\ n.calls = sm.calls
      /\ n.lapsed = sm.lapsed /\ n.checking
  BY <1>2, SMP!CheckStartedWaits
<1> HIDE DEF n
<1>5. \A s : ~SMP!Queued(sm.batch, s)
  BY <1>2 DEF SMP!Queued
<1>6. Fit(n)
  BY <1>2, <1>3, <1>4 DEF Fit, SMP!Waits
<1>7. \A s \in Tokens \ {0} : Holds(sm, s) => Holds(n, s)
  BY <1>4, <1>5 DEF Holds, SMP!Waits
<1> QED
  BY <1>1, <1>4, <1>6, <1>7, ManagerKept

LEMMA EndCheckKept ==
  ASSUME IInv, EndCheck
  PROVE  IInv'
<1> DEFINE n == SMP!CheckEnded(sm)
<1>1. /\ sm.batch = <<>> /\ sm' = n
      /\ UNCHANGED <<engines, owner, received, proved>>
  BY SameCheck DEF EndCheck
<1>2. SMP!Good(sm) /\ sm \in SMP!Managers /\ ~SMP!Waits(sm, 0)
  BY DEF IInv, Fit, SMP!Good
<1>3. SMP!Good(n)
  BY <1>2, SMP!CheckEndedGood
<1>4. /\ n.queue = sm.queue /\ n.batch = sm.batch /\ n.known = sm.known
      /\ n.calls = sm.calls /\ n.lapsed = sm.lapsed
  BY <1>2 DEF SMP!CheckEnded, SMP!TimerRun, SMP!Managers
<1> HIDE DEF n
<1>5. Fit(n)
  BY <1>1, <1>2, <1>3, <1>4 DEF Fit, SMP!Waits
<1>6. \A s \in Tokens \ {0} : Holds(sm, s) => Holds(n, s)
  BY <1>4 DEF Holds, SMP!Waits
<1> QED
  BY <1>1, <1>4, <1>5, <1>6, ManagerKept

\* Only an object that no engine can use any more is collected, and none that
\* waits.
LEMMA CollectKept ==
  ASSUME IInv, NEW s \in Tokens \ {0}, Collect(s)
  PROVE  IInv'
<1> DEFINE k == sm.known \ {s}
           n == [sm EXCEPT !.known = k]
<1>1. /\ ~SM!Queued(sm.queue \o sm.batch, s) /\ sm' = n
      /\ \A c \in Conns : engines[c].sess = s => engines[c].ws = "closed"
      /\ UNCHANGED <<engines, owner, received, proved>>
  BY DEF Collect
<1>2. /\ SMP!Good(sm) /\ sm \in SMP!Managers /\ ~SMP!Waits(sm, 0)
      /\ (~sm.checking => sm.batch = <<>>)
  BY DEF IInv, Fit, SMP!Good
<1>3. ~SMP!Waits(sm, s)
  BY <1>1, <1>2, SMP!WaitsIsQueued, SameMethods
<1>4. k \in SUBSET Tokens
  BY <1>2 DEF SMP!Managers
<1> HIDE DEF k
<1>5. /\ n \in SMP!Managers /\ n.queue = sm.queue /\ n.batch = sm.batch
      /\ n.known = k /\ n.made = sm.made /\ n.stored = sm.stored
      /\ n.timers = sm.timers /\ n.latest = sm.latest /\ n.calls = sm.calls
      /\ n.checking = sm.checking /\ n.lapsed = sm.lapsed
  BY <1>2, <1>4 DEF SMP!Managers
<1> HIDE DEF n
<1>6. SMP!Alive(n)
  BY <1>2, <1>3, <1>5 DEF SMP!Good, SMP!Alive, SMP!Waits, SMP!Queued, k
<1>7. SMP!Good(n)
  BY <1>2, <1>5, <1>6 DEF SMP!Good, SMP!Cancellable, SMP!Looks
<1>8. Fit(n)
  BY <1>2, <1>5, <1>7 DEF Fit, SMP!Waits
<1>9. \A t \in Tokens \ {0} : Holds(sm, t) => Holds(n, t)
  BY <1>5 DEF Holds, SMP!Waits
<1>10. \A c \in Conns :
         engines[c].ws \in {"open", "closing"} /\ engines[c].sess \in sm.known
           => engines[c].sess \in n.known
  BY <1>1, <1>5 DEF k
<1> QED
  BY <1>1, <1>5, <1>8, <1>9, <1>10, ManagerKept

LEMMA ForgetKept ==
  ASSUME IInv, NEW s \in Tokens \ {0}, Forget(s)
  PROVE  IInv'
<1> DEFINE k == sm.stored \ {s}
           n == [sm EXCEPT !.stored = k]
<1>1. sm' = n /\ UNCHANGED <<engines, owner, received, proved>>
  BY DEF Forget
<1>2. /\ SMP!Good(sm) /\ sm \in SMP!Managers /\ ~SMP!Waits(sm, 0)
      /\ (~sm.checking => sm.batch = <<>>)
  BY DEF IInv, Fit, SMP!Good
<1>3. k \in SUBSET Tokens /\ k \subseteq sm.stored
  BY <1>2 DEF SMP!Managers
<1> HIDE DEF k
<1>4. /\ n \in SMP!Managers /\ n.queue = sm.queue /\ n.batch = sm.batch
      /\ n.known = sm.known /\ n.made = sm.made /\ n.stored = k
      /\ n.timers = sm.timers /\ n.latest = sm.latest /\ n.calls = sm.calls
      /\ n.checking = sm.checking /\ n.lapsed = sm.lapsed
  BY <1>2, <1>3 DEF SMP!Managers
<1> HIDE DEF n
<1>5. SMP!Good(n)
  BY <1>2, <1>3, <1>4
     DEF SMP!Good, SMP!Alive, SMP!Cancellable, SMP!Looks
<1>6. Fit(n)
  BY <1>2, <1>4, <1>5 DEF Fit, SMP!Waits
<1>7. \A t \in Tokens \ {0} : Holds(sm, t) => Holds(n, t)
  BY <1>4 DEF Holds, SMP!Waits
<1> QED
  BY <1>1, <1>4, <1>6, <1>7, ManagerKept

\* A session that expires says 'bye' by the engine that created it: that
\* connection is given up, or the exception ends the check.
LEMMA ExpireSessionKept ==
  ASSUME IInv, NEW waits \in BOOLEAN, ExpireSession(waits)
  PROVE  IInv'
<1> DEFINE s == Head(sm.batch)
           n == SMP!Expired(sm)
           c == owner[s]
           a == [At(c) EXCEPT !.m = SM!Expired(@)]
           x == Bye(a, c, waits)
           y == IF x.raised THEN [x EXCEPT !.m = SM!CheckBroken(@)] ELSE x
<1>1. /\ sm.checking /\ sm.batch # <<>>
      /\ IF s \in sm.calls THEN Takes(c, y)
                           ELSE sm' = SM!Expired(sm) /\ UNCHANGED engines
      /\ UNCHANGED <<owner, received, proved>>
  BY DEF ExpireSession
<1>2. SMP!Good(sm) /\ sm \in SMP!Managers /\ ~SMP!Waits(sm, 0)
  BY DEF IInv, Fit, SMP!Good
<1>3. SMP!Good(n)
  BY <1>1, <1>2, SMP!ExpiredGood
<1>4. /\ s \in Tokens /\ SMP!Waits(sm, s)
      /\ \A t : SMP!Waits(sm, t) => SMP!Waits(n, t) \/ t = s
      /\ \A t : SMP!Waits(n, t) => SMP!Waits(sm, t)
      /\ n.known = sm.known /\ n.made = sm.made /\ n.calls = sm.calls
      /\ n.lapsed = sm.lapsed /\ n.checking = sm.checking
  BY <1>1, <1>2, SMP!ExpiredWaits
<1>5. s \in Tokens \ {0}
  BY <1>2, <1>4
<1> HIDE DEF n, s
<1>6. Fit(n)
  BY <1>1, <1>2, <1>3, <1>4 DEF Fit
<1>7. SM!Expired(sm) = n
  BY SameCheck DEF n
<1>8. CASE s \notin sm.calls
  <2>1. sm' = n /\ UNCHANGED <<engines, owner, received, proved>>
    BY <1>1, <1>7, <1>8
  <2>2. \A t \in Tokens \ {0} : Holds(sm, t) => Holds(n, t)
    BY <1>4, <1>8 DEF Holds
  <2> QED
    BY <1>4, <1>6, <2>1, <2>2, ManagerKept
<1>9. CASE s \in sm.calls
  <2>1. c \in Conns /\ engines[c].sess # None
    BY <1>5, <1>9 DEF IInv, Owners
  <2> HIDE DEF c
  <2>2. /\ At(c) \in Runs /\ At(c).e = engines[c] /\ At(c).m = sm
        /\ ~At(c).raised /\ engines[c] \in Engines
        /\ Sound(engines[c], sm, c \in proved)
    BY <2>1, AtRun
  <2>3. engines[c].ws # "new"
    BY <2>1, Opened
  <2>4. a \in Runs /\ a.e = engines[c] /\ a.m = n /\ ~a.raised
    <3>1. a = [e |-> engines[c], m |-> n, raised |-> At(c).raised]
      BY <1>7, <2>2 DEF Runs
    <3>2. At(c).raised \in BOOLEAN
      BY <2>2 DEF Runs
    <3> QED
      BY <1>6, <2>2, <3>1, <3>2, RunOf
  <2> HIDE DEF a
  <2>5. Sound(a.e, a.m, c \in proved)
    BY <1>4, <2>2, <2>4 DEF Sound, Rooted, Lifted
  <2>6. /\ Carries(a, x) /\ Sound(x.e, x.m, c \in proved)
        /\ x.e.ws = "open" => x.raised
    BY <1>6, <2>1, <2>3, <2>4, <2>5, ByeCarries
  <2> HIDE DEF x
  <2>7. x \in Runs /\ Fit(x.m) /\ Moves(n, x.m, x.e) /\ Fixed(engines[c], x.e)
    BY <2>4, <2>6 DEF Carries
  <2>8. /\ y \in Runs /\ y.e = x.e /\ Fit(y.m)
        /\ y.m.known = x.m.known /\ y.m.calls = x.m.calls
        /\ x.raised => y.m.lapsed
        /\ ~x.raised => y = x
        /\ x.m.lapsed => y.m.lapsed
    <3>1. CASE ~x.raised
      BY <2>7, <3>1
    <3>2. CASE x.raised
      <4> DEFINE k == SMP!CheckBroken(x.m)
      <4>1. SMP!Good(x.m) /\ x.m \in SMP!Managers /\ ~SMP!Waits(x.m, 0)
        BY <2>7 DEF Fit, SMP!Good
      <4>2. SMP!Good(k)
        BY <4>1, SMP!CheckBrokenGood
      <4>3. /\ k.queue = x.m.queue /\ k.batch = <<>> /\ ~k.checking /\ k.lapsed
            /\ k.known = x.m.known /\ k.calls = x.m.calls
        BY <4>1 DEF SMP!CheckBroken, SMP!Managers
      <4>4. ~SMP!Queued(<<>>, 0)
        BY DEF SMP!Queued
      <4> HIDE DEF k
      <4>5. Fit(k)
        BY <4>1, <4>2, <4>3, <4>4 DEF Fit, SMP!Waits
      <4>6. SM!CheckBroken(x.m) = k
        BY SameCheck DEF k
      <4>7. y = [e |-> x.e, m |-> k, raised |-> x.raised]
        BY <2>7, <3>2, <4>6 DEF Runs
      <4> HIDE DEF y
      <4>8. y \in Runs /\ y.e = x.e /\ y.m = k
        <5>1. x.e \in Engines /\ x.raised \in BOOLEAN
          BY <2>7 DEF Runs
        <5> QED
          BY <4>5, <4>7, <5>1, RunOf
      <4> QED
        BY <3>2, <4>3, <4>5, <4>8
    <3> QED
      BY <3>1, <3>2
  <2> HIDE DEF y
  <2>9. Sound(y.e, y.m, c \in proved)
    BY <2>6, <2>8 DEF Sound, Rooted, Lifted
  <2>10. \A t \in Tokens \ {0} : t \in y.m.calls <=> t \in sm.calls
    BY <1>4, <2>7, <2>8 DEF Moves
  <2>11. ASSUME NEW t \in Tokens \ {0}, Holds(sm, t)
         PROVE  \/ Holds(y.m, t) \/ y.m.lapsed
                \/ /\ y.e.ws # "open" \/ y.e.stranded
                   /\ Gone(y.e, t) \/ owner[t] = c
    <3>1. CASE x.raised
      BY <2>8, <3>1
    <3>2. CASE ~x.raised /\ t = s
      BY <2>6, <2>8, <3>2 DEF c
    <3>3. CASE ~x.raised /\ t # s
      <4>1. SMP!Waits(n, t)
        BY <1>4, <2>11, <3>3 DEF Holds
      <4>2. SMP!Waits(x.m, t) \/ Over(x.e, t)
        BY <2>7, <4>1 DEF Moves
      <4> QED
        BY <2>8, <2>10, <2>11, <3>3, <4>2 DEF Holds, Over, Gone
    <3> QED
      BY <3>1, <3>2, <3>3
  <2>12. \A t \in Tokens \ {0} : Gone(engines[c], t) => Gone(y.e, t)
    BY <2>7, <2>8, EngineConstants DEF Fixed, Gone, Tokens
  <2>13. y.e.sess = engines[c].sess /\ y.e.sess # None
         /\ (y.e.ws = "open" => engines[c].ws = "open")
         /\ (engines[c].stranded => y.e.stranded)
    BY <2>1, <2>7, <2>8 DEF Fixed
  <2>14. sm.known \subseteq y.m.known /\ (sm.lapsed => y.m.lapsed)
    BY <1>4, <2>7, <2>8 DEF Moves
  <2>15. /\ owner \in [Tokens -> Conns \cup {None}]
         /\ received \in [Conns -> 0..MaxMessages]
    BY DEF IInv, Histories
  <2>16. Takes(c, y) /\ UNCHANGED <<owner, received, proved>>
    BY <1>1, <1>9
  <2> QED
    BY <2>1, <2>8, <2>9, <2>10, <2>11, <2>12, <2>13, <2>14, <2>15, <2>16, StepKept
<1> QED
  BY <1>8, <1>9

-----------------------------------------------------------------------------
(* The specification.                                                      *)

\* A process that starts has no session and no open connection.
LEMMA InitInvariant == Init => IInv
<1> SUFFICES ASSUME Init PROVE IInv
  OBVIOUS
<1>1. /\ engines = [c \in Conns |-> NewEngine]
      /\ owner = [s \in Tokens |-> None]
      /\ received = [c \in Conns |-> 0] /\ proved = {}
      /\ sm = SMP!NewManager({}, {})
  BY DEF Init, SM!NewManager, SMP!NewManager
<1>2. NewEngine \in Engines
  BY DEF NewEngine, Engines, States, Events
<1>3. Histories
  BY <1>1, <1>2, EngineConstants DEF Histories
<1>4. Fit(sm)
  <2>1. SMP!Good(SMP!NewManager({}, {}))
    BY SMP!NewManagerGood
  <2>2. sm.queue = <<>> /\ sm.batch = <<>>
    BY <1>1 DEF SMP!NewManager
  <2>3. ~SMP!Queued(<<>>, 0)
    BY DEF SMP!Queued
  <2> QED
    BY <1>1, <2>1, <2>2, <2>3 DEF Fit, SMP!Waits
<1>5. ASSUME NEW c \in Conns PROVE Sound(engines[c], sm, c \in proved)
  <2>1. engines[c] = NewEngine
    BY <1>1
  <2>2. /\ NewEngine.ws = "new" /\ NewEngine.st = "connected"
        /\ NewEngine.sess = None /\ NewEngine.timers = 0
        /\ \A v \in Events : NewEngine.pending[v] = 0
    BY DEF NewEngine
  <2> HIDE DEF NewEngine
  <2> QED
    BY <1>1, <1>2, <2>1, <2>2 DEF Sound, Rooted, Lifted, Served, Probing
<1>6. Owners
  <2>1. sm.calls = {}
    BY <1>1 DEF SMP!NewManager
  <2> QED
    BY <1>1, <2>1, EngineConstants DEF Owners
<1>7. Held
  <2>1. \A c \in Conns : engines[c].ws = "new"
    BY <1>1 DEF NewEngine
  <2> QED
    BY <2>1 DEF Held
<1> QED
  BY <1>3, <1>4, <1>5, <1>6, <1>7 DEF IInv

\* Every handler, whenever it runs, preserves the invariant.
LEMMA StepInvariant == IInv /\ [Next]_vars => IInv'
<1> SUFFICES ASSUME IInv, [Next]_vars PROVE IInv'
  OBVIOUS
<1>1. ASSUME NEW c \in Conns, NEW waits \in BOOLEAN, MessageStep(c, waits)
      PROVE  IInv'
  BY <1>1, HelloKept, RegisterKept, AuthKept, RpcKept, DecidedKept, GoodbyeKept,
     RestoreStateKept DEF MessageStep
<1>2. ASSUME NEW c \in Conns, NEW waits \in BOOLEAN, LoopStep(c, waits)
      PROVE  IInv'
  BY <1>2, HelloDecidedKept, AuthDecidedKept, RegisteredKept, TimeoutKept
     DEF LoopStep
<1>3. ASSUME NEW c \in Conns, NEW waits \in BOOLEAN, ClientClosed(c, waits)
      PROVE  IInv'
  BY <1>3, ClientClosedKept
<1>4. ASSUME NEW c \in Conns, Open(c) \/ TryProbe(c) \/ CancelAuth(c)
      PROVE  IInv'
  BY <1>4, OpenKept, TryProbeKept, CancelAuthKept
<1>5. ASSUME NEW s \in Tokens \ {0}, Collect(s) \/ Forget(s)
      PROVE  IInv'
  BY <1>5, CollectKept, ForgetKept
<1>6. CASE CheckStep
  BY <1>6, StartCheckKept, ExpireSessionKept, EndCheckKept DEF CheckStep
<1>7. CASE UNCHANGED vars
  BY <1>7 DEF vars, IInv, Histories, Fit, Owners, Held, Holds, Gone
<1> QED
  BY <1>1, <1>2, <1>3, <1>4, <1>5, <1>6, <1>7 DEF Next

\* In every state the engines, the manager and the callbacks fit together.
LEMMA Invariance == Spec => []IInv
  BY InitInvariant, StepInvariant, PTL DEF Spec

\* The engines, the sessions and the histories have their types: no handler
\* counts a timer or a pending decision below zero.
THEOREM EnginesTyped == Spec => []TypeOK
<1>1. IInv => TypeOK
  BY SameCheck DEF IInv, Histories, Fit, SMP!Good, TypeOK
<1> QED
  BY <1>1, Invariance, PTL

\* Whatever decisions were pending when an engine left a state, one that goes
\* on has a session, unless the cancellation by an RPC's flow lifted it.
THEOREM SessionIsThere == Spec => []SessionNeeded
<1>1. IInv => SessionNeeded
  BY DEF IInv, Sound, Rooted, SessionNeeded
<1> QED
  BY <1>1, Invariance, PTL

\* However late decisions arrive, messages and timeouts interleave and sessions
\* are restored, an open connection is served only after it has proved who it
\* is; the one way round it is the cancellation by the flow of an RPC, and it
\* leads to nothing but the states of a probe.
THEOREM ServedAreProven == Spec => []Proven
<1>1. IInv => Proven
  BY DEF IInv, Sound, Served, Proven
<1> QED
  BY <1>1, Invariance, PTL

\* An engine that is disconnected has given up its websocket, except where the
\* shutdown of an extension's flow raises before the websocket is closed.
THEOREM DisconnectedHasClosed == Spec => []DisconnectedCloses
<1>1. IInv => DisconnectedCloses
  BY DEF IInv, Sound, DisconnectedCloses
<1> QED
  BY <1>1, Invariance, PTL

\* The session of an open connection waits to expire until the connection
\* ends, whatever other connections restore, close and refresh.
THEOREM OpenSessionsWait == Spec => []SessionRunsOut
<1>1. ASSUME IInv PROVE SessionRunsOut
  <2> SUFFICES ASSUME NEW c \in Conns, engines[c].ws = "open", Own(c), ~sm.lapsed,
                      ~engines[c].stranded
               PROVE  SM!Queued(sm.queue \o sm.batch, engines[c].sess)
    BY DEF SessionRunsOut
  <2>1. \A d \in Conns \ {c} : ~Gone(engines[d], engines[c].sess)
    BY DEF Own, Gone
  <2>2. SMP!Waits(sm, engines[c].sess)
    BY <1>1, <2>1 DEF IInv, Held, Own, Holds
  <2>3. sm \in SMP!Managers
    BY <1>1 DEF IInv, Fit, SMP!Good
  <2> QED
    BY <2>2, <2>3, SMP!WaitsIsQueued, SameMethods
<1> QED
  BY <1>1, Invariance, PTL
=============================================================================
