----------------------- MODULE SessionManagerProofs -----------------------
(***************************************************************************)
(* Proofs about the session manager, for any set of tokens and any number  *)
(* of restarts.  A manager is one record that every method maps to a new   *)
(* one, so the inductive invariant is a predicate Good of managers and     *)
(* each method has a lemma that it preserves Good; the steps of Next follow *)
(* from these lemmas.                                                      *)
(***************************************************************************)
EXTENDS SessionManager, SequenceTheorems, TLAPS

Distinct(q) == \A i, j \in 1..Len(q) : q[i] = q[j] => i = j

\* The pending call the manager can cancel is pending: it is cancelled once.
Cancellable(m) == m.latest => m.timers > 0

\* The manager watches over its queue.
Looks(m) == m.queue # <<>> /\ ~m.lapsed => m.timers > 0 \/ m.checking

\* Only living sessions wait, and no token is generated twice.
Alive(m) ==
  /\ \A i \in 1..Len(m.queue) : m.queue[i] \in m.known
  /\ m.known \subseteq m.made
  /\ m.stored \subseteq m.made

Good(m) == /\ m \in Managers
           /\ Cancellable(m) /\ Looks(m) /\ Alive(m) /\ Distinct(m.queue)

-----------------------------------------------------------------------------
(* Sequences.                                                              *)

\* Removing a queued element leaves out one place of the sequence.
LEMMA RemovedPlaces ==
  ASSUME NEW S, NEW q \in Seq(S), NEW s, Queued(q, s)
  PROVE  \E k \in 1..Len(q) :
           /\ q[k] = s
           /\ Removed(q, s) \in Seq(S)
           /\ Len(Removed(q, s)) = Len(q) - 1
           /\ \A i \in 1..(Len(q) - 1) :
                Removed(q, s)[i] = IF i < k THEN q[i] ELSE q[i + 1]
<1> DEFINE k == CHOOSE i \in 1..Len(q) : q[i] = s
           a == SubSeq(q, 1, k - 1)
           b == SubSeq(q, k + 1, Len(q))
<1>1. k \in 1..Len(q) /\ q[k] = s
  BY DEF Queued
<1>2. Removed(q, s) = a \o b
  BY DEF Removed
<1>3. Len(q) \in Nat /\ k \in Nat
  BY <1>1
<1>4. a \in Seq(S) /\ Len(a) = k - 1 /\ \A i \in 1..(k - 1) : a[i] = q[i]
  BY <1>1, <1>3, SubSeqProperties
<1>5. /\ b \in Seq(S) /\ Len(b) = Len(q) - k
      /\ \A i \in 1..(Len(q) - k) : b[i] = q[i + k]
  <2> HIDE DEF k
  <2>1. b \in Seq(S) /\ Len(b) = Len(q) - k
    BY <1>1, <1>3, SubSeqProperties
  <2>2. ASSUME NEW i \in 1..(Len(q) - k)
        PROVE  b[i] = q[i + k]
    <3>1. b[i] = q[(k + 1) + i - 1]
      BY <1>1, <1>3, SubSeqProperties
    <3>2. (k + 1) + i - 1 = i + k
      BY <1>3
    <3> QED
      BY <3>1, <3>2
  <2> QED
    BY <2>1, <2>2
<1> HIDE DEF k, a, b
<1>6. /\ a \o b \in Seq(S) /\ Len(a \o b) = Len(q) - 1
      /\ \A i \in 1..(Len(q) - 1) :
           (a \o b)[i] = IF i < k THEN a[i] ELSE b[i - (k - 1)]
  <2>1. /\ a \o b \in Seq(S) /\ Len(a \o b) = Len(a) + Len(b)
        /\ \A i \in 1..(Len(a) + Len(b)) :
             (a \o b)[i] = IF i <= Len(a) THEN a[i] ELSE b[i - Len(a)]
    BY <1>4, <1>5, ConcatProperties
  <2>2. Len(a) = k - 1 /\ Len(a) + Len(b) = Len(q) - 1
    BY <1>1, <1>3, <1>4, <1>5
  <2>3. \A i \in 1..(Len(q) - 1) : i <= Len(a) <=> i < k
    BY <2>2, <1>3
  <2> QED
    BY <2>1, <2>2, <2>3
<1>7. ASSUME NEW i \in 1..(Len(q) - 1)
      PROVE  (a \o b)[i] = IF i < k THEN q[i] ELSE q[i + 1]
  <2>1. CASE i < k
    BY <2>1, <1>3, <1>4, <1>6
  <2>2. CASE ~(i < k)
    <3>1. i - (k - 1) \in 1..(Len(q) - k) /\ (i - (k - 1)) + k = i + 1
      BY <2>2, <1>1, <1>3
    <3> QED
      BY <3>1, <2>2, <1>5, <1>6
  <2> QED
    BY <2>1, <2>2
<1> QED
  BY <1>1, <1>2, <1>6, <1>7

\* Taking a session out of the queue leaves sessions of the queue, each once,
\* and not the session itself; an empty queue stays empty.
LEMMA RemovedProperties ==
  ASSUME NEW S, NEW q \in Seq(S), NEW s
  PROVE  /\ Removed(q, s) \in Seq(S)
         /\ \A i \in 1..Len(Removed(q, s)) :
              \E j \in 1..Len(q) : Removed(q, s)[i] = q[j]
         /\ Removed(q, s) # <<>> => q # <<>>
         /\ Distinct(q) => /\ Distinct(Removed(q, s))
                           /\ \A i \in 1..Len(Removed(q, s)) :
                                Removed(q, s)[i] # s
<1>1. CASE ~Queued(q, s)
  <2>1. Removed(q, s) = q
    BY <1>1 DEF Removed
  <2> QED
    BY <1>1, <2>1 DEF Queued
<1>2. CASE Queued(q, s)
  <2> DEFINE r == Removed(q, s)
  <2>1. PICK k \in 1..Len(q) :
          /\ q[k] = s /\ r \in Seq(S) /\ Len(r) = Len(q) - 1
          /\ \A i \in 1..(Len(q) - 1) : r[i] = IF i < k THEN q[i] ELSE q[i + 1]
    BY <1>2, RemovedPlaces
  <2>2. Len(q) \in Nat /\ q # <<>>
    BY <2>1
  <2> HIDE DEF r
  <2>3. \A i \in 1..Len(r) : \E j \in 1..Len(q) : r[i] = q[j]
    BY <2>1, <2>2
  <2>4. ASSUME Distinct(q), NEW i \in 1..Len(r), NEW j \in 1..Len(r), r[i] = r[j]
        PROVE  i = j
    <3>1. \E x, y \in 1..Len(q) :
            /\ r[i] = q[x] /\ r[j] = q[y]
            /\ x = IF i < k THEN i ELSE i + 1
            /\ y = IF j < k THEN j ELSE j + 1
      BY <2>1, <2>2
    <3> QED
      BY <3>1, <2>1, <2>2, <2>4 DEF Distinct
  <2>5. ASSUME Distinct(q), NEW i \in 1..Len(r)
        PROVE  r[i] # s
    <3>1. \E x \in 1..Len(q) : r[i] = q[x] /\ x # k
      BY <2>1, <2>2
    <3> QED
      BY <3>1, <2>1, <2>5 DEF Distinct
  <2>6. Distinct(q) => Distinct(r)
    BY <2>4 DEF Distinct
  <2> QED
    BY <2>1, <2>2, <2>3, <2>5, <2>6 DEF r
<1> QED
  BY <1>1, <1>2

\* A concatenation starts with its first part.
LEMMA ConcatPrefix ==
  ASSUME NEW S, NEW q \in Seq(S), NEW r \in Seq(S)
  PROVE  \A i \in 1..Len(q) : i \in 1..Len(q \o r) /\ (q \o r)[i] = q[i]
<1>1. /\ Len(q \o r) = Len(q) + Len(r)
      /\ \A i \in 1..(Len(q) + Len(r)) :
           (q \o r)[i] = IF i <= Len(q) THEN q[i] ELSE r[i - Len(q)]
  BY ConcatProperties
<1>2. Len(q) \in Nat /\ Len(r) \in Nat
  OBVIOUS
<1>3. \A i \in 1..Len(q) : i \in 1..(Len(q) + Len(r)) /\ i <= Len(q)
  BY <1>2
<1> QED
  BY <1>1, <1>3

\* What a queue holds behind its first k places.
LEMMA SuffixPlaces ==
  ASSUME NEW S, NEW q \in Seq(S), NEW k \in 0..Len(q)
  PROVE  LET r == SubSeq(q, k + 1, Len(q)) IN
         /\ r \in Seq(S) /\ Len(r) = Len(q) - k
         /\ \A i \in 1..Len(r) : i + k \in 1..Len(q) /\ r[i] = q[i + k]
<1> DEFINE r == SubSeq(q, k + 1, Len(q))
<1>1. Len(q) \in Nat /\ k + 1 \in Int /\ Len(q) \in Int
  OBVIOUS
<1>2. \A i \in (k + 1)..Len(q) : q[i] \in S
  BY <1>1
<1>3. /\ r \in Seq(S)
      /\ Len(r) = IF k + 1 <= Len(q) THEN Len(q) - (k + 1) + 1 ELSE 0
      /\ \A i \in 1..(Len(q) - (k + 1) + 1) : r[i] = q[(k + 1) + i - 1]
  BY <1>1, <1>2, SubSeqProperties
<1> HIDE DEF r
<1>4. Len(r) = Len(q) - k
  BY <1>1, <1>3
<1>5. ASSUME NEW i \in 1..Len(r)
      PROVE  i + k \in 1..Len(q) /\ r[i] = q[i + k]
  <2>1. i \in 1..(Len(q) - (k + 1) + 1) /\ (k + 1) + i - 1 = i + k
    BY <1>1, <1>4
  <2>2. i + k \in 1..Len(q)
    BY <1>1, <1>4
  <2> QED
    BY <2>1, <2>2, <1>3
<1> QED
  BY <1>3, <1>4, <1>5 DEF r

-----------------------------------------------------------------------------
(* The methods.                                                            *)

\* A session is enqueued that is not queued: it waits once, and at the end.
LEMMA EnqueuedProperties ==
  ASSUME NEW m \in Managers, NEW s \in Sessions
  PROVE  /\ Enqueued(m, s) \in Managers
         /\ Enqueued(m, s).queue # <<>>
         /\ Distinct(m.queue) /\ ~Queued(m.queue, s) =>
              Distinct(Enqueued(m, s).queue)
         /\ (\A i \in 1..Len(m.queue) : m.queue[i] \in m.known) =>
              \A i \in 1..Len(Enqueued(m, s).queue) :
                Enqueued(m, s).queue[i] \in m.known \cup {s}
<1> DEFINE q == m.queue
           r == Append(q, s)
<1>1. q \in Seq(Sessions)
  BY DEF Managers
<1>2. /\ r \in Seq(Sessions) /\ r # <<>> /\ Len(r) = Len(q) + 1
      /\ (\A i \in 1..Len(q) : r[i] = q[i]) /\ r[Len(q) + 1] = s
  BY <1>1, AppendProperties
<1>3. Enqueued(m, s) \in Managers /\ Enqueued(m, s).queue = r
  <2> DEFINE k == m.known \cup {s}
  <2>1. k \in SUBSET Sessions
    BY DEF Managers
  <2>2. Enqueued(m, s) = [m EXCEPT !.queue = r, !.known = k]
    BY DEF Enqueued
  <2> HIDE DEF r, k
  <2> QED
    BY <1>2, <2>1, <2>2 DEF Managers
<1> HIDE DEF r
<1>4. Len(q) \in Nat
  BY <1>1
<1>5. ASSUME Distinct(q), ~Queued(q, s)
      PROVE  Distinct(r)
  BY <1>2, <1>4, <1>5 DEF Distinct, Queued
<1>6. ASSUME \A i \in 1..Len(q) : q[i] \in m.known
      PROVE  \A i \in 1..Len(r) : r[i] \in m.known \cup {s}
  BY <1>2, <1>4, <1>6
<1> QED
  BY <1>2, <1>3, <1>5, <1>6

\* run_timer changes the pending calls only.
LEMMA TimerRunProperties ==
  ASSUME NEW m \in Managers
  PROVE  LET n == TimerRun(m) IN
         /\ n \in Managers /\ n.timers > 0
         /\ n.queue = m.queue /\ n.known = m.known /\ n.made = m.made
         /\ n.stored = m.stored
<1> DEFINE t == m.timers + 1
<1>1. t \in Nat /\ t > 0
  BY DEF Managers
<1>2. TimerRun(m) = [m EXCEPT !.timers = t, !.latest = TRUE]
  BY DEF TimerRun
<1> HIDE DEF t
<1> QED
  BY <1>1, <1>2 DEF Managers

\* create_session: a session that does not wait, and a timer for an empty
\* queue.
LEMMA CreatedGood ==
  ASSUME NEW m, Good(m), NEW s \in Sessions, ~Queued(m.queue, s)
  PROVE  Good(Created(m, s))
<1> DEFINE a == [m EXCEPT !.made = @ \cup {s}, !.open = @ \cup {s},
                          !.calls = @ \cup {s}]
           n == Enqueued(a, s)
<1>1. m \in Managers /\ Cancellable(m) /\ Looks(m) /\ Alive(m) /\ Distinct(m.queue)
  BY DEF Good
<1>2. /\ a \in Managers /\ a.queue = m.queue /\ a.known = m.known
      /\ a.made = m.made \cup {s} /\ a.stored = m.stored
      /\ a.timers = m.timers /\ a.latest = m.latest
      /\ a.checking = m.checking /\ a.lapsed = m.lapsed
  BY <1>1 DEF Managers
<1> HIDE DEF a
<1>3. a.queue = m.queue /\ ~Queued(a.queue, s)
  BY <1>2
<1>4. /\ n \in Managers /\ n.queue # <<>> /\ Distinct(n.queue)
      /\ \A i \in 1..Len(n.queue) : n.queue[i] \in m.known \cup {s}
  BY <1>1, <1>2, <1>3, EnqueuedProperties DEF Alive
<1>5. /\ n.known = m.known \cup {s} /\ n.made = m.made \cup {s}
      /\ n.stored = m.stored /\ n.timers = m.timers /\ n.latest = m.latest
      /\ n.checking = m.checking /\ n.lapsed = m.lapsed
  BY <1>2 DEF Enqueued, Managers
<1>6. Alive(n)
  BY <1>1, <1>4, <1>5 DEF Alive
<1>7. Created(m, s) = IF m.queue = <<>> THEN TimerRun(n) ELSE n
  BY DEF Created, a
<1> HIDE DEF n
<1>8. CASE m.queue = <<>>
  <2>1. /\ TimerRun(n) \in Managers /\ TimerRun(n).timers > 0
        /\ TimerRun(n).queue = n.queue /\ TimerRun(n).known = n.known
        /\ TimerRun(n).made = n.made /\ TimerRun(n).stored = n.stored
    BY <1>4, TimerRunProperties
  <2> QED
    BY <2>1, <1>4, <1>6, <1>7, <1>8 DEF Good, Cancellable, Looks, Alive
<1>9. CASE m.queue # <<>>
  BY <1>1, <1>4, <1>5, <1>6, <1>7, <1>9 DEF Good, Cancellable, Looks
<1> QED
  BY <1>8, <1>9

\* Taking a session out of the queue.
LEMMA DequeuedGood ==
  ASSUME NEW m, Good(m), NEW s
  PROVE  /\ Good(Dequeued(m, s)) /\ ~Queued(Dequeued(m, s).queue, s)
         /\ Dequeued(m, s).queue # <<>> => m.queue # <<>>
         /\ Dequeued(m, s).known = m.known /\ Dequeued(m, s).made = m.made
         /\ Dequeued(m, s).lapsed = m.lapsed
         /\ Dequeued(m, s).timers = m.timers
         /\ Dequeued(m, s).checking = m.checking
<1> DEFINE n == Dequeued(m, s)
           r == Removed(m.queue, s)
<1>1. m \in Managers /\ Cancellable(m) /\ Looks(m) /\ Alive(m) /\ Distinct(m.queue)
  BY DEF Good
<1>2. m.queue \in Seq(Sessions)
  BY <1>1 DEF Managers
<1>3. /\ r \in Seq(Sessions)
      /\ \A i \in 1..Len(r) : \E j \in 1..Len(m.queue) : r[i] = m.queue[j]
      /\ r # <<>> => m.queue # <<>>
      /\ Distinct(r) /\ \A i \in 1..Len(r) : r[i] # s
  BY <1>1, <1>2, RemovedProperties
<1> HIDE DEF r
<1>4. /\ n \in Managers /\ n.queue = r /\ n.known = m.known
      /\ n.made = m.made /\ n.stored = m.stored /\ n.timers = m.timers
      /\ n.latest = m.latest /\ n.checking = m.checking /\ n.lapsed = m.lapsed
  BY <1>1, <1>3 DEF Dequeued, Managers, r
<1> HIDE DEF n
<1>5. Alive(n)
  BY <1>1, <1>3, <1>4 DEF Alive
<1>6. Good(n)
  BY <1>1, <1>3, <1>4, <1>5 DEF Good, Cancellable, Looks
<1> QED
  BY <1>3, <1>4, <1>6 DEF Queued, n

\* A session that is known and does not wait is enqueued while a check is
\* pending, or its lapse is recorded.
LEMMA EnqueuedGood ==
  ASSUME NEW m, Good(m), NEW s \in m.made, ~Queued(m.queue, s),
         m.lapsed \/ m.timers > 0 \/ m.checking
  PROVE  Good(Enqueued(m, s))
<1> DEFINE n == Enqueued(m, s)
<1>1. m \in Managers /\ Cancellable(m) /\ Alive(m) /\ Distinct(m.queue)
  BY DEF Good
<1>2. s \in Sessions
  BY <1>1 DEF Managers
<1>3. /\ n \in Managers /\ Distinct(n.queue)
      /\ \A i \in 1..Len(n.queue) : n.queue[i] \in m.known \cup {s}
  BY <1>1, <1>2, EnqueuedProperties DEF Alive
<1>4. /\ n.known = m.known \cup {s} /\ n.made = m.made
      /\ n.stored = m.stored /\ n.timers = m.timers /\ n.latest = m.latest
      /\ n.checking = m.checking /\ n.lapsed = m.lapsed
  BY <1>1 DEF Enqueued, Managers
<1> HIDE DEF n
<1>5. Alive(n)
  BY <1>1, <1>3, <1>4 DEF Alive
<1>6. Good(n)
  BY <1>1, <1>3, <1>4, <1>5 DEF Good, Cancellable, Looks
<1> QED
  BY <1>6 DEF n

\* A lapse is recorded; nothing else changes.
LEMMA LapsesGood ==
  ASSUME NEW m, Good(m)
  PROVE  LET n == Lapses(m) IN
         /\ Good(n) /\ n.queue = m.queue /\ n.known = m.known /\ n.made = m.made
         /\ n.lapsed \/ n.timers > 0 \/ n.checking
<1> DEFINE n == Lapses(m)
           l == m.lapsed \/ m.queue = <<>>
<1>1. m \in Managers /\ Cancellable(m) /\ Looks(m) /\ Alive(m) /\ Distinct(m.queue)
  BY DEF Good
<1>2. l \in BOOLEAN
  BY <1>1 DEF Managers
<1>3. n = [m EXCEPT !.lapsed = l]
  BY DEF Lapses
<1> HIDE DEF l
<1>4. /\ n \in Managers /\ n.queue = m.queue /\ n.known = m.known
      /\ n.made = m.made /\ n.stored = m.stored /\ n.timers = m.timers
      /\ n.latest = m.latest /\ n.checking = m.checking /\ n.lapsed = l
  BY <1>1, <1>2, <1>3 DEF Managers
<1> HIDE DEF n
<1>5. Looks(n) /\ (n.lapsed \/ n.timers > 0 \/ n.checking)
  BY <1>1, <1>4 DEF Looks, l
<1>6. Good(n)
  BY <1>1, <1>4, <1>5 DEF Good, Cancellable, Alive
<1> QED
  BY <1>4, <1>5, <1>6 DEF n

\* refresh_session.
LEMMA RefreshedGood ==
  ASSUME NEW m, Good(m), NEW s \in m.known
  PROVE  Good(Refreshed(m, s))
<1> DEFINE a == Lapses(m)
           b == Dequeued(a, s)
<1>1. Good(a) /\ a.made = m.made /\ (a.lapsed \/ a.timers > 0 \/ a.checking)
  BY LapsesGood
<1> HIDE DEF a
<1>2. /\ Good(b) /\ ~Queued(b.queue, s) /\ b.made = a.made
      /\ b.lapsed \/ b.timers > 0 \/ b.checking
  BY <1>1, DequeuedGood
<1>3. s \in m.made
  BY DEF Good, Alive
<1> HIDE DEF b
<1>4. Good(Enqueued(b, s))
  BY <1>1, <1>2, <1>3, EnqueuedGood
<1> QED
  BY <1>4 DEF Refreshed, a, b

\* close_session: the timer that is cancelled is pending.
LEMMA SessionClosedGood ==
  ASSUME NEW m, Good(m), NEW s
  PROVE  Good(SessionClosed(m, s))
<1> DEFINE n == Dequeued(m, s)
           t == n.timers - 1
           r == [n EXCEPT !.timers = t, !.latest = FALSE]
<1>1. Good(n)
  BY DequeuedGood
<1>2. SessionClosed(m, s) = IF n.queue = <<>> /\ n.latest THEN r ELSE n
  BY DEF SessionClosed
<1> HIDE DEF n
<1>3. CASE n.queue = <<>> /\ n.latest
  <2>1. n \in Managers /\ n.timers \in Nat /\ n.timers > 0
    BY <1>1, <1>3 DEF Good, Cancellable, Managers
  <2>2. t \in Nat
    BY <2>1
  <2> HIDE DEF t
  <2>3. /\ r \in Managers /\ r.queue = n.queue /\ ~r.latest
        /\ r.known = n.known /\ r.made = n.made /\ r.stored = n.stored
    BY <2>1, <2>2 DEF Managers
  <2> HIDE DEF r
  <2>4. Good(r)
    BY <1>1, <1>3, <2>3 DEF Good, Cancellable, Looks, Alive
  <2> QED
    BY <1>2, <1>3, <2>4
<1> QED
  BY <1>1, <1>2, <1>3

\* connection_closed: only a session that is known has its state stored.
LEMMA PartedGood ==
  ASSUME NEW m, Good(m), NEW s \in m.known
  PROVE  Good(Parted(m, s))
<1> DEFINE n == Parted(m, s)
           c == m.calls \ {s}
           d == m.stored \cup {s}
<1>1. m \in Managers /\ Cancellable(m) /\ Looks(m) /\ Alive(m) /\ Distinct(m.queue)
  BY DEF Good
<1>2. c \in SUBSET Sessions /\ d \in SUBSET Sessions
  BY <1>1 DEF Managers
<1>3. n = [m EXCEPT !.calls = c, !.stored = d]
  BY DEF Parted
<1> HIDE DEF c, d
<1>4. /\ n \in Managers /\ n.queue = m.queue /\ n.known = m.known
      /\ n.made = m.made /\ n.stored = d /\ n.timers = m.timers
      /\ n.latest = m.latest /\ n.checking = m.checking /\ n.lapsed = m.lapsed
  BY <1>1, <1>2, <1>3 DEF Managers
<1> HIDE DEF n
<1>5. Alive(n)
  BY <1>1, <1>4 DEF Alive, d
<1>6. Good(n)
  BY <1>1, <1>4, <1>5 DEF Good, Cancellable, Looks
<1> QED
  BY <1>6 DEF n

\* restore_session: a session object that is made anew does not wait yet.
LEMMA RestoredGood ==
  ASSUME NEW m, Good(m), NEW s
  PROVE  Good(Restored(m, s))
<1>1. CASE s \in m.known \/ s \notin m.stored
  BY <1>1 DEF Restored
<1>2. CASE s \notin m.known /\ s \in m.stored
  <2> DEFINE a == Lapses(m)
             b == Enqueued(a, s)
             o == b.open \cup {s}
             c == b.calls \ {s}
             n == [b EXCEPT !.open = o, !.calls = c]
  <2>1. /\ Good(a) /\ a.queue = m.queue /\ a.made = m.made
        /\ a.lapsed \/ a.timers > 0 \/ a.checking
    BY LapsesGood
  <2>2. s \in m.made /\ s \in Sessions /\ ~Queued(m.queue, s)
    BY <1>2 DEF Good, Alive, Queued, Managers
  <2> HIDE DEF a
  <2>3. Good(b)
    BY <2>1, <2>2, EnqueuedGood
  <2>4. Restored(m, s) = n
    BY <1>2 DEF Restored, a
  <2> HIDE DEF b
  <2>5. b \in Managers
    BY <2>3 DEF Good
  <2>6. o \in SUBSET Sessions /\ c \in SUBSET Sessions
    BY <2>2, <2>5 DEF Managers
  <2> HIDE DEF o, c
  <2>7. /\ n \in Managers /\ n.queue = b.queue /\ n.known = b.known
        /\ n.made = b.made /\ n.stored = b.stored /\ n.timers = b.timers
        /\ n.latest = b.latest /\ n.checking = b.checking /\ n.lapsed = b.lapsed
    BY <2>5, <2>6 DEF Managers
  <2> HIDE DEF n
  <2>8. Good(n)
    BY <2>3, <2>7 DEF Good, Cancellable, Looks, Alive
  <2> QED
    BY <2>4, <2>8
<1> QED
  BY <1>1, <1>2

\* The periodic check takes a prefix of the queue.
LEMMA CheckStartedGood ==
  ASSUME NEW m, Good(m), m.timers > 0, NEW k \in 0..Len(m.queue)
  PROVE  Good(CheckStarted(m, k))
<1> DEFINE q == m.queue
           b == SubSeq(q, 1, k)
           r == SubSeq(q, k + 1, Len(q))
           t == m.timers - 1
           l == m.latest /\ m.timers > 1
           n == CheckStarted(m, k)
<1>1. m \in Managers /\ Cancellable(m) /\ Alive(m) /\ Distinct(q)
  BY DEF Good
<1>2. q \in Seq(Sessions) /\ Len(q) \in Nat /\ m.timers \in Nat
  BY <1>1 DEF Managers
<1>3. b \in Seq(Sessions)
  BY <1>2, SubSeqProperties
<1>4. r \in Seq(Sessions) /\ Len(r) = Len(q) - k
  BY <1>2, SuffixPlaces
<1>5. \A i \in 1..Len(r) : i + k \in 1..Len(q) /\ r[i] = q[i + k]
  BY <1>2, SuffixPlaces
<1>6. t \in Nat /\ l \in BOOLEAN /\ (l => t > 0)
  BY <1>2
<1>7. n = [m EXCEPT !.checking = TRUE, !.timers = t, !.latest = l,
                    !.batch = b, !.queue = r]
  BY DEF CheckStarted
<1> HIDE DEF b, r, t, l
<1>8. /\ n \in Managers /\ n.queue = r /\ n.timers = t /\ n.latest = l
      /\ n.checking = TRUE /\ n.known = m.known /\ n.made = m.made
      /\ n.stored = m.stored
  BY <1>1, <1>3, <1>4, <1>6, <1>7 DEF Managers
<1> HIDE DEF n
<1>9. Distinct(r)
  <2>1. ASSUME NEW i \in 1..Len(r), NEW j \in 1..Len(r), r[i] = r[j]
        PROVE  i = j
    <3>1. i + k = j + k
      BY <1>1, <1>5, <2>1 DEF Distinct
    <3> QED
      BY <3>1, <1>2, <1>4
  <2> QED
    BY <2>1 DEF Distinct
<1>10. Alive(n)
  BY <1>1, <1>5, <1>8 DEF Alive
<1>11. Good(n)
  BY <1>6, <1>8, <1>9, <1>10 DEF Good, Cancellable, Looks
<1> QED
  BY <1>11 DEF n

\* One session of the batch is closed.
LEMMA ExpiredGood ==
  ASSUME NEW m, Good(m), m.batch # <<>>
  PROVE  Good(Expired(m))
<1> DEFINE b == Tail(m.batch)
           o == m.open \ {Head(m.batch)}
           n == Expired(m)
<1>1. m \in Managers /\ Cancellable(m) /\ Looks(m) /\ Alive(m) /\ Distinct(m.queue)
  BY DEF Good
<1>2. m.batch \in Seq(Sessions) /\ o \in SUBSET Sessions
  BY <1>1 DEF Managers
<1>3. b \in Seq(Sessions)
  BY <1>2, HeadTailProperties
<1>4. n = [m EXCEPT !.open = o, !.batch = b]
  BY DEF Expired
<1> HIDE DEF b, o
<1>5. /\ n \in Managers /\ n.queue = m.queue /\ n.known = m.known
      /\ n.made = m.made /\ n.stored = m.stored /\ n.timers = m.timers
      /\ n.latest = m.latest /\ n.checking = m.checking /\ n.lapsed = m.lapsed
  BY <1>1, <1>2, <1>3, <1>4 DEF Managers
<1> HIDE DEF n
<1>6. Good(n)
  BY <1>1, <1>5 DEF Good, Cancellable, Looks, Alive
<1> QED
  BY <1>6 DEF n

\* A callback that raises ends the check; what it loses is recorded.
LEMMA CheckBrokenGood ==
  ASSUME NEW m, Good(m)
  PROVE  Good(CheckBroken(m))
<1> DEFINE n == CheckBroken(m)
<1>1. m \in Managers /\ Cancellable(m) /\ Alive(m) /\ Distinct(m.queue)
  BY DEF Good
<1>2. /\ n \in Managers /\ n.queue = m.queue /\ n.known = m.known
      /\ n.made = m.made /\ n.stored = m.stored /\ n.timers = m.timers
      /\ n.latest = m.latest /\ n.lapsed = TRUE
  <2>1. <<>> \in Seq(Sessions)
    OBVIOUS
  <2> QED
    BY <1>1, <2>1 DEF CheckBroken, Managers
<1> HIDE DEF n
<1>3. Good(n)
  BY <1>1, <1>2 DEF Good, Cancellable, Looks, Alive
<1> QED
  BY <1>3 DEF n

\* A check that ends schedules the next one.
LEMMA CheckEndedGood ==
  ASSUME NEW m, Good(m)
  PROVE  Good(CheckEnded(m))
<1> DEFINE a == [m EXCEPT !.checking = FALSE]
           n == TimerRun(a)
<1>1. m \in Managers /\ Alive(m) /\ Distinct(m.queue)
  BY DEF Good
<1>2. /\ a \in Managers /\ a.queue = m.queue /\ a.known = m.known
      /\ a.made = m.made /\ a.stored = m.stored
  BY <1>1 DEF Managers
<1> HIDE DEF a
<1>3. /\ n \in Managers /\ n.timers > 0 /\ n.queue = m.queue
      /\ n.known = m.known /\ n.made = m.made /\ n.stored = m.stored
  BY <1>2, TimerRunProperties
<1> HIDE DEF n
<1>4. Good(n)
  BY <1>1, <1>3 DEF Good, Cancellable, Looks, Alive
<1> QED
  BY <1>4 DEF n, a, CheckEnded

-----------------------------------------------------------------------------
(* Who waits.  What a method does to the sessions it is not about: used of *)
(* the engines, which combine several methods in one handler.              *)

Waits(m, s) == Queued(m.queue, s) \/ Queued(m.batch, s)

\* A method that leaves the check alone, takes the sessions of D out of the
\* queue and puts those of A into it.
Leaves(m, n, D, A) ==
  /\ m.known \subseteq n.known /\ m.made \subseteq n.made
  /\ n.checking = m.checking /\ n.batch = m.batch
  /\ m.lapsed => n.lapsed
  /\ \A s \in Sessions : Waits(m, s) => Waits(n, s) \/ s \in D
  /\ \A s \in Sessions : Waits(n, s) => Waits(m, s) \/ s \in A

\* The end of a queue.
LEMMA AppendQueued ==
  ASSUME NEW q \in Seq(Sessions), NEW s \in Sessions
  PROVE  \A t : Queued(Append(q, s), t) <=> Queued(q, t) \/ t = s
<1> DEFINE r == Append(q, s)
<1>1. /\ Len(r) = Len(q) + 1 /\ Len(q) \in Nat
      /\ (\A i \in 1..Len(q) : r[i] = q[i]) /\ r[Len(q) + 1] = s
  BY AppendProperties
<1> HIDE DEF r
<1>2. ASSUME NEW t
      PROVE  Queued(r, t) <=> Queued(q, t) \/ t = s
  <2>1. ASSUME Queued(r, t) PROVE Queued(q, t) \/ t = s
    BY <1>1, <2>1 DEF Queued
  <2>2. ASSUME Queued(q, t) PROVE Queued(r, t)
    BY <1>1, <2>2 DEF Queued
  <2>3. ASSUME t = s PROVE Queued(r, t)
    BY <1>1, <2>3 DEF Queued
  <2> QED
    BY <2>1, <2>2, <2>3
<1> QED
  BY <1>2 DEF r

\* Whoever else waits is not removed.
LEMMA RemovedQueued ==
  ASSUME NEW q \in Seq(Sessions), NEW s
  PROVE  /\ \A t : Queued(q, t) => Queued(Removed(q, s), t) \/ t = s
         /\ \A t : Queued(Removed(q, s), t) => Queued(q, t)
<1>1. CASE ~Queued(q, s)
  BY <1>1 DEF Removed
<1>2. CASE Queued(q, s)
  <2> DEFINE r == Removed(q, s)
  <2>1. PICK k \in 1..Len(q) :
          /\ q[k] = s /\ r \in Seq(Sessions) /\ Len(r) = Len(q) - 1
          /\ \A i \in 1..(Len(q) - 1) : r[i] = IF i < k THEN q[i] ELSE q[i + 1]
    BY <1>2, RemovedPlaces
  <2>2. Len(q) \in Nat
    OBVIOUS
  <2> HIDE DEF r
  <2>3. ASSUME NEW t, Queued(q, t), t # s PROVE Queued(r, t)
    <3>1. PICK j \in 1..Len(q) : q[j] = t
      BY <2>3 DEF Queued
    <3>2. CASE j < k
      <4>1. j \in 1..(Len(q) - 1)
        BY <3>2, <2>2
      <4>2. r[j] = t
        BY <4>1, <3>1, <3>2, <2>1
      <4> QED
        BY <4>1, <4>2, <2>1 DEF Queued
    <3>3. CASE ~(j < k)
      <4>1. j > k
        BY <3>3, <3>1, <2>1, <2>3
      <4>2. j - 1 \in 1..(Len(q) - 1) /\ ~(j - 1 < k) /\ (j - 1) + 1 = j
        BY <4>1, <2>2
      <4>3. r[j - 1] = t
        BY <4>2, <3>1, <2>1
      <4> QED
        BY <4>2, <4>3, <2>1 DEF Queued
    <3> QED
      BY <3>2, <3>3
  <2>4. ASSUME NEW t, Queued(r, t) PROVE Queued(q, t)
    <3>1. PICK i \in 1..Len(r) : r[i] = t
      BY <2>4 DEF Queued
    <3>2. i \in 1..(Len(q) - 1) /\ i \in 1..Len(q) /\ i + 1 \in 1..Len(q)
      BY <2>1, <2>2
    <3> QED
      BY <3>1, <3>2, <2>1 DEF Queued
  <2> QED
    BY <2>3, <2>4 DEF r
<1> QED
  BY <1>1, <1>2

\* create_session.
LEMMA CreatedLeaves ==
  ASSUME NEW m \in Managers, NEW s \in Sessions
  PROVE  LET n == Created(m, s) IN
         /\ Leaves(m, n, {}, {s}) /\ Waits(n, s)
         /\ n.known = m.known \cup {s} /\ n.made = m.made \cup {s}
         /\ n.calls = m.calls \cup {s} /\ n.open = m.open \cup {s}
<1> DEFINE q == Append(m.queue, s)
           n == Created(m, s)
<1>1. m.queue \in Seq(Sessions)
  BY DEF Managers
<1>2. \A t : Queued(q, t) <=> Queued(m.queue, t) \/ t = s
  BY <1>1, AppendQueued
<1> HIDE DEF q
<1>3. /\ n.queue = q /\ n.batch = m.batch /\ n.checking = m.checking
      /\ n.lapsed = m.lapsed /\ n.known = m.known \cup {s}
      /\ n.made = m.made \cup {s} /\ n.calls = m.calls \cup {s}
      /\ n.open = m.open \cup {s}
  BY DEF Managers, Created, Enqueued, TimerRun, q
<1> HIDE DEF n
<1>4. Leaves(m, n, {}, {s}) /\ Waits(n, s)
  BY <1>2, <1>3 DEF Leaves, Waits
<1> QED
  BY <1>3, <1>4 DEF n

\* refresh_session.
LEMMA RefreshedLeaves ==
  ASSUME NEW m \in Managers, NEW s \in Sessions
  PROVE  LET n == Refreshed(m, s) IN
         Leaves(m, n, {}, {s}) /\ n.calls = m.calls
<1> DEFINE r == Removed(m.queue, s)
           q == Append(r, s)
           n == Refreshed(m, s)
<1>1. m.queue \in Seq(Sessions)
  BY DEF Managers
<1>2. /\ r \in Seq(Sessions)
      /\ \A t : Queued(m.queue, t) => Queued(r, t) \/ t = s
      /\ \A t : Queued(r, t) => Queued(m.queue, t)
  BY <1>1, RemovedQueued, RemovedProperties
<1> HIDE DEF r
<1>3. \A t : Queued(q, t) <=> Queued(r, t) \/ t = s
  BY <1>2, AppendQueued
<1> HIDE DEF q
<1>4. /\ n.queue = q /\ n.batch = m.batch /\ n.checking = m.checking
      /\ (m.lapsed => n.lapsed) /\ n.known = m.known \cup {s}
      /\ n.made = m.made /\ n.calls = m.calls
  BY DEF Managers, Refreshed, Lapses, Dequeued, Enqueued, q, r
<1> HIDE DEF n
<1>5. Leaves(m, n, {}, {s})
  BY <1>2, <1>3, <1>4 DEF Leaves, Waits
<1> QED
  BY <1>4, <1>5 DEF n

\* close_session.
LEMMA SessionClosedLeaves ==
  ASSUME NEW m, Good(m), NEW s
  PROVE  LET n == SessionClosed(m, s) IN
         /\ Leaves(m, n, {s}, {}) /\ ~Queued(n.queue, s)
         /\ n.calls = m.calls
<1> DEFINE r == Removed(m.queue, s)
           n == SessionClosed(m, s)
<1>1. m \in Managers /\ m.queue \in Seq(Sessions) /\ Distinct(m.queue)
  BY DEF Good, Managers
<1>2. /\ \A t : Queued(m.queue, t) => Queued(r, t) \/ t = s
      /\ \A t : Queued(r, t) => Queued(m.queue, t)
      /\ \A i \in 1..Len(r) : r[i] # s
  BY <1>1, RemovedQueued, RemovedProperties
<1>3. /\ n.queue = r /\ n.batch = m.batch /\ n.checking = m.checking
      /\ n.lapsed = m.lapsed /\ n.known = m.known /\ n.made = m.made
      /\ n.calls = m.calls
  BY <1>1 DEF Managers, SessionClosed, Dequeued
<1> HIDE DEF n, r
<1>4. Leaves(m, n, {s}, {}) /\ ~Queued(n.queue, s)
  BY <1>2, <1>3 DEF Leaves, Waits, Queued
<1> QED
  BY <1>3, <1>4 DEF n

\* connection_closed.
LEMMA PartedLeaves ==
  ASSUME NEW m \in Managers, NEW s
  PROVE  LET n == Parted(m, s) IN
         Leaves(m, n, {}, {}) /\ n.known = m.known /\ n.calls = m.calls \ {s}
<1> DEFINE n == Parted(m, s)
<1>1. /\ n.queue = m.queue /\ n.batch = m.batch /\ n.checking = m.checking
      /\ n.lapsed = m.lapsed /\ n.known = m.known /\ n.made = m.made
      /\ n.calls = m.calls \ {s}
  BY DEF Managers, Parted
<1> HIDE DEF n
<1>2. Leaves(m, n, {}, {})
  BY <1>1 DEF Leaves, Waits
<1> QED
  BY <1>1, <1>2 DEF n

\* restore_session: only the callback of a session object that is gone is
\* forgotten.
LEMMA RestoredLeaves ==
  ASSUME NEW m \in Managers, NEW s \in Sessions
  PROVE  LET n == Restored(m, s) IN
         /\ Leaves(m, n, {}, {s})
         /\ Restorable(m, s) => s \in n.known
         /\ m.calls \cap m.known \subseteq n.calls /\ n.calls \subseteq m.calls
<1> DEFINE n == Restored(m, s)
<1>1. CASE s \in m.known \/ s \notin m.stored
  <2>1. n = m
    BY <1>1 DEF Restored
  <2> QED
    BY <1>1, <2>1 DEF Leaves, Restorable
<1>2. CASE s \notin m.known /\ s \in m.stored
  <2> DEFINE q == Append(m.queue, s)
  <2>1. m.queue \in Seq(Sessions)
    BY DEF Managers
  <2>2. \A t : Queued(q, t) <=> Queued(m.queue, t) \/ t = s
    BY <2>1, AppendQueued
  <2> HIDE DEF q
  <2>3. /\ n.queue = q /\ n.batch = m.batch /\ n.checking = m.checking
        /\ (m.lapsed => n.lapsed) /\ n.known = m.known \cup {s}
        /\ n.made = m.made /\ n.calls = m.calls \ {s}
    BY <1>2 DEF Managers, Restored, Lapses, Enqueued, q
  <2> HIDE DEF n
  <2>4. Leaves(m, n, {}, {s})
    BY <2>2, <2>3 DEF Leaves, Waits
  <2> QED
    BY <1>2, <2>3, <2>4 DEF n
<1> QED
  BY <1>1, <1>2

\* The check that starts moves a prefix of the queue to the batch.
LEMMA CheckStartedWaits ==
  ASSUME NEW m \in Managers, NEW k \in 0..Len(m.queue)
  PROVE  LET n == CheckStarted(m, k) IN
         /\ \A s : Queued(m.queue, s) => Waits(n, s)
         /\ \A s : Waits(n, s) => Queued(m.queue, s)
         /\ n.known = m.known /\ n.made = m.made /\ n.calls = m.calls
         /\ n.lapsed = m.lapsed /\ n.checking
<1> DEFINE q == m.queue
           b == SubSeq(q, 1, k)
           r == SubSeq(q, k + 1, Len(q))
           n == CheckStarted(m, k)
<1>1. q \in Seq(Sessions) /\ Len(q) \in Nat
  BY DEF Managers
<1>2. b \in Seq(Sessions) /\ Len(b) = k /\ \A i \in 1..k : b[i] = q[i]
  <2>1. b \in Seq(Sessions) /\ Len(b) = IF 1 <= k THEN k - 1 + 1 ELSE 0
    BY <1>1, SubSeqProperties
  <2>2. ASSUME NEW i \in 1..k PROVE b[i] = q[i]
    <3>1. b[i] = q[1 + i - 1]
      BY <1>1, SubSeqProperties
    <3> QED
      BY <3>1, <1>1
  <2> QED
    BY <2>1, <2>2, <1>1
<1>3. r \in Seq(Sessions) /\ Len(r) = Len(q) - k
  BY <1>1, SuffixPlaces
<1>4. \A i \in 1..Len(r) : i + k \in 1..Len(q) /\ r[i] = q[i + k]
  BY <1>1, SuffixPlaces
<1>5. /\ n.queue = r /\ n.batch = b /\ n.checking
      /\ n.known = m.known /\ n.made = m.made /\ n.calls = m.calls
      /\ n.lapsed = m.lapsed
  BY DEF Managers, CheckStarted
<1> HIDE DEF b, r, n
<1>6. ASSUME NEW s, Queued(q, s) PROVE Waits(n, s)
  <2>1. PICK j \in 1..Len(q) : q[j] = s
    BY <1>6 DEF Queued
  <2>2. CASE j <= k
    <3>1. j \in 1..Len(b) /\ b[j] = s
      BY <2>1, <2>2, <1>1, <1>2
    <3> QED
      BY <3>1, <1>5 DEF Waits, Queued
  <2>3. CASE ~(j <= k)
    <3>1. j - k \in 1..Len(r) /\ (j - k) + k = j
      BY <2>3, <1>1, <1>3
    <3>2. r[j - k] = s
      BY <3>1, <2>1, <1>4
    <3> QED
      BY <3>1, <3>2, <1>5 DEF Waits, Queued
  <2> QED
    BY <2>2, <2>3
<1>7. ASSUME NEW s, Waits(n, s) PROVE Queued(q, s)
  <2>1. CASE Queued(r, s)
    BY <2>1, <1>4 DEF Queued
  <2>2. CASE Queued(b, s)
    <3>1. PICK i \in 1..Len(b) : b[i] = s
      BY <2>2 DEF Queued
    <3>2. i \in 1..Len(q) /\ q[i] = s
      BY <3>1, <1>1, <1>2
    <3> QED
      BY <3>2 DEF Queued
  <2> QED
    BY <2>1, <2>2, <1>7, <1>5 DEF Waits
<1> QED
  BY <1>5, <1>6, <1>7 DEF n

\* Only the head of the batch stops waiting when it is closed.
LEMMA ExpiredWaits ==
  ASSUME NEW m \in Managers, m.batch # <<>>
  PROVE  LET n == Expired(m) IN
         /\ Head(m.batch) \in Sessions /\ Waits(m, Head(m.batch))
         /\ \A s : Waits(m, s) => Waits(n, s) \/ s = Head(m.batch)
         /\ \A s : Waits(n, s) => Waits(m, s)
         /\ n.known = m.known /\ n.made = m.made /\ n.calls = m.calls
         /\ n.lapsed = m.lapsed /\ n.checking = m.checking
         /\ Head(m.batch) \notin n.open
<1> DEFINE b == m.batch
           r == Tail(b)
           n == Expired(m)
<1>1. b \in Seq(Sessions) /\ b # <<>>
  BY DEF Managers
<1>2. /\ Head(b) \in Sessions /\ Head(b) = b[1] /\ Len(b) \in Nat /\ Len(b) > 0
      /\ Len(r) = Len(b) - 1 /\ \A i \in 1..(Len(b) - 1) : r[i] = b[i + 1]
  BY <1>1, HeadTailProperties
<1>3. /\ n.queue = m.queue /\ n.batch = r
      /\ n.known = m.known /\ n.made = m.made /\ n.calls = m.calls
      /\ n.lapsed = m.lapsed /\ n.checking = m.checking
      /\ Head(b) \notin n.open
  BY DEF Managers, Expired
<1> HIDE DEF r, n
<1>4. ASSUME NEW s, Queued(b, s), s # Head(b) PROVE Queued(r, s)
  <2>1. PICK j \in 1..Len(b) : b[j] = s
    BY <1>4 DEF Queued
  <2>2. j # 1
    BY <2>1, <1>2, <1>4
  <2>3. j - 1 \in 1..(Len(b) - 1) /\ (j - 1) + 1 = j
    BY <2>2, <1>2
  <2>4. r[j - 1] = s
    BY <2>1, <2>3, <1>2
  <2> QED
    BY <2>3, <2>4, <1>2 DEF Queued
<1>5. ASSUME NEW s, Queued(r, s) PROVE Queued(b, s)
  <2>1. PICK i \in 1..Len(r) : r[i] = s
    BY <1>5 DEF Queued
  <2>2. i \in 1..(Len(b) - 1) /\ i + 1 \in 1..Len(b)
    BY <1>2
  <2> QED
    BY <2>1, <2>2, <1>2 DEF Queued
<1>6. Queued(b, Head(b))
  BY <1>2 DEF Queued
<1> QED
  BY <1>2, <1>3, <1>4, <1>5, <1>6 DEF Waits, n

\* The queue and the batch, read one after the other.
LEMMA WaitsIsQueued ==
  ASSUME NEW m \in Managers
  PROVE  \A s : Queued(m.queue \o m.batch, s) <=> Waits(m, s)
<1> DEFINE q == m.queue
           b == m.batch
           r == q \o b
<1>1. q \in Seq(Sessions) /\ b \in Seq(Sessions)
  BY DEF Managers
<1>2. /\ Len(r) = Len(q) + Len(b)
      /\ \A i \in 1..(Len(q) + Len(b)) :
           r[i] = IF i <= Len(q) THEN q[i] ELSE b[i - Len(q)]
  BY <1>1, ConcatProperties
<1>3. Len(q) \in Nat /\ Len(b) \in Nat
  BY <1>1
<1> HIDE DEF q, b, r
<1>4. ASSUME NEW s, Queued(q, s) PROVE Queued(r, s)
  <2>1. PICK i \in 1..Len(q) : q[i] = s
    BY <1>4 DEF Queued
  <2>2. i \in 1..(Len(q) + Len(b)) /\ i <= Len(q)
    BY <1>3
  <2> QED
    BY <2>1, <2>2, <1>2 DEF Queued
<1>5. ASSUME NEW s, Queued(b, s) PROVE Queued(r, s)
  <2>1. PICK i \in 1..Len(b) : b[i] = s
    BY <1>5 DEF Queued
  <2>2. /\ i + Len(q) \in 1..(Len(q) + Len(b)) /\ ~(i + Len(q) <= Len(q))
        /\ (i + Len(q)) - Len(q) = i
    BY <1>3
  <2> QED
    BY <2>1, <2>2, <1>2 DEF Queued
<1>6. ASSUME NEW s, Queued(r, s) PROVE Queued(q, s) \/ Queued(b, s)
  <2>1. PICK i \in 1..(Len(q) + Len(b)) : r[i] = s
    BY <1>6, <1>2 DEF Queued
  <2>2. CASE i <= Len(q)
    BY <2>1, <2>2, <1>2, <1>3 DEF Queued
  <2>3. CASE ~(i <= Len(q))
    <3>1. i - Len(q) \in 1..Len(b)
      BY <2>3, <1>3
    <3> QED
      BY <2>1, <2>3, <3>1, <1>2 DEF Queued
  <2> QED
    BY <2>2, <2>3
<1> QED
  BY <1>4, <1>5, <1>6 DEF Waits, q, b, r

-----------------------------------------------------------------------------
(* The specification.                                                      *)

IInv == Good(sm) /\ restarts \in 0..MaxRestarts

\* A manager made when the process starts is good if the stored states belong
\* to tokens that were generated.
LEMMA NewManagerGood ==
  ASSUME NEW A, NEW B, A \subseteq Sessions, B \subseteq A
  PROVE  Good(NewManager(A, B))
<1>1. <<>> \in Seq(Sessions) /\ Len(<<>>) = 0
  OBVIOUS
<1>2. NewManager(A, B) \in Managers
  BY <1>1 DEF NewManager, Managers
<1>3. Distinct(<<>>) /\ \A i \in 1..Len(<<>>) : <<>>[i] \in {}
  BY <1>1 DEF Distinct
<1> QED
  BY <1>2, <1>3 DEF Good, NewManager, Cancellable, Looks, Alive

\* The invariant holds of a process that starts.
LEMMA InitInvariant == Init => IInv
<1> SUFFICES ASSUME Init PROVE IInv
  OBVIOUS
<1>1. Good(NewManager({}, {}))
  BY NewManagerGood
<1> QED
  BY <1>1, RestartsAssumption DEF Init, IInv

\* Every call of a method, every step of the check, the loss of an object or
\* of a stored state and a restart preserve the invariant.
LEMMA StepInvariant == IInv /\ [Next]_smVars => IInv'
<1> SUFFICES ASSUME IInv, [Next]_smVars PROVE IInv'
  OBVIOUS
<1> USE DEF IInv
<1>1. ASSUME NEW s \in Sessions, Create(s) PROVE IInv'
  <2>1. ~Queued(sm.queue, s)
    BY <1>1 DEF Create, Good, Alive, Queued
  <2> QED
    BY <1>1, <2>1, CreatedGood DEF Create
<1>2. ASSUME NEW s \in Sessions, Refresh(s) PROVE IInv'
  BY <1>2, RefreshedGood DEF Refresh
<1>3. ASSUME NEW s \in Sessions, Close(s) PROVE IInv'
  BY <1>3, SessionClosedGood DEF Close
<1>4. ASSUME NEW s \in Sessions, Part(s) PROVE IInv'
  BY <1>4, PartedGood DEF Part
<1>5. ASSUME NEW s \in Sessions, Restore(s) PROVE IInv'
  BY <1>5, RestoredGood DEF Restore
<1>6. ASSUME NEW s \in Sessions, Collect(s) PROVE IInv'
  <2> DEFINE k == sm.known \ {s}
  <2>1. sm \in Managers /\ Alive(sm)
    BY DEF Good
  <2>2. k \in SUBSET Sessions
    BY <2>1 DEF Managers
  <2>3. \A i \in 1..Len(sm.queue) : sm.queue[i] # s
    <3>1. sm.queue \in Seq(Sessions) /\ sm.batch \in Seq(Sessions)
      BY <2>1 DEF Managers
    <3>2. \A i \in 1..Len(sm.queue) : /\ i \in 1..Len(sm.queue \o sm.batch)
                                      /\ (sm.queue \o sm.batch)[i] = sm.queue[i]
      BY <3>1, ConcatPrefix
    <3> QED
      BY <3>2, <1>6 DEF Collect, Queued
  <2> HIDE DEF k
  <2>4. /\ sm' \in Managers /\ sm'.queue = sm.queue /\ sm'.known = k
        /\ sm'.made = sm.made /\ sm'.stored = sm.stored
        /\ sm'.timers = sm.timers /\ sm'.latest = sm.latest
        /\ sm'.checking = sm.checking /\ sm'.lapsed = sm.lapsed
    <3>1. sm' = [sm EXCEPT !.known = k]
      BY <1>6 DEF Collect, k
    <3> QED
      BY <2>1, <2>2, <3>1 DEF Managers
  <2>5. Alive(sm')
    BY <2>1, <2>3, <2>4 DEF Alive, k
  <2> QED
    BY <1>6, <2>4, <2>5 DEF Collect, Good, Cancellable, Looks
<1>7. ASSUME NEW s \in Sessions, Forget(s) PROVE IInv'
  <2> DEFINE d == sm.stored \ {s}
  <2>1. sm \in Managers /\ Alive(sm)
    BY DEF Good
  <2>2. d \in SUBSET Sessions
    BY <2>1 DEF Managers
  <2> HIDE DEF d
  <2>3. /\ sm' \in Managers /\ sm'.queue = sm.queue /\ sm'.known = sm.known
        /\ sm'.made = sm.made /\ sm'.stored = d
        /\ sm'.timers = sm.timers /\ sm'.latest = sm.latest
        /\ sm'.checking = sm.checking /\ sm'.lapsed = sm.lapsed
    <3>1. sm' = [sm EXCEPT !.stored = d]
      BY <1>7 DEF Forget, d
    <3> QED
      BY <2>1, <2>2, <3>1 DEF Managers
  <2>4. Alive(sm')
    BY <2>1, <2>3 DEF Alive, d
  <2> QED
    BY <1>7, <2>3, <2>4 DEF Forget, Good, Cancellable, Looks
<1>8. ASSUME NEW n \in 0..Len(sm.queue), StartCheck(n) PROVE IInv'
  BY <1>8, CheckStartedGood DEF StartCheck
<1>9. CASE CloseExpired
  BY <1>9, ExpiredGood DEF CloseExpired
<1>10. CASE CallbackRaises
  BY <1>10, ExpiredGood, CheckBrokenGood DEF CallbackRaises
<1>11. CASE EndCheck
  BY <1>11, CheckEndedGood DEF EndCheck
<1>12. CASE Restart
  <2>1. sm.made \subseteq Sessions /\ sm.stored \subseteq sm.made
    BY DEF Good, Alive, Managers
  <2>2. Good(NewManager(sm.made, sm.stored))
    BY <2>1, NewManagerGood
  <2> QED
    BY <1>12, <2>2, RestartsAssumption DEF Restart
<1>13. CASE UNCHANGED smVars
  BY <1>13 DEF smVars
<1> QED
  BY <1>1, <1>2, <1>3, <1>4, <1>5, <1>6, <1>7, <1>8, <1>9, <1>10, <1>11, <1>12,
     <1>13 DEF Next

\* In every state the manager is good.
LEMMA Invariance == Spec => []IInv
  BY InitInvariant, StepInvariant, PTL DEF Spec

\* The session manager's data have their types, and no call of the check is
\* cancelled that is not pending.
THEOREM SessionsTyped == Spec => []SessionsTypeOK
<1>1. IInv => SessionsTypeOK
  BY DEF IInv, Good, SessionsTypeOK
<1> QED
  BY <1>1, Invariance, PTL

\* However creates, refreshes, closes, restores and the check interleave, a
\* session waits in the queue at most once.
THEOREM QueueHasNoDuplicates == Spec => []QueuedOnce
<1>1. IInv => QueuedOnce
  BY DEF IInv, Good, Distinct, QueuedOnce
<1> QED
  BY <1>1, Invariance, PTL

\* Unless a close callback has raised or a session came back to an empty
\* queue, sessions that wait are looked after, whatever timers were cancelled.
THEOREM QueueIsWatched == Spec => []Watched
<1>1. IInv => Watched
  BY DEF IInv, Good, Looks, Watched
<1> QED
  BY <1>1, Invariance, PTL

=============================================================================
