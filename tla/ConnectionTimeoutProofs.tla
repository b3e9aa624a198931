---------------------- MODULE ConnectionTimeoutProofs ----------------------
(* Proofs about the connection timeout, for any connections, any timeout   *)
(* and any check range.  The keys of the queue are in the order of time,   *)
(* so that its first key is the first deadline; while no callback has      *)
(* raised, a call of the check is pending for it.  From both follow that   *)
(* no deadline passes and that a check takes exactly what is due.          *)
EXTENDS ConnectionTimeout, SequenceTheorems, TLAPS

\* The keys are in the order of time, and those of lists that are not empty.
InOrder ==
  /\ \A i, k \in 1..Len(order) : i < k => order[i] < order[k]
  /\ \A t \in Times : HasTs(t) <=> \E c \in Conns : In(c, t)
  /\ \A i \in 1..Len(order) : order[i] <= now + Timeout

\* A call of the check is pending that is not later than the first deadline.
Watched ==
  order # <<>> /\ ~lapsed /\ ~checking => \E t \in Times : t <= order[1] /\ timers[t] > 0

\* Who was not queued when started has one deadline at most.
Single == \A c \in Conns \ doubled, t \in Times : In(c, t) => t = last[c] + Timeout

\* Only a check that runs has connections to close.
Idle == batch # {} => checking

IInv == TimeoutTypeOK /\ InOrder /\ Watched /\ Single /\ Idle /\ OnTime /\ NotEarly

-----------------------------------------------------------------------------
(* The queue.                                                              *)

LEMMA Clock ==
  ASSUME TimeoutTypeOK
  PROVE  /\ now \in Nat /\ Timeout \in Nat \ {0} /\ CheckRange \in Nat
         /\ now + Timeout \in Times
         /\ \A t \in Times : t \in Nat
BY TimeConstants DEF TimeoutTypeOK, Times

LEMMA Keys ==
  ASSUME TimeoutTypeOK
  PROVE  /\ Len(order) \in Nat
         /\ \A i \in 1..Len(order) : order[i] \in Times
         /\ order = <<>> <=> Len(order) = 0
<1>1. order \in Seq(Times)
  BY DEF TimeoutTypeOK
<1>2. Len(order) \in Nat /\ \A i \in 1..Len(order) : order[i] \in Times
  BY <1>1, LenProperties, ElementOfSeq
<1>3. order = <<>> <=> Len(order) = 0
  BY <1>1, EmptySeq
<1> QED
  BY <1>2, <1>3

\* Leaving out a key.
LEMMA WithoutKey ==
  ASSUME TimeoutTypeOK, NEW i \in 1..Len(order)
  PROVE  /\ Without(i) \in Seq(Times) /\ Len(Without(i)) = Len(order) - 1
         /\ \A k \in 1..(Len(order) - 1) :
              Without(i)[k] = order[IF k < i THEN k ELSE k + 1]
<1> DEFINE a == SubSeq(order, 1, i - 1)
           b == SubSeq(order, i + 1, Len(order))
<1>1. /\ Len(order) \in Nat /\ i \in Nat /\ i - 1 \in Int /\ i + 1 \in Int
      /\ \A k \in 1..Len(order) : order[k] \in Times
  BY Keys
<1>2. /\ a \in Seq(Times) /\ Len(a) = i - 1
      /\ \A k \in 1..(i - 1) : a[k] = order[k]
  <2>1. \A k \in 1..(i - 1) : order[k] \in Times
    BY <1>1
  <2>2. /\ a \in Seq(Times)
        /\ Len(a) = IF 1 <= i - 1 THEN (i - 1) - 1 + 1 ELSE 0
        /\ \A k \in 1..((i - 1) - 1 + 1) : a[k] = order[1 + k - 1]
    BY <1>1, <2>1, SubSeqProperties
  <2> HIDE DEF a
  <2>3. QED
    BY <1>1, <2>2
<1>3. /\ b \in Seq(Times) /\ Len(b) = Len(order) - i
      /\ \A k \in 1..(Len(order) - i) : b[k] = order[k + i]
  <2>1. \A k \in (i + 1)..Len(order) : order[k] \in Times
    BY <1>1
  <2>2. /\ b \in Seq(Times)
        /\ Len(b) = IF i + 1 <= Len(order) THEN Len(order) - (i + 1) + 1 ELSE 0
        /\ \A k \in 1..(Len(order) - (i + 1) + 1) : b[k] = order[(i + 1) + k - 1]
    BY <1>1, <2>1, SubSeqProperties
  <2> HIDE DEF b
  <2>3. QED
    BY <1>1, <2>2
<1>4. /\ a \o b \in Seq(Times) /\ Len(a \o b) = Len(a) + Len(b)
      /\ \A k \in 1..(Len(a) + Len(b)) :
           (a \o b)[k] = IF k <= Len(a) THEN a[k] ELSE b[k - Len(a)]
  BY <1>2, <1>3, ConcatProperties
<1>5. Without(i) = a \o b
  BY DEF Without
<1> HIDE DEF a, b
<1>6. QED
  BY <1>1, <1>2, <1>3, <1>4, <1>5

\* What the queue is after a connection was taken from a list.
LEMMA Decremented ==
  ASSUME TimeoutTypeOK, NEW c \in Conns, NEW t \in Times, In(c, t),
         entries' = [entries EXCEPT ![t][c] = @ - 1]
  PROVE  /\ entries' \in [Times -> [Conns -> Nat]]
         /\ \A u \in Times, d \in Conns :
              entries'[u][d] = IF u = t /\ d = c THEN entries[u][d] - 1 ELSE entries[u][d]
         /\ entries'[t] = Nobody <=> \A d \in Conns : ~In(d, t)'
<1>1. entries \in [Times -> [Conns -> Nat]] /\ entries[t][c] \in Nat /\ entries[t][c] > 0
  BY DEF TimeoutTypeOK, In
<1>2. [entries[t] EXCEPT ![c] = @ - 1] \in [Conns -> Nat]
  BY <1>1
<1>3. entries' = [entries EXCEPT ![t] = [entries[t] EXCEPT ![c] = @ - 1]]
  BY <1>1
<1>4. entries' \in [Times -> [Conns -> Nat]]
  BY <1>1, <1>2, <1>3
<1>5. \A u \in Times, d \in Conns :
        entries'[u][d] = IF u = t /\ d = c THEN entries[u][d] - 1 ELSE entries[u][d]
  BY <1>1, <1>3
<1>6. entries'[t] \in [Conns -> Nat]
  BY <1>4
<1>7. ASSUME \A d \in Conns : ~In(d, t)' PROVE entries'[t] = Nobody
  <2>1. \A d \in Conns : entries'[t][d] \in Nat /\ ~(entries'[t][d] > 0)
    BY <1>6, <1>7 DEF In
  <2>2. ASSUME NEW d \in Conns PROVE entries'[t][d] = 0
    <3> DEFINE n == entries'[t][d]
    <3>1. n \in Nat /\ ~(n > 0)
      BY <2>1
    <3> HIDE DEF n
    <3>2. n = 0
      BY <3>1
    <3>3. QED
      BY <3>2 DEF n
  <2>3. QED
    BY <1>6, <2>2 DEF Nobody
<1>8. ASSUME entries'[t] = Nobody PROVE \A d \in Conns : ~In(d, t)'
  BY <1>8 DEF Nobody, In
<1>9. QED
  BY <1>4, <1>5, <1>7, <1>8

LEMMA RemovedKeeps ==
  ASSUME TimeoutTypeOK, InOrder, NEW c \in Conns, Removed(c), now' = now
  PROVE  /\ order' \in Seq(Times) /\ entries' \in [Times -> [Conns -> Nat]]
         /\ InOrder'
         /\ \A d \in Conns, t \in Times : In(d, t)' => In(d, t)
         /\ order' # <<>> => order # <<>> /\ order[1] <= order'[1]
         /\ D!Withdrawn(c)
<1>n. Len(order) \in Nat /\ \A i \in 1..Len(order) : order[i] \in Times /\ order[i] \in Nat
  BY Keys, Clock
<1>k. \A d \in Conns, t \in Times : In(d, t) => \E k \in 1..Len(order) : order[k] = t
  BY DEF InOrder, HasTs
<1>1. CASE /\ \A i \in 1..Len(order) : ~In(c, order[i])
           /\ UNCHANGED queueVars
  <2>1. order' = order /\ entries' = entries
    BY <1>1 DEF queueVars
  <2>2. order' # <<>> => order[1] <= order'[1]
    BY <1>n, <2>1, Keys
  <2>3. \A t \in Times : ~In(c, t)
    BY <1>1, <1>k
  <2>4. D!Withdrawn(c)
    BY <2>1, <2>3 DEF D!Withdrawn, D!IsDue, D!Times, Times, In
  <2>5. InOrder'
    BY <2>1 DEF InOrder, HasTs, In
  <2>6. QED
    BY <2>1, <2>2, <2>4, <2>5 DEF TimeoutTypeOK, In
<1>2. CASE \E i \in 1..Len(order) :
             /\ In(c, order[i]) /\ \A k \in 1..(i - 1) : ~In(c, order[k])
             /\ entries' = [entries EXCEPT ![order[i]][c] = @ - 1]
             /\ order' = IF entries'[order[i]] = Nobody THEN Without(i) ELSE order
  <2>1. PICK i \in 1..Len(order) :
             /\ In(c, order[i]) /\ \A k \in 1..(i - 1) : ~In(c, order[k])
             /\ entries' = [entries EXCEPT ![order[i]][c] = @ - 1]
             /\ order' = IF entries'[order[i]] = Nobody THEN Without(i) ELSE order
    BY <1>2
  <2>t. PICK t \in Times : t = order[i]
    BY <1>n
  <2>2. /\ entries' \in [Times -> [Conns -> Nat]]
        /\ \A u \in Times, d \in Conns :
             entries'[u][d] = IF u = t /\ d = c THEN entries[u][d] - 1 ELSE entries[u][d]
        /\ entries'[t] = Nobody <=> \A d \in Conns : ~In(d, t)'
    <3>1. In(c, t) /\ entries' = [entries EXCEPT ![t][c] = @ - 1]
      BY <2>1, <2>t
    <3>2. QED
      BY <3>1, Decremented
  <2>3. /\ Without(i) \in Seq(Times) /\ Len(Without(i)) = Len(order) - 1
        /\ \A k \in 1..(Len(order) - 1) :
             Without(i)[k] = order[IF k < i THEN k ELSE k + 1]
    BY WithoutKey
  <2>4. \A k, l \in 1..Len(order) : k < l => order[k] < order[l]
    BY DEF InOrder
  <2>5. D!Withdrawn(c)
    <3>1. ASSUME NEW u \in Times, u < t PROVE ~In(c, u)
      <4>1. SUFFICES ASSUME In(c, u) PROVE FALSE
        OBVIOUS
      <4>2. PICK k \in 1..Len(order) : order[k] = u
        BY <1>k, <4>1
      <4>3. k < i
        BY <1>n, <2>4, <3>1, <4>2, <2>t
      <4>4. QED
        BY <2>1, <4>1, <4>2, <4>3, <1>n
    <3>2. D!IsDue(c, t) /\ \A u \in D!Times : u < t => ~D!IsDue(c, u)
      BY <2>1, <3>1, <2>t DEF D!IsDue, D!Times, Times, In
    <3>3. t \in D!Times /\ entries' = [entries EXCEPT ![t][c] = @ - 1]
      BY <2>1, <2>t DEF D!Times, Times
    <3>4. QED
      BY <3>2, <3>3 DEF D!Withdrawn
  <2>6. \A d \in Conns, u \in Times : In(d, u)' => In(d, u)
    <3> SUFFICES ASSUME NEW d \in Conns, NEW u \in Times, In(d, u)' PROVE In(d, u)
      OBVIOUS
    <3>1. CASE u = t /\ d = c
      BY <3>1, <2>1, <2>t
    <3>2. CASE ~(u = t /\ d = c)
      <4>1. entries'[u][d] = entries[u][d]
        BY <3>2, <2>2
      <4>2. QED
        BY <4>1 DEF In
    <3>3. QED
      BY <3>1, <3>2
  <2>7. \A d \in Conns, u \in Times : u # t => (In(d, u)' <=> In(d, u))
    <3> SUFFICES ASSUME NEW d \in Conns, NEW u \in Times, u # t
                 PROVE  In(d, u)' <=> In(d, u)
      OBVIOUS
    <3>1. entries'[u][d] = entries[u][d]
      BY <2>2
    <3>2. QED
      BY <3>1 DEF In
  <2>8. \A u \in Times : HasTs(u) <=> \E d \in Conns : In(d, u)
    BY DEF InOrder
  <2>9. CASE entries'[t] = Nobody
    <3>1. order' = Without(i)
      BY <2>1, <2>9, <2>t
    <3>2. /\ Len(order') = Len(order) - 1
          /\ \A k \in 1..Len(order') : order'[k] = order[IF k < i THEN k ELSE k + 1]
      BY <3>1, <2>3
    <3>3. \A k, l \in 1..Len(order') : k < l => order'[k] < order'[l]
      <4> SUFFICES ASSUME NEW k \in 1..Len(order'), NEW l \in 1..Len(order'), k < l
                   PROVE  order'[k] < order'[l]
        OBVIOUS
      <4> DEFINE p == IF k < i THEN k ELSE k + 1
                 q == IF l < i THEN l ELSE l + 1
      <4>1. p \in 1..Len(order) /\ q \in 1..Len(order) /\ p < q
        BY <3>2, <1>n
      <4>2. order'[k] = order[p] /\ order'[l] = order[q]
        BY <3>2
      <4> HIDE DEF p, q
      <4>3. QED
        BY <2>4, <4>1, <4>2
    <3>4. \A u \in Times : HasTs(u)' <=> HasTs(u) /\ u # t
      <4>1. ASSUME NEW u \in Times, HasTs(u)' PROVE HasTs(u) /\ u # t
        <5>1. PICK k \in 1..Len(order') : order'[k] = u
          BY <4>1 DEF HasTs
        <5> DEFINE p == IF k < i THEN k ELSE k + 1
        <5>2. p \in 1..Len(order) /\ p # i
          BY <3>2, <1>n
        <5>3. order[p] = u
          BY <3>2, <5>1
        <5> HIDE DEF p
        <5>4. order[p] # order[i]
          BY <5>2, <2>4, <1>n
        <5>5. QED
          BY <5>2, <5>3, <5>4, <2>t DEF HasTs
      <4>2. ASSUME NEW u \in Times, HasTs(u), u # t PROVE HasTs(u)'
        <5>1. PICK p \in 1..Len(order) : order[p] = u
          BY <4>2 DEF HasTs
        <5>2. p # i
          BY <4>2, <5>1, <2>t
        <5> DEFINE k == IF p < i THEN p ELSE p - 1
        <5>3. k \in 1..Len(order') /\ (IF k < i THEN k ELSE k + 1) = p
          BY <3>2, <5>2, <1>n
        <5> HIDE DEF k
        <5>4. order'[k] = u
          BY <3>2, <5>1, <5>3
        <5>5. QED
          BY <5>3, <5>4 DEF HasTs
      <4>3. QED
        BY <4>1, <4>2
    <3>5. \A u \in Times : HasTs(u)' <=> \E d \in Conns : In(d, u)'
      BY <2>2, <2>7, <2>8, <2>9, <3>4
    <3>6. \A k \in 1..Len(order') : order'[k] <= now' + Timeout
      <4> SUFFICES ASSUME NEW k \in 1..Len(order') PROVE order'[k] <= now' + Timeout
        OBVIOUS
      <4> DEFINE p == IF k < i THEN k ELSE k + 1
      <4>1. p \in 1..Len(order) /\ order'[k] = order[p]
        BY <3>2, <1>n
      <4> HIDE DEF p
      <4>2. QED
        BY <4>1 DEF InOrder
    <3>7. InOrder'
      BY <3>3, <3>5, <3>6 DEF InOrder
    <3>8. order' # <<>> => order # <<>> /\ order[1] <= order'[1]
      <4> SUFFICES ASSUME order' # <<>> PROVE order # <<>> /\ order[1] <= order'[1]
        OBVIOUS
      <4>1. Len(order') # 0
        BY <3>1, <2>3, EmptySeq
      <4>2. 1 \in 1..Len(order) /\ order # <<>> /\ 1 \in 1..Len(order')
        BY <4>1, <3>2, <1>n, Keys
      <4> DEFINE p == IF 1 < i THEN 1 ELSE 2
      <4>3. p \in 1..Len(order) /\ order'[1] = order[p]
        BY <4>2, <3>2, <1>n
      <4>4. p = 1 \/ 1 < p
        OBVIOUS
      <4> HIDE DEF p
      <4>5. order[1] <= order[p]
        BY <4>2, <4>3, <4>4, <2>4, <1>n
      <4>6. QED
        BY <4>2, <4>3, <4>5
    <3>9. order' \in Seq(Times)
      BY <3>1, <2>3
    <3>10. QED
      BY <3>7, <3>8, <3>9, <2>2, <2>5, <2>6
  <2>10. CASE entries'[t] # Nobody
    <3>1. order' = order
      BY <2>1, <2>10, <2>t
    <3>2. \A u \in Times : HasTs(u)' <=> \E d \in Conns : In(d, u)'
      <4>1. \A u \in Times : HasTs(u)' <=> HasTs(u)
        BY <3>1 DEF HasTs
      <4>2. HasTs(t) /\ \E d \in Conns : In(d, t)'
        BY <2>10, <2>2, <2>t DEF HasTs
      <4>3. QED
        BY <4>1, <4>2, <2>7, <2>8
    <3>3. InOrder'
      BY <3>1, <3>2 DEF InOrder
    <3>4. order' # <<>> => order # <<>> /\ order[1] <= order'[1]
      BY <3>1, <1>n, Keys
    <3>5. QED
      BY <3>1, <3>3, <3>4, <2>2, <2>5, <2>6 DEF TimeoutTypeOK
  <2>11. QED
    BY <2>9, <2>10
<1>3. QED
  BY <1>1, <1>2 DEF Removed

\* The list of a key gets one more connection; a new key is the last one.
LEMMA AppendedKeeps ==
  ASSUME TimeoutTypeOK, InOrder, NEW c \in Conns, NEW t \in Times, t = now + Timeout,
         Appended(c, t), now' = now
  PROVE  /\ order' \in Seq(Times) /\ entries' \in [Times -> [Conns -> Nat]]
         /\ InOrder'
         /\ \A d \in Conns, u \in Times : In(d, u)' <=> In(d, u) \/ (d = c /\ u = t)
         /\ order' # <<>>
         /\ order'[1] = IF order = <<>> THEN t ELSE order[1]
<1>n. Len(order) \in Nat /\ \A i \in 1..Len(order) : order[i] \in Times /\ order[i] \in Nat
  BY Keys, Clock
<1>t. t \in Nat
  BY Clock
<1>1. entries \in [Times -> [Conns -> Nat]]
  BY DEF TimeoutTypeOK
<1>2. entries' = [entries EXCEPT ![t] = [entries[t] EXCEPT ![c] = @ + 1]]
  BY <1>1 DEF Appended
<1>3. [entries[t] EXCEPT ![c] = @ + 1] \in [Conns -> Nat]
  BY <1>1
<1>4. entries' \in [Times -> [Conns -> Nat]]
  BY <1>1, <1>2, <1>3
<1>5. \A u \in Times, d \in Conns :
        entries'[u][d] = IF u = t /\ d = c THEN entries[u][d] + 1 ELSE entries[u][d]
  BY <1>1, <1>2
<1>6. \A d \in Conns, u \in Times : In(d, u)' <=> In(d, u) \/ (d = c /\ u = t)
  <2> SUFFICES ASSUME NEW d \in Conns, NEW u \in Times
               PROVE  In(d, u)' <=> In(d, u) \/ (d = c /\ u = t)
    OBVIOUS
  <2>1. entries[u][d] \in Nat
    BY <1>1
  <2>2. CASE u = t /\ d = c
    <3>1. entries'[u][d] = entries[u][d] + 1
      BY <1>5, <2>2
    <3>2. QED
      BY <2>1, <2>2, <3>1 DEF In
  <2>3. CASE ~(u = t /\ d = c)
    <3>1. entries'[u][d] = entries[u][d]
      BY <1>5, <2>3
    <3>2. QED
      BY <2>3, <3>1 DEF In
  <2>4. QED
    BY <2>2, <2>3
<1>7. \A u \in Times : HasTs(u) <=> \E d \in Conns : In(d, u)
  BY DEF InOrder
<1>8. CASE HasTs(t)
  <2>1. order' = order
    BY <1>8 DEF Appended
  <2>2. order # <<>>
    BY <1>8, <1>n, Keys DEF HasTs
  <2>3. \A u \in Times : HasTs(u)' <=> \E d \in Conns : In(d, u)'
    <3>1. \A u \in Times : HasTs(u)' <=> HasTs(u)
      BY <2>1 DEF HasTs
    <3>2. QED
      BY <1>6, <1>7, <1>8, <3>1
  <2>4. InOrder'
    BY <2>1, <2>3 DEF InOrder
  <2>5. QED
    BY <1>4, <1>6, <2>1, <2>2, <2>4 DEF TimeoutTypeOK
<1>9. CASE ~HasTs(t)
  <2>1. order' = Append(order, t) /\ order \in Seq(Times)
    BY <1>9 DEF Appended, TimeoutTypeOK
  <2>2. /\ order' \in Seq(Times) /\ Len(order') = Len(order) + 1
        /\ \A i \in 1..Len(order) : order'[i] = order[i]
        /\ order'[Len(order) + 1] = t
    BY <2>1, AppendProperties
  <2>3. \A i \in 1..Len(order) : order[i] < t
    <3> SUFFICES ASSUME NEW i \in 1..Len(order) PROVE order[i] < t
      OBVIOUS
    <3>1. order[i] <= t
      BY DEF InOrder
    <3>2. order[i] # t
      BY <1>9 DEF HasTs
    <3>3. QED
      BY <3>1, <3>2, <1>n, <1>t
  <2>4. \A i, k \in 1..Len(order') : i < k => order'[i] < order'[k]
    <3> SUFFICES ASSUME NEW i \in 1..Len(order'), NEW k \in 1..Len(order'), i < k
                 PROVE  order'[i] < order'[k]
      OBVIOUS
    <3>1. i \in 1..Len(order) /\ order'[i] = order[i]
      BY <2>2, <1>n
    <3>2. CASE k = Len(order) + 1
      BY <2>2, <2>3, <3>1, <3>2
    <3>3. CASE k \in 1..Len(order)
      <4>1. order'[k] = order[k] /\ order[i] < order[k]
        BY <2>2, <3>1, <3>3 DEF InOrder
      <4>2. QED
        BY <3>1, <4>1
    <3>4. QED
      BY <2>2, <3>2, <3>3, <1>n
  <2>5. \A u \in Times : HasTs(u)' <=> HasTs(u) \/ u = t
    <3>1. ASSUME NEW u \in Times, HasTs(u)' PROVE HasTs(u) \/ u = t
      <4>1. PICK k \in 1..Len(order') : order'[k] = u
        BY <3>1 DEF HasTs
      <4>2. k \in 1..Len(order) \/ k = Len(order) + 1
        BY <2>2, <1>n
      <4>3. QED
        BY <2>2, <4>1, <4>2 DEF HasTs
    <3>2. ASSUME NEW u \in Times, HasTs(u) \/ u = t PROVE HasTs(u)'
      <4>1. CASE HasTs(u)
        <5>1. PICK k \in 1..Len(order) : order[k] = u
          BY <4>1 DEF HasTs
        <5>2. k \in 1..Len(order') /\ order'[k] = u
          BY <2>2, <5>1, <1>n
        <5>3. QED
          BY <5>2 DEF HasTs
      <4>2. CASE u = t
        <5>1. Len(order) + 1 \in 1..Len(order')
          BY <2>2, <1>n
        <5>2. QED
          BY <2>2, <4>2, <5>1 DEF HasTs
      <4>3. QED
        BY <3>2, <4>1, <4>2
    <3>3. QED
      BY <3>1, <3>2
  <2>6. \A u \in Times : HasTs(u)' <=> \E d \in Conns : In(d, u)'
    BY <1>6, <1>7, <2>5
  <2>7. \A i \in 1..Len(order') : order'[i] <= now' + Timeout
    <3> SUFFICES ASSUME NEW i \in 1..Len(order') PROVE order'[i] <= t
      OBVIOUS
    <3>1. CASE i \in 1..Len(order)
      BY <3>1, <2>2, <2>3, <1>n, <1>t
    <3>2. CASE i = Len(order) + 1
      BY <3>2, <2>2, <1>t
    <3>3. QED
      BY <2>2, <3>1, <3>2, <1>n
  <2>8. InOrder'
    BY <2>4, <2>6, <2>7 DEF InOrder
  <2>9. order' # <<>> /\ order'[1] = IF order = <<>> THEN t ELSE order[1]
    <3>1. order' # <<>>
      BY <2>2, <1>n, EmptySeq
    <3>2. CASE order = <<>>
      <4>1. Len(order) = 0
        BY <3>2, Keys
      <4>2. order'[1] = t
        BY <2>2, <4>1
      <4>3. QED
        BY <3>1, <3>2, <4>2
    <3>3. CASE order # <<>>
      <4>1. Len(order) # 0
        BY <3>3, Keys
      <4>2. 1 \in 1..Len(order)
        BY <1>n, <4>1
      <4>3. QED
        BY <3>3, <4>2, <2>2
    <3>4. QED
      BY <3>1, <3>2, <3>3
  <2>10. QED
    BY <1>4, <1>6, <2>2, <2>8, <2>9
<1>10. QED
  BY <1>8, <1>9

\* A check takes what is due, all of it and nothing else.
LEMMA TakenKeeps ==
  ASSUME TimeoutTypeOK, InOrder, NEW n \in 0..Len(order), NEW until \in Nat,
         Expired(n, until), now' = now,
         order' = SubSeq(order, n + 1, Len(order)),
         entries' = [u \in Times |-> IF u \in Taken(n) THEN Nobody ELSE entries[u]]
  PROVE  /\ order' \in Seq(Times) /\ entries' \in [Times -> [Conns -> Nat]]
         /\ InOrder'
         /\ \A d \in Conns, u \in Times : In(d, u)' => In(d, u)
         /\ \A u \in Times : HasTs(u) => (u \in Taken(n) <=> u <= until)
         /\ \A u \in Times : ~HasTs(u) => entries[u] = Nobody
<1>n. Len(order) \in Nat /\ \A i \in 1..Len(order) : order[i] \in Times /\ order[i] \in Nat
  BY Keys, Clock
<1>1. /\ order' \in Seq(Times) /\ Len(order') = Len(order) - n
      /\ \A k \in 1..(Len(order) - n) : order'[k] = order[n + k]
  <2>1. \A k \in (n + 1)..Len(order) : order[k] \in Times
    BY <1>n
  <2>2. /\ order' \in Seq(Times)
        /\ Len(order') = IF n + 1 <= Len(order) THEN Len(order) - (n + 1) + 1 ELSE 0
        /\ \A k \in 1..(Len(order) - (n + 1) + 1) : order'[k] = order[(n + 1) + k - 1]
    BY <1>n, <2>1, SubSeqProperties
  <2>3. ASSUME NEW k \in 1..(Len(order) - n) PROVE order'[k] = order[n + k]
    <3>1. (n + 1) + k - 1 = n + k /\ k \in 1..(Len(order) - (n + 1) + 1)
      BY <1>n
    <3>2. order'[k] = order[(n + 1) + k - 1]
      BY <2>2, <3>1
    <3>3. QED
      BY <3>1, <3>2
  <2>4. Len(order') = Len(order) - n
    BY <2>2, <1>n
  <2>5. QED
    BY <2>2, <2>3, <2>4
<1>2. \A i, k \in 1..Len(order) : i < k => order[i] < order[k]
  BY DEF InOrder
<1>3. \A i \in 1..Len(order) : order[i] <= until <=> i <= n
  <2> SUFFICES ASSUME NEW i \in 1..Len(order) PROVE order[i] <= until <=> i <= n
    OBVIOUS
  <2>1. CASE i <= n
    <3>1. i \in 1..n
      BY <2>1, <1>n
    <3>2. QED
      BY <2>1, <3>1 DEF Expired
  <2>2. CASE ~(i <= n)
    <3>1. n < Len(order) /\ n + 1 \in 1..Len(order) /\ (i = n + 1 \/ n + 1 < i)
      BY <2>2, <1>n
    <3>2. order[n + 1] > until
      BY <3>1 DEF Expired
    <3>3. order[n + 1] <= order[i]
      BY <3>1, <1>2, <1>n
    <3>4. QED
      BY <3>1, <3>2, <3>3, <2>2, <1>n
  <2>3. QED
    BY <2>1, <2>2
<1>4. \A i \in 1..Len(order) : order[i] \in Taken(n) <=> i <= n
  <2>1. ASSUME NEW i \in 1..Len(order), i <= n PROVE order[i] \in Taken(n)
    <3>1. i \in 1..n
      BY <2>1, <1>n
    <3>2. QED
      BY <3>1 DEF Taken
  <2>2. ASSUME NEW i \in 1..Len(order), order[i] \in Taken(n) PROVE i <= n
    <3>1. PICK k \in 1..n : order[k] = order[i]
      BY <2>2 DEF Taken
    <3>2. k \in 1..Len(order)
      BY <1>n
    <3>3. k = i
      BY <3>1, <3>2, <1>2, <1>n
    <3>4. QED
      BY <3>3
  <2>3. QED
    BY <2>1, <2>2
<1>5. \A u \in Times : HasTs(u) => (u \in Taken(n) <=> u <= until)
  BY <1>3, <1>4 DEF HasTs
<1>6. entries' \in [Times -> [Conns -> Nat]] /\ entries \in [Times -> [Conns -> Nat]]
  BY DEF TimeoutTypeOK, Nobody
<1>7. \A d \in Conns, u \in Times : In(d, u)' <=> In(d, u) /\ u \notin Taken(n)
  <2> SUFFICES ASSUME NEW d \in Conns, NEW u \in Times
               PROVE  In(d, u)' <=> In(d, u) /\ u \notin Taken(n)
    OBVIOUS
  <2>1. CASE u \in Taken(n)
    <3>1. entries'[u][d] = 0
      BY <2>1 DEF Nobody
    <3>2. QED
      BY <2>1, <3>1 DEF In
  <2>2. CASE u \notin Taken(n)
    <3>1. entries'[u] = entries[u]
      BY <2>2
    <3>2. QED
      BY <2>2, <3>1 DEF In
  <2>3. QED
    BY <2>1, <2>2
<1>8. \A u \in Times : HasTs(u) <=> \E d \in Conns : In(d, u)
  BY DEF InOrder
<1>9. \A u \in Times : HasTs(u)' <=> HasTs(u) /\ u \notin Taken(n)
  <2>1. ASSUME NEW u \in Times, HasTs(u)' PROVE HasTs(u) /\ u \notin Taken(n)
    <3>1. PICK k \in 1..Len(order') : order'[k] = u
      BY <2>1 DEF HasTs
    <3>2. n + k \in 1..Len(order) /\ order[n + k] = u /\ ~(n + k <= n)
      BY <1>1, <3>1, <1>n
    <3>3. QED
      BY <3>2, <1>4 DEF HasTs
  <2>2. ASSUME NEW u \in Times, HasTs(u), u \notin Taken(n) PROVE HasTs(u)'
    <3>1. PICK i \in 1..Len(order) : order[i] = u
      BY <2>2 DEF HasTs
    <3>2. ~(i <= n)
      BY <3>1, <2>2, <1>4
    <3>3. i - n \in 1..(Len(order) - n) /\ n + (i - n) = i
      BY <3>2, <1>n
    <3>4. i - n \in 1..Len(order') /\ order'[i - n] = u
      BY <3>1, <3>3, <1>1
    <3>5. QED
      BY <3>4 DEF HasTs
  <2>3. QED
    BY <2>1, <2>2
<1>10. InOrder'
  <2>1. \A i, k \in 1..Len(order') : i < k => order'[i] < order'[k]
    <3> SUFFICES ASSUME NEW i \in 1..Len(order'), NEW k \in 1..Len(order'), i < k
                 PROVE  order'[i] < order'[k]
      OBVIOUS
    <3>1. n + i \in 1..Len(order) /\ n + k \in 1..Len(order) /\ n + i < n + k
      BY <1>1, <1>n
    <3>2. order'[i] = order[n + i] /\ order'[k] = order[n + k]
      BY <1>1
    <3>3. QED
      BY <1>2, <3>1, <3>2
  <2>2. \A u \in Times : HasTs(u)' <=> \E d \in Conns : In(d, u)'
    BY <1>7, <1>8, <1>9
  <2>3. \A i \in 1..Len(order') : order'[i] <= now' + Timeout
    <3> SUFFICES ASSUME NEW i \in 1..Len(order') PROVE order'[i] <= now' + Timeout
      OBVIOUS
    <3>1. n + i \in 1..Len(order) /\ order'[i] = order[n + i]
      BY <1>1, <1>n
    <3>2. QED
      BY <3>1 DEF InOrder
  <2>4. QED
    BY <2>1, <2>2, <2>3 DEF InOrder
<1>11. ASSUME NEW u \in Times, ~HasTs(u) PROVE entries[u] = Nobody
  <2>1. entries[u] \in [Conns -> Nat]
    BY <1>6
  <2>2. ASSUME NEW d \in Conns PROVE entries[u][d] = 0
    <3> DEFINE m == entries[u][d]
    <3>1. m \in Nat
      BY <2>1
    <3>2. ~(m > 0)
      BY <1>8, <1>11 DEF In
    <3> HIDE DEF m
    <3>3. m = 0
      BY <3>1, <3>2
    <3>4. QED
      BY <3>3 DEF m
  <2>3. QED
    BY <2>1, <2>2 DEF Nobody
<1>12. QED
  BY <1>1, <1>5, <1>6, <1>7, <1>10, <1>11

-----------------------------------------------------------------------------
(* The steps.  Each keeps the invariant and is one of the abstract steps.  *)

\* Who is in a list has a key, which is not before the first one.
LEMMA FirstDeadline ==
  ASSUME TimeoutTypeOK, InOrder, NEW c \in Conns, NEW t \in Times, In(c, t)
  PROVE  order # <<>> /\ order[1] \in Times /\ order[1] <= t
<1>n. Len(order) \in Nat /\ \A i \in 1..Len(order) : order[i] \in Times /\ order[i] \in Nat
  BY Keys, Clock
<1>1. PICK k \in 1..Len(order) : order[k] = t
  BY DEF InOrder, HasTs
<1>2. Len(order) # 0 /\ 1 \in 1..Len(order) /\ (k = 1 \/ 1 < k)
  BY <1>n
<1>3. order[1] <= order[k]
  BY <1>2, <1>n DEF InOrder
<1>4. QED
  BY <1>1, <1>2, <1>3, <1>n, Keys

LEMMA FirstKey ==
  ASSUME TimeoutTypeOK, order # <<>>
  PROVE  order[1] \in Times
<1>1. Len(order) \in Nat /\ Len(order) # 0
  BY Keys
<1>2. 1 \in 1..Len(order)
  BY <1>1
<1>3. QED
  BY <1>2, Keys

\* Somebody is due as long as there are keys.
LEMMA SomebodyDue ==
  ASSUME TimeoutTypeOK, InOrder
  PROVE  order # <<>> <=> \E c \in Conns, t \in Times : In(c, t)
<1>1. ASSUME order # <<>> PROVE \E c \in Conns, t \in Times : In(c, t)
  <2>1. Len(order) \in Nat /\ Len(order) # 0
    BY <1>1, Keys
  <2>2. 1 \in 1..Len(order)
    BY <2>1
  <2>3. order[1] \in Times /\ HasTs(order[1])
    BY <2>2, Keys DEF HasTs
  <2>4. QED
    BY <2>3 DEF InOrder
<1>2. QED
  BY <1>1, FirstDeadline

LEMMA InitKeeps == Init => IInv /\ D!Init
<1> SUFFICES ASSUME Init PROVE IInv /\ D!Init
  OBVIOUS
<1>c. Timeout \in Nat \ {0} /\ CheckRange \in Nat /\ MaxNow \in Nat /\ MaxStarts \in Nat
  BY TimeConstants
<1>0. \A t \in Times, c \in Conns : ~In(c, t)
  <2> SUFFICES ASSUME NEW t \in Times, NEW c \in Conns PROVE ~In(c, t)
    OBVIOUS
  <2>1. entries[t] = Nobody
    BY DEF Init
  <2>2. entries[t][c] = 0
    BY <2>1 DEF Nobody
  <2>3. QED
    BY <2>2 DEF In
<1>1. TimeoutTypeOK
  <2>1. Nobody \in [Conns -> Nat]
    BY DEF Nobody
  <2>2. entries \in [Times -> [Conns -> Nat]] /\ timers \in [Times -> Nat]
    BY <2>1 DEF Init
  <2>3. order \in Seq(Times)
    BY EmptySeq DEF Init
  <2>4. now \in 0..MaxNow /\ starts \in 0..MaxStarts /\ last \in [Conns -> 0..MaxNow]
    BY <1>c DEF Init
  <2>5. QED
    BY <2>2, <2>3, <2>4 DEF Init, TimeoutTypeOK
<1>2. InOrder
  <2>1. Len(order) = 0
    BY DEF Init
  <2>2. \A i \in 1..Len(order) : FALSE
    BY <2>1
  <2>3. QED
    BY <1>0, <2>2 DEF InOrder, HasTs
<1>3. Watched /\ Idle
  BY DEF Init, Watched, Idle
<1>4. Single /\ OnTime
  BY <1>0 DEF Single, OnTime
<1>5. NotEarly
  BY DEF Init, NotEarly
<1>6. D!Init
  BY DEF Init, D!Init, D!Times, Times, D!Nobody, Nobody
<1>7. QED
  BY <1>1, <1>2, <1>3, <1>4, <1>5, <1>6 DEF IInv

LEMMA StartKeeps ==
  ASSUME IInv, NEW c \in Conns, Start(c)
  PROVE  IInv' /\ D!Start(c)
<1> DEFINE t == now + Timeout
<1>c. now \in Nat /\ now \in 0..MaxNow /\ Timeout \in Nat /\ t \in Times /\ t \in Nat /\ now <= t
  BY Clock DEF IInv, TimeoutTypeOK
<1>s. /\ starts' \in 0..MaxStarts /\ now' = now /\ checking' = checking /\ batch' = batch
      /\ ~checking /\ Appended(c, t)
      /\ registered' = registered \cup {c}
      /\ timers' = IF WasEmpty THEN [timers EXCEPT ![t] = @ + 1] ELSE timers
      /\ lapsed' = (lapsed /\ ~WasEmpty)
      /\ last' = [last EXCEPT ![c] = now]
      /\ doubled' = IF Queued(c) THEN doubled \cup {c} ELSE doubled \ {c}
  BY TimeConstants DEF Start, IInv, TimeoutTypeOK
<1>i. TimeoutTypeOK /\ InOrder /\ Watched /\ Single /\ Idle /\ OnTime /\ NotEarly
  BY DEF IInv
<1>b. batch = {}
  BY <1>s, <1>i DEF Idle
<1>1. /\ order' \in Seq(Times) /\ entries' \in [Times -> [Conns -> Nat]]
      /\ InOrder'
      /\ \A d \in Conns, u \in Times : In(d, u)' <=> In(d, u) \/ (d = c /\ u = t)
      /\ order' # <<>>
      /\ order'[1] = IF order = <<>> THEN t ELSE order[1]
  BY <1>c, <1>s, <1>i, AppendedKeeps
<1>e. order # <<>> <=> \E d \in Conns, u \in Times : In(d, u)
  BY <1>i, SomebodyDue
<1>2. D!Start(c)
  <2>1. entries' = [entries EXCEPT ![now + Timeout][c] = @ + 1]
    BY <1>s DEF Appended
  <2>2. lapsed' = (lapsed /\ \E d \in Conns, u \in D!Times : D!IsDue(d, u))
    BY <1>s, <1>e DEF WasEmpty, D!Times, Times, D!IsDue, In
  <2>3. QED
    BY <1>s, <1>b, <2>1, <2>2 DEF D!Start
<1> HIDE DEF t
<1>3. timers \in [Times -> Nat] /\ timers' \in [Times -> Nat]
  BY <1>s, <1>i, <1>c DEF TimeoutTypeOK
<1>4. last' \in [Conns -> 0..MaxNow] /\ last \in [Conns -> 0..MaxNow]
  BY <1>s, <1>i, <1>c DEF TimeoutTypeOK
<1>5. TimeoutTypeOK'
  BY <1>1, <1>3, <1>4, <1>s, <1>i DEF TimeoutTypeOK
<1>6. Watched'
  <2> SUFFICES ASSUME ~lapsed' PROVE \E u \in Times : u <= order'[1] /\ timers'[u] > 0
    BY DEF Watched
  <2>1. CASE order = <<>>
    <3>1. timers'[t] = timers[t] + 1 /\ timers[t] \in Nat /\ order'[1] = t
      BY <2>1, <1>s, <1>1, <1>3, <1>c DEF WasEmpty
    <3>2. t <= order'[1] /\ timers'[t] > 0
      BY <3>1, <1>c
    <3>3. QED
      BY <3>2, <1>c
  <2>2. CASE order # <<>>
    <3>1. ~lapsed /\ timers' = timers /\ order'[1] = order[1]
      BY <2>2, <1>s, <1>1, <1>i DEF WasEmpty, TimeoutTypeOK
    <3>2. QED
      BY <2>2, <3>1, <1>s, <1>i DEF Watched
  <2>3. QED
    BY <2>1, <2>2
<1>7. Single'
  <2> SUFFICES ASSUME NEW d \in Conns, d \notin doubled', NEW u \in Times, In(d, u)'
               PROVE  u = last'[d] + Timeout
    BY DEF Single
  <2>1. CASE d = c
    <3>1. ~Queued(c)
      BY <2>1, <1>s
    <3>2. u = t
      BY <2>1, <3>1, <1>1 DEF Queued
    <3>3. last'[d] = now
      BY <2>1, <1>s, <1>4
    <3>4. QED
      BY <3>2, <3>3 DEF t
  <2>2. CASE d # c
    <3>1. d \notin doubled
      BY <2>2, <1>s
    <3>2. In(d, u) /\ last'[d] = last[d]
      BY <2>2, <1>s, <1>1, <1>4
    <3>3. QED
      BY <3>1, <3>2, <1>i DEF Single
  <2>3. QED
    BY <2>1, <2>2
<1>8. OnTime'
  <2> SUFFICES ASSUME NEW d \in Conns, NEW u \in Times, In(d, u)'
               PROVE  lapsed' \/ now <= u
    BY <1>s DEF OnTime
  <2>1. CASE In(d, u)
    <3>1. order # <<>>
      BY <2>1, <1>e
    <3>2. lapsed' = lapsed
      BY <3>1, <1>s, <1>i DEF WasEmpty, TimeoutTypeOK
    <3>3. QED
      BY <2>1, <3>2, <1>i DEF OnTime
  <2>2. CASE u = t
    BY <2>2, <1>c
  <2>3. QED
    BY <2>1, <2>2, <1>1
<1>9. Idle' /\ NotEarly'
  BY <1>s, <1>b DEF Idle, NotEarly
<1>10. QED
  BY <1>1, <1>2, <1>5, <1>6, <1>7, <1>8, <1>9 DEF IInv

\* What steps that only take deadlines away keep.
LEMMA FewerKeeps ==
  ASSUME IInv, now' = now, lapsed => lapsed', UNCHANGED <<last, doubled>>,
         \A d \in Conns, u \in Times : In(d, u)' => In(d, u)
  PROVE  Single' /\ OnTime'
<1>1. Single'
  <2> SUFFICES ASSUME NEW d \in Conns, d \notin doubled', NEW u \in Times, In(d, u)'
               PROVE  u = last'[d] + Timeout
    BY DEF Single
  <2>1. QED
    BY DEF IInv, Single
<1>2. OnTime'
  <2> SUFFICES ASSUME NEW d \in Conns, NEW u \in Times, In(d, u)'
               PROVE  lapsed' \/ now' <= u
    BY DEF OnTime
  <2>1. lapsed \/ now <= u
    BY DEF IInv, OnTime
  <2>2. QED
    BY <2>1
<1>3. QED
  BY <1>1, <1>2

LEMMA StopKeeps ==
  ASSUME IInv, NEW c \in Conns, Stop(c)
  PROVE  IInv' /\ D!Stop(c)
<1>i. TimeoutTypeOK /\ InOrder /\ Watched /\ Idle /\ NotEarly
  BY DEF IInv
<1>s. ~checking /\ Removed(c) /\ UNCHANGED <<now, callVars, history>>
  BY DEF Stop
<1>u. /\ now' = now /\ registered' = registered /\ timers' = timers /\ checking' = checking
      /\ batch' = batch /\ lapsed' = lapsed /\ last' = last /\ doubled' = doubled
      /\ starts' = starts
  BY <1>s DEF callVars, history
<1>b. batch = {}
  BY <1>s, <1>i DEF Idle
<1>1. /\ order' \in Seq(Times) /\ entries' \in [Times -> [Conns -> Nat]]
      /\ InOrder'
      /\ \A d \in Conns, t \in Times : In(d, t)' => In(d, t)
      /\ order' # <<>> => order # <<>> /\ order[1] <= order'[1]
      /\ D!Withdrawn(c)
  BY <1>i, <1>s, <1>u, RemovedKeeps
<1>2. TimeoutTypeOK'
  BY <1>1, <1>u, <1>i DEF TimeoutTypeOK
<1>3. Watched'
  <2> SUFFICES ASSUME order' # <<>>, ~lapsed PROVE \E t \in Times : t <= order'[1] /\ timers[t] > 0
    BY <1>u DEF Watched
  <2>1. PICK t \in Times : t <= order[1] /\ timers[t] > 0
    BY <1>1, <1>s, <1>i DEF Watched
  <2>2. order[1] \in Nat /\ order'[1] \in Nat
    <3>1. order[1] \in Times
      BY <1>1, <1>i, FirstKey
    <3>2. order'[1] \in Times
      <4>1. Len(order') \in Nat /\ Len(order') # 0
        BY <1>1, EmptySeq
      <4>2. 1 \in 1..Len(order')
        BY <4>1
      <4>3. QED
        BY <1>1, <4>2, ElementOfSeq
    <3>3. QED
      BY <3>1, <3>2, <1>i, Clock
  <2>3. t <= order'[1]
    BY <2>1, <2>2, <1>1, <1>i, Clock
  <2>4. QED
    BY <2>1, <2>3
<1>4. Single' /\ OnTime'
  BY <1>1, <1>u, FewerKeeps
<1>5. Idle' /\ NotEarly'
  BY <1>u, <1>b DEF Idle, NotEarly
<1>6. D!Stop(c)
  BY <1>1, <1>u, <1>b DEF D!Stop
<1>7. QED
  BY <1>1, <1>2, <1>3, <1>4, <1>5, <1>6 DEF IInv

LEMMA StartCheckKeeps ==
  ASSUME IInv, NEW t \in Times, StartCheck(t)
  PROVE  IInv' /\ \E until \in 0..(MaxNow + CheckRange) : D!Expire(until)
<1>i. TimeoutTypeOK /\ InOrder /\ Single /\ Idle
  BY DEF IInv
<1>s. /\ ~checking /\ checking' = TRUE /\ timers[t] > 0 /\ t <= now
      /\ timers' = [timers EXCEPT ![t] = @ - 1]
      /\ now' = now /\ registered' = registered /\ lapsed' = lapsed
      /\ last' = last /\ doubled' = doubled /\ starts' = starts
  BY DEF StartCheck, history
<1>b. batch = {}
  BY <1>s, <1>i DEF Idle
<1> DEFINE until == Until(t)
<1>c. /\ t \in Nat /\ now \in Nat /\ CheckRange \in Nat /\ MaxNow \in Nat /\ now <= MaxNow
      /\ until \in 0..(MaxNow + CheckRange) /\ until \in Nat /\ until <= now + CheckRange
  BY <1>i, <1>s, Clock, TimeConstants DEF Until, TimeoutTypeOK
<1>1. PICK n \in 0..Len(order) :
       /\ Expired(n, until)
       /\ order' = SubSeq(order, n + 1, Len(order))
       /\ batch' = {c \in Conns : \E u \in Taken(n) : In(c, u)}
       /\ entries' = [u \in Times |-> IF u \in Taken(n) THEN Nobody ELSE entries[u]]
  BY DEF StartCheck
<1> HIDE DEF until
<1>2. /\ order' \in Seq(Times) /\ entries' \in [Times -> [Conns -> Nat]]
      /\ InOrder'
      /\ \A d \in Conns, u \in Times : In(d, u)' => In(d, u)
      /\ \A u \in Times : HasTs(u) => (u \in Taken(n) <=> u <= until)
      /\ \A u \in Times : ~HasTs(u) => entries[u] = Nobody
  BY <1>i, <1>1, <1>c, <1>s, TakenKeeps
<1>k. \A u \in Times : HasTs(u) <=> \E d \in Conns : In(d, u)
  BY <1>i DEF InOrder
<1>t. Taken(n) \subseteq Times /\ \A u \in Taken(n) : HasTs(u)
  BY <1>i, Keys DEF Taken, HasTs
<1>3. D!Expire(until)
  <2>1. batch' = {c \in Conns : \E u \in Times : u <= until /\ In(c, u)}
    BY <1>1, <1>2, <1>k, <1>t
  <2>2. \A u \in Times : (IF u \in Taken(n) THEN Nobody ELSE entries[u])
                         = (IF u <= until THEN Nobody ELSE entries[u])
    BY <1>2, <1>t
  <2>3. entries' = [u \in Times |-> IF u <= until THEN Nobody ELSE entries[u]]
    BY <1>1, <2>2
  <2>4. QED
    BY <2>1, <2>3, <1>b, <1>c, <1>s
    DEF D!Expire, D!Times, Times, D!IsDue, In, D!Nobody, Nobody
<1>4. TimeoutTypeOK'
  <2>1. timers' \in [Times -> Nat]
    BY <1>s, <1>i DEF TimeoutTypeOK
  <2>2. batch' \subseteq Conns
    BY <1>1
  <2>3. QED
    BY <1>2, <2>1, <2>2, <1>s, <1>i DEF TimeoutTypeOK
<1>5. Watched' /\ Idle'
  BY <1>s DEF Watched, Idle
<1>6. Single' /\ OnTime'
  BY <1>2, <1>s, FewerKeeps
<1>7. NotEarly'
  <2> SUFFICES ASSUME NEW c \in batch', c \notin doubled
               PROVE  last[c] + Timeout <= now + CheckRange
    BY <1>s DEF NotEarly
  <2>1. c \in Conns /\ \E u \in Taken(n) : In(c, u)
    BY <1>1
  <2>2. PICK u \in Taken(n) : In(c, u)
    BY <2>1
  <2>3. u \in Times /\ HasTs(u)
    BY <1>t
  <2>4. u <= until /\ u = last[c] + Timeout
    BY <2>1, <2>2, <2>3, <1>2, <1>i DEF Single
  <2>5. u \in Nat
    BY <2>3, <1>i, Clock
  <2>6. u <= now + CheckRange
    BY <2>4, <2>5, <1>c
  <2>7. QED
    BY <2>4, <2>6
<1>8. QED
  BY <1>2, <1>3, <1>4, <1>5, <1>6, <1>7, <1>c DEF IInv

\* What a call of close_connection does to the queue.
LEMMA ClosedKeeps ==
  ASSUME IInv, NEW c \in Conns, Removed(c) \/ UNCHANGED queueVars, now' = now
  PROVE  /\ order' \in Seq(Times) /\ entries' \in [Times -> [Conns -> Nat]]
         /\ InOrder'
         /\ \A d \in Conns, t \in Times : In(d, t)' => In(d, t)
         /\ D!Withdrawn(c) \/ entries' = entries
<1>i. TimeoutTypeOK /\ InOrder
  BY DEF IInv
<1>1. CASE Removed(c)
  BY <1>1, <1>i, RemovedKeeps
<1>2. CASE UNCHANGED queueVars
  <2>1. order' = order /\ entries' = entries
    BY <1>2 DEF queueVars
  <2>2. InOrder'
    BY <2>1, <1>i DEF InOrder, HasTs, In
  <2>3. QED
    BY <2>1, <2>2, <1>i DEF TimeoutTypeOK, In
<1>3. QED
  BY <1>1, <1>2

LEMMA CloseKeeps ==
  ASSUME IInv, NEW c \in Conns, Close(c)
  PROVE  IInv' /\ D!Close(c)
<1>i. TimeoutTypeOK /\ NotEarly
  BY DEF IInv
<1>s. /\ checking /\ c \in batch /\ batch' = batch \ {c}
      /\ Removed(c) \/ UNCHANGED queueVars
      /\ registered' = registered \ {c}
      /\ now' = now /\ timers' = timers /\ checking' = checking /\ lapsed' = lapsed
      /\ last' = last /\ doubled' = doubled /\ starts' = starts
  BY DEF Close, history
<1>1. /\ order' \in Seq(Times) /\ entries' \in [Times -> [Conns -> Nat]]
      /\ InOrder'
      /\ \A d \in Conns, t \in Times : In(d, t)' => In(d, t)
      /\ D!Withdrawn(c) \/ entries' = entries
  BY <1>s, ClosedKeeps
<1>2. TimeoutTypeOK'
  BY <1>1, <1>s, <1>i DEF TimeoutTypeOK
<1>3. Watched' /\ Idle'
  BY <1>s DEF Watched, Idle
<1>4. Single' /\ OnTime'
  BY <1>1, <1>s, FewerKeeps
<1>5. NotEarly'
  BY <1>s, <1>i DEF NotEarly
<1>6. D!Close(c)
  BY <1>1, <1>s DEF D!Close
<1>7. QED
  BY <1>1, <1>2, <1>3, <1>4, <1>5, <1>6 DEF IInv

LEMMA CallbackRaisesKeeps ==
  ASSUME IInv, NEW c \in Conns, CallbackRaises(c)
  PROVE  IInv' /\ D!Fail(c)
<1>i. TimeoutTypeOK /\ InOrder
  BY DEF IInv
<1>s. /\ c \in batch /\ batch' = {} /\ checking' = FALSE /\ lapsed' = TRUE
      /\ Removed(c) /\ registered' = registered \ {c}
      /\ now' = now /\ timers' = timers
      /\ last' = last /\ doubled' = doubled /\ starts' = starts
  BY DEF CallbackRaises, history
<1>1. /\ order' \in Seq(Times) /\ entries' \in [Times -> [Conns -> Nat]]
      /\ InOrder'
      /\ \A d \in Conns, t \in Times : In(d, t)' => In(d, t)
      /\ D!Withdrawn(c)
  BY <1>i, <1>s, RemovedKeeps
<1>2. TimeoutTypeOK'
  BY <1>1, <1>s, <1>i DEF TimeoutTypeOK
<1>3. Watched' /\ Idle' /\ NotEarly'
  BY <1>s DEF Watched, Idle, NotEarly
<1>4. Single' /\ OnTime'
  BY <1>1, <1>s, FewerKeeps
<1>5. D!Fail(c)
  BY <1>1, <1>s DEF D!Fail
<1>6. QED
  BY <1>1, <1>2, <1>3, <1>4, <1>5 DEF IInv

LEMMA EndCheckKeeps ==
  ASSUME IInv, EndCheck
  PROVE  IInv' /\ UNCHANGED D!vars
<1>i. TimeoutTypeOK /\ InOrder
  BY DEF IInv
<1>s. /\ checking /\ batch = {} /\ checking' = FALSE
      /\ timers' = IF WasEmpty THEN timers ELSE [timers EXCEPT ![order[1]] = @ + 1]
      /\ now' = now /\ order' = order /\ entries' = entries /\ registered' = registered
      /\ batch' = batch /\ lapsed' = lapsed
      /\ last' = last /\ doubled' = doubled /\ starts' = starts
  BY DEF EndCheck, queueVars, history
<1>1. ASSUME order # <<>> PROVE order[1] \in Times
  BY <1>1, <1>i, FirstKey
<1>2. timers \in [Times -> Nat] /\ timers' \in [Times -> Nat]
  BY <1>s, <1>i, <1>1 DEF WasEmpty, TimeoutTypeOK
<1>3. TimeoutTypeOK'
  BY <1>2, <1>s, <1>i DEF TimeoutTypeOK
<1>4. InOrder'
  BY <1>s, <1>i DEF InOrder, HasTs, In
<1>5. Watched'
  <2> SUFFICES ASSUME order # <<>> PROVE \E t \in Times : t <= order[1] /\ timers'[t] > 0
    BY <1>s DEF Watched
  <2>1. timers'[order[1]] = timers[order[1]] + 1 /\ timers[order[1]] \in Nat
    BY <1>1, <1>2, <1>s DEF WasEmpty
  <2>2. order[1] \in Nat
    BY <1>1, <1>i, Clock
  <2>3. order[1] <= order[1] /\ timers'[order[1]] > 0
    BY <2>1, <2>2
  <2>4. QED
    BY <1>1, <2>3
<1>6. Single' /\ OnTime'
  BY <1>s, FewerKeeps DEF In
<1>7. Idle' /\ NotEarly'
  BY <1>s DEF Idle, NotEarly
<1>8. UNCHANGED D!vars
  BY <1>s DEF D!vars
<1>9. QED
  BY <1>3, <1>4, <1>5, <1>6, <1>7, <1>8 DEF IInv

LEMMA TickKeeps ==
  ASSUME IInv, Tick
  PROVE  IInv' /\ D!Tick
<1>i. TimeoutTypeOK /\ InOrder /\ Watched /\ Single /\ Idle /\ OnTime
  BY DEF IInv
<1>s. /\ ~checking /\ \A t \in Times : timers[t] > 0 => now < t
      /\ now < MaxNow /\ now' = now + 1
      /\ order' = order /\ entries' = entries /\ registered' = registered /\ timers' = timers
      /\ checking' = checking /\ batch' = batch /\ lapsed' = lapsed
      /\ last' = last /\ doubled' = doubled /\ starts' = starts
  BY DEF Tick, queueVars, callVars, history
<1>c. now \in Nat /\ Timeout \in Nat /\ MaxNow \in Nat /\ \A t \in Times : t \in Nat
  BY <1>i, Clock, TimeConstants
<1>b. batch = {}
  BY <1>s, <1>i DEF Idle
<1>1. ASSUME ~lapsed, NEW c \in Conns, NEW t \in Times, In(c, t) PROVE now < t
  <2>1. order # <<>> /\ order[1] \in Times /\ order[1] <= t
    BY <1>1, <1>i, FirstDeadline
  <2>2. PICK u \in Times : u <= order[1] /\ timers[u] > 0
    BY <2>1, <1>1, <1>s, <1>i DEF Watched
  <2>3. now < u
    BY <2>2, <1>s
  <2>4. QED
    BY <2>1, <2>2, <2>3, <1>c
<1>2. D!Tick
  BY <1>1, <1>s, <1>b DEF D!Tick, D!Times, Times, D!IsDue, In
<1>3. TimeoutTypeOK'
  <2>1. now' \in 0..MaxNow
    BY <1>c, <1>s
  <2>2. QED
    BY <2>1, <1>s, <1>i DEF TimeoutTypeOK
<1>4. InOrder'
  <2>1. \A i \in 1..Len(order') : order'[i] <= now' + Timeout
    <3> SUFFICES ASSUME NEW i \in 1..Len(order) PROVE order[i] <= (now + 1) + Timeout
      BY <1>s
    <3>1. order[i] <= now + Timeout /\ order[i] \in Nat
      BY <1>i, <1>c, Keys DEF InOrder
    <3>2. QED
      BY <3>1, <1>c
  <2>2. QED
    BY <2>1, <1>s, <1>i DEF InOrder, HasTs, In
<1>5. Watched'
  BY <1>s, <1>i DEF Watched
<1>6. Single'
  BY <1>s, <1>i DEF Single, In
<1>7. OnTime'
  <2> SUFFICES ASSUME NEW c \in Conns, NEW t \in Times, In(c, t), ~lapsed
               PROVE  now + 1 <= t
    BY <1>s DEF OnTime, In
  <2>1. now < t
    BY <1>1
  <2>2. QED
    BY <2>1, <1>c
<1>8. Idle' /\ NotEarly'
  BY <1>s, <1>b DEF Idle, NotEarly
<1>9. QED
  BY <1>2, <1>3, <1>4, <1>5, <1>6, <1>7, <1>8 DEF IInv

LEMMA StepKeeps ==
  ASSUME IInv, [Next]_vars
  PROVE  IInv' /\ [D!Next]_(D!vars)
<1>1. CASE \E c \in Conns : Start(c) \/ Stop(c) \/ Close(c) \/ CallbackRaises(c)
  BY <1>1, StartKeeps, StopKeeps, CloseKeeps, CallbackRaisesKeeps DEF D!Next
<1>2. CASE \E t \in Times : StartCheck(t)
  BY <1>2, StartCheckKeeps DEF D!Next
<1>3. CASE EndCheck
  BY <1>3, EndCheckKeeps
<1>4. CASE Tick
  BY <1>4, TickKeeps DEF D!Next
<1>5. CASE UNCHANGED vars
  <2>1. /\ now' = now /\ order' = order /\ entries' = entries /\ registered' = registered
        /\ timers' = timers /\ checking' = checking /\ batch' = batch /\ lapsed' = lapsed
        /\ last' = last /\ doubled' = doubled /\ starts' = starts
    BY <1>5 DEF vars, queueVars, callVars, history
  <2>2. TimeoutTypeOK' /\ InOrder' /\ Watched' /\ Single' /\ Idle' /\ OnTime' /\ NotEarly'
    BY <2>1
    DEF IInv, TimeoutTypeOK, InOrder, HasTs, In, Watched, Single, Idle, OnTime, NotEarly
  <2>3. UNCHANGED D!vars
    BY <2>1 DEF D!vars
  <2>4. QED
    BY <2>2, <2>3 DEF IInv
<1>6. QED
  BY <1>1, <1>2, <1>3, <1>4, <1>5 DEF Next

-----------------------------------------------------------------------------
(* The theorems.                                                           *)

THEOREM Invariant == Spec => []IInv
<1>1. Init => IInv
  BY InitKeeps
<1>2. IInv /\ [Next]_vars => IInv'
  BY StepKeeps
<1>3. QED
  BY <1>1, <1>2, PTL DEF Spec

\* The variables of the queue and of the calls of its check have their types
\* (TimeoutQueue, ConnectionTimeoutHandler): no list counts below zero.
THEOREM TimeoutsTyped == Spec => []TimeoutTypeOK
<1>1. IInv => TimeoutTypeOK
  BY DEF IInv
<1>2. QED
  BY <1>1, Invariant, PTL

\* A connection does not outlive its timeout while no callback has raised
\* (start_connection_timer, _run_timer): the first key of the queue is its
\* first deadline, and a call of the check is pending for it.
THEOREM NobodyOutlives == Spec => []OnTime
<1>1. IInv => OnTime
  BY DEF IInv
<1>2. QED
  BY <1>1, Invariant, PTL

\* Nobody is given up earlier than the check range allows whose timers ran
\* one at a time (take_expired, remove): he has one deadline at most.
THEOREM NobodyIsEarly == Spec => []NotEarly
<1>1. IInv => NotEarly
  BY DEF IInv
<1>2. QED
  BY <1>1, Invariant, PTL

\* The queue, the pending calls and the check implement the deadlines
\* (connectionhandler.py): what a check takes is exactly what is due, a timer
\* is withdrawn from its first deadline, time passes no deadline.
THEOREM TimeoutKeepsDeadlines == Spec => ImplementsDeadlines
<1>1. Init => D!Init
  BY InitKeeps
<1>2. IInv /\ [Next]_vars => [D!Next]_(D!vars)
  BY StepKeeps
<1>3. QED
  BY <1>1, <1>2, Invariant, PTL DEF Spec, ImplementsDeadlines, D!Spec

=============================================================================
