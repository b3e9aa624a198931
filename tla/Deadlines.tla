----------------------------- MODULE Deadlines -----------------------------
(* What the connection timeout promises, without its queue and its timers: *)
(* whoever was started is given up when its time has come, somewhat early  *)
(* at most, and time does not pass a deadline, unless a callback has       *)
(* failed.  ConnectionTimeout implements it.                               *)
EXTENDS Naturals

CONSTANTS Conns,       \* connections
          Timeout,     \* seconds a connection may be silent
          CheckRange,  \* seconds it may be given up early
          MaxNow       \* bound on the clock

Times == 0..(MaxNow + Timeout)

VARIABLES now,      \* the clock
          due,      \* how often a connection is due at a time
          closing,  \* connections that are being given up
          broken    \* a callback has failed since nobody was due

vars == <<now, due, closing, broken>>

Nobody == [c \in Conns |-> 0]
IsDue(c, t) == due[t][c] > 0

Init ==
  /\ now = 0
  /\ due = [t \in Times |-> Nobody]
  /\ closing = {} /\ broken = FALSE

\* A connection is taken back from the first of its deadlines.
Withdrawn(c) ==
  \/ /\ \A t \in Times : ~IsDue(c, t)
     /\ due' = due
  \/ \E t \in Times :
       /\ IsDue(c, t) /\ \A u \in Times : u < t => ~IsDue(c, u)
       /\ due' = [due EXCEPT ![t][c] = @ - 1]

Start(c) ==
  /\ closing = {}
  /\ due' = [due EXCEPT ![now + Timeout][c] = @ + 1]
  /\ broken' = (broken /\ \E d \in Conns, t \in Times : IsDue(d, t))
  /\ UNCHANGED <<now, closing>>

Stop(c) ==
  /\ closing = {} /\ Withdrawn(c)
  /\ UNCHANGED <<now, closing, broken>>

\* All that are due by then are given up, and nobody else.
Expire(until) ==
  /\ closing = {} /\ until <= now + CheckRange
  /\ closing' = {c \in Conns : \E t \in Times : t <= until /\ IsDue(c, t)}
  /\ due' = [t \in Times |-> IF t <= until THEN Nobody ELSE due[t]]
  /\ UNCHANGED <<now, broken>>

Close(c) ==
  /\ c \in closing /\ closing' = closing \ {c}
  /\ Withdrawn(c) \/ due' = due
  /\ UNCHANGED <<now, broken>>

\* The callback fails, and those that were not called yet are never called.
Fail(c) ==
  /\ c \in closing /\ closing' = {} /\ broken' = TRUE
  /\ Withdrawn(c)
  /\ UNCHANGED now

Tick ==
  /\ closing = {}
  /\ broken \/ \A c \in Conns, t \in Times : IsDue(c, t) => now < t
  /\ now < MaxNow /\ now' = now + 1
  /\ UNCHANGED <<due, closing, broken>>

Next ==
  \/ \E c \in Conns : Start(c) \/ Stop(c) \/ Close(c) \/ Fail(c)
  \/ \E until \in 0..(MaxNow + CheckRange) : Expire(until)
  \/ Tick

Spec == Init /\ [][Next]_vars
=============================================================================
