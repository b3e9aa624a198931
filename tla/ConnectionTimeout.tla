------------------------- MODULE ConnectionTimeout -------------------------
(* The timers of the connections of one server process                     *)
(* (protocol/connectionhandler.py and utils/timeoutqueue.py).  An ordered  *)
(* dictionary maps the time a timer runs out to the connections that were  *)
(* started for it; each call of the check takes what is due from its front *)
(* and schedules the next one for the time that is first by then.          *)
(*                                                                         *)
(* The loop runs one handler at a time and is not late: time passes when   *)
(* no call is due.  The clock runs forwards, in steps of a second.  What a *)
(* check closes it closes in any order.                                    *)
EXTENDS Naturals, Sequences

CONSTANTS Conns,       \* connections
          Timeout,     \* settings.connection_timeout
          CheckRange,  \* _connection_timeout_check_range
          MaxNow,      \* bound on the clock
          MaxStarts    \* bound on the timers started

ASSUME TimeConstants ==
  /\ Timeout \in Nat \ {0} /\ CheckRange \in Nat
  /\ MaxNow \in Nat /\ MaxStarts \in Nat

Times == 0..(MaxNow + Timeout)

VARIABLES
  now,         \* the clock
  order,       \* keys of the dictionary in the order they were inserted
  entries,     \* how often a connection is in the list of a key
  registered,  \* connections with a callback
  timers,      \* pending calls of the check, by the time they are made for
  checking,    \* is the check running?
  batch,       \* connections the check has yet to close
  lapsed,      \* history: a callback has raised since the queue was empty
  last,        \* history: when a connection was last started
  doubled,     \* history: connections last started while they were queued
  starts       \* timers started so far

queueVars == <<order, entries>>
callVars  == <<registered, timers, checking, batch, lapsed>>
history   == <<last, doubled, starts>>
vars == <<now, queueVars, callVars, history>>

TimeoutTypeOK ==
  /\ now \in 0..MaxNow
  /\ order \in Seq(Times)
  /\ entries \in [Times -> [Conns -> Nat]]
  /\ registered \subseteq Conns /\ batch \subseteq Conns /\ doubled \subseteq Conns
  /\ timers \in [Times -> Nat]
  /\ checking \in BOOLEAN /\ lapsed \in BOOLEAN
  /\ last \in [Conns -> 0..MaxNow]
  /\ starts \in 0..MaxStarts

Nobody == [c \in Conns |-> 0]

Init ==
  /\ now = 0
  /\ order = <<>> /\ entries = [t \in Times |-> Nobody]
  /\ registered = {} /\ batch = {} /\ doubled = {}
  /\ timers = [t \in Times |-> 0]
  /\ checking = FALSE /\ lapsed = FALSE
  /\ last = [c \in Conns |-> 0] /\ starts = 0

-----------------------------------------------------------------------------
(* The queue.                                                              *)

HasTs(t)     == \E i \in 1..Len(order) : order[i] = t
In(c, t)     == entries[t][c] > 0
Queued(c)    == \E t \in Times : In(c, t)

\* The key and its list, both new or the list of a key that is there.
Appended(c, t) ==
  /\ order' = IF HasTs(t) THEN order ELSE Append(order, t)
  /\ entries' = [entries EXCEPT ![t][c] = @ + 1]

\* The queue without its i-th key.
Without(i) == SubSeq(order, 1, i - 1) \o SubSeq(order, i + 1, Len(order))

\* Mutant: the last list the connection is in.
RemovedLast(c) ==
  \/ /\ \A i \in 1..Len(order) : ~In(c, order[i])
     /\ UNCHANGED queueVars
  \/ \E i \in 1..Len(order) :
       /\ In(c, order[i]) /\ \A k \in (i + 1)..Len(order) : ~In(c, order[k])
       /\ entries' = [entries EXCEPT ![order[i]][c] = @ - 1]
       /\ order' = IF entries'[order[i]] = Nobody THEN Without(i) ELSE order
\* remove: from the first list the connection is in; an empty list goes.
Removed(c) ==
  \/ /\ \A i \in 1..Len(order) : ~In(c, order[i])
     /\ UNCHANGED queueVars
  \/ \E i \in 1..Len(order) :
       /\ In(c, order[i]) /\ \A k \in 1..(i - 1) : ~In(c, order[k])
       /\ entries' = [entries EXCEPT ![order[i]][c] = @ - 1]
       /\ order' = IF entries'[order[i]] = Nobody THEN Without(i) ELSE order

\* Mutant: the loop does not stop at the first key that is not due.
ExpiredAll(n, until) ==
  /\ n = Len(order) /\ n > 0 => order[1] <= until
\* take_expired: from the front up to the first key that is not due.
Expired(n, until) ==
  /\ \A i \in 1..n : order[i] <= until
  /\ n < Len(order) => order[n + 1] > until
Taken(n) == {order[i] : i \in 1..n}

-----------------------------------------------------------------------------
(* The handler.                                                            *)

WasEmpty == order = <<>>

\* start_connection_timer; an empty queue needs a call of the check.
Start(c) ==
  LET t == now + Timeout IN
  /\ ~checking
  /\ starts < MaxStarts /\ starts' = starts + 1
  /\ Appended(c, t)
  /\ registered' = registered \cup {c}
  /\ timers' = IF WasEmpty THEN [timers EXCEPT ![t] = @ + 1] ELSE timers
  /\ lapsed' = (lapsed /\ ~WasEmpty)
  /\ last' = [last EXCEPT ![c] = now]
  /\ doubled' = IF Queued(c) THEN doubled \cup {c} ELSE doubled \ {c}
  /\ UNCHANGED <<now, checking, batch>>

\* Mutant: the pending call is cancelled with the timer.
StopCancels(c) ==
  /\ ~checking
  /\ Removed(c)
  /\ timers' = [t \in Times |-> 0]
  /\ UNCHANGED <<now, registered, checking, batch, lapsed, history>>
\* stop_connection_timer; pending calls and the callback stay.
Stop(c) ==
  /\ ~checking
  /\ Removed(c)
  /\ UNCHANGED <<now, callVars, history>>

\* What the call that was made for time t looks for.
Until(t) == t + CheckRange

\* _on_check_expired_connections takes what has expired.  A connection that
\* was taken twice is closed once: its callback is gone then.
StartCheck(t) ==
  /\ ~checking /\ checking' = TRUE
  /\ timers[t] > 0 /\ t <= now
  /\ timers' = [timers EXCEPT ![t] = @ - 1]
  /\ \E n \in 0..Len(order) :
       /\ Expired(n, Until(t))
       /\ order' = SubSeq(order, n + 1, Len(order))
       /\ batch' = {c \in Conns : \E u \in Taken(n) : In(c, u)}
       /\ entries' = [u \in Times |-> IF u \in Taken(n) THEN Nobody ELSE entries[u]]
  /\ UNCHANGED <<now, registered, lapsed, history>>

\* The callback closes the connection, which first stops its timer.
Close(c) ==
  /\ checking /\ c \in batch /\ batch' = batch \ {c}
  /\ IF c \in registered THEN Removed(c) ELSE UNCHANGED queueVars
  /\ registered' = registered \ {c}
  /\ UNCHANGED <<now, timers, checking, lapsed, history>>

\* close_connection raises when it cannot tell the phone: the rest is not
\* closed and the check is not scheduled again.
CallbackRaises(c) ==
  /\ checking /\ c \in batch \cap registered
  /\ batch' = {} /\ checking' = FALSE /\ lapsed' = TRUE
  /\ Removed(c)
  /\ registered' = registered \ {c}
  /\ UNCHANGED <<now, timers, history>>

\* _run_timer
EndCheck ==
  /\ checking /\ batch = {} /\ checking' = FALSE
  /\ timers' = IF WasEmpty THEN timers ELSE [timers EXCEPT ![order[1]] = @ + 1]
  /\ UNCHANGED <<now, queueVars, registered, batch, lapsed, history>>

Tick ==
  /\ ~checking /\ \A t \in Times : timers[t] > 0 => now < t
  /\ now < MaxNow /\ now' = now + 1
  /\ UNCHANGED <<queueVars, callVars, history>>

Next ==
  \/ \E c \in Conns : Start(c) \/ Stop(c) \/ Close(c) \/ CallbackRaises(c)
  \/ \E t \in Times : StartCheck(t)
  \/ EndCheck \/ Tick

Spec == Init /\ [][Next]_vars

-----------------------------------------------------------------------------
(* Properties.                                                             *)

\* A connection that waits to be given up does not outlive its timeout,
\* however connections were stopped, started again and closed between two
\* checks and however many calls of the check are pending (_run_timer,
\* start_connection_timer), until a callback raises.
OnTime == \A c \in Conns, t \in Times : In(c, t) => lapsed \/ now <= t

\* Nobody is given up who was heard of lately, if no timer of his was
\* started while another one ran: then the stop that follows removes only
\* one of them (process_next, stop_connection_timer, take_expired).
NotEarly ==
  \A c \in batch \ doubled : last[c] + Timeout <= now + CheckRange

D == INSTANCE Deadlines WITH due <- entries, closing <- batch, broken <- lapsed

\* The queue and the calls of its check keep the deadlines: a check takes all
\* that is due and nothing else, a timer is withdrawn from its first deadline,
\* and no deadline passes.
ImplementsDeadlines == D!Spec
=============================================================================
