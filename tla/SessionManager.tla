-------------------------- MODULE SessionManager --------------------------
(***************************************************************************)
(* The sessions of one server process (biomio/protocol/sessionmanager.py,  *)
(* session.py and utils/timeoutqueue.py): a queue of sessions ordered by   *)
(* the time they expire, a timer that looks at its head once a second, the *)
(* map from refresh tokens to sessions and the protocol states kept in     *)
(* Redis for sessions whose client went away.                              *)
(*                                                                         *)
(* Every session lives equally long, so the queue's buckets, read in their *)
(* order, are one sequence to whose end every session is added; which      *)
(* prefix of it has expired when the timer fires is left open (the clock   *)
(* is taken to run forwards).  The operators on a manager m are what its   *)
(* methods do; the protocol engine combines several of them in one step.   *)
(***************************************************************************)
EXTENDS Naturals, Sequences

CONSTANTS Sessions,     \* refresh tokens
          MaxRestarts   \* restarts of the server process

ASSUME RestartsAssumption == MaxRestarts \in Nat

VARIABLES sm,        \* the session manager of the running process
          restarts   \* restarts so far

smVars == <<sm, restarts>>

Managers ==
  [queue    : Seq(Sessions),     \* sessions by the time they expire
   timers   : Nat,               \* pending calls of the periodic check
   latest   : BOOLEAN,           \* is _timeout_handle one of them?
   made     : SUBSET Sessions,   \* tokens that were ever generated
   known    : SUBSET Sessions,   \* tokens whose session object lives
   open     : SUBSET Sessions,   \* sessions with is_open
   calls    : SUBSET Sessions,   \* sessions with a close_callback
   stored   : SUBSET Sessions,   \* tokens with a protocol state in Redis
   checking : BOOLEAN,           \* is the periodic check running?
   batch    : Seq(Sessions),     \* what it has yet to close
   lapsed   : BOOLEAN]           \* history: see Watched

SessionsTypeOK == sm \in Managers /\ restarts \in 0..MaxRestarts

NewManager(made, stored) ==
  [queue |-> <<>>, timers |-> 0, latest |-> FALSE, made |-> made,
   known |-> {}, open |-> {}, calls |-> {}, stored |-> stored,
   checking |-> FALSE, batch |-> <<>>, lapsed |-> FALSE]

-----------------------------------------------------------------------------
(* The queue.                                                              *)

Queued(q, s) == \E i \in 1..Len(q) : q[i] = s
Removed(q, s) ==
  IF Queued(q, s)
  THEN LET i == CHOOSE i \in 1..Len(q) : q[i] = s
       IN  SubSeq(q, 1, i - 1) \o SubSeq(q, i + 1, Len(q))
  ELSE q

(* The methods.                                                            *)

\* Mutant: the bucket goes with the session.
DequeuedBucket(m, s) == IF Queued(m.queue, s) THEN [m EXCEPT !.queue = <<>>] ELSE m

Enqueued(m, s) == [m EXCEPT !.queue = Append(@, s), !.known = @ \cup {s}]
Dequeued(m, s) == [m EXCEPT !.queue = Removed(@, s)]
TimerRun(m)    == [m EXCEPT !.timers = @ + 1, !.latest = TRUE]

\* create_session: only an empty queue starts the timer.
Created(m, s) ==
  LET n == Enqueued([m EXCEPT !.made = @ \cup {s}, !.open = @ \cup {s},
                              !.calls = @ \cup {s}], s)
  IN  IF m.queue = <<>> THEN TimerRun(n) ELSE n

\* Any other way into an empty queue does not start the timer.
Lapses(m) == [m EXCEPT !.lapsed = @ \/ m.queue = <<>>]

\* Mutant: a session that is queued is queued again.
RefreshedTwice(m, s) == Enqueued(Lapses(m), s)

\* refresh_session: also a session that is not queued any more is enqueued.
Refreshed(m, s) == Enqueued(Dequeued(Lapses(m), s), s)

\* Mutants: the timer is cancelled whatever else waits; the cancelled timer
\* is taken for one that is pending.
SessionClosedAlways(m, s) ==
  LET n == Dequeued(m, s)
  IN  IF n.latest THEN [n EXCEPT !.timers = @ - 1, !.latest = FALSE] ELSE n
SessionClosedAgain(m, s) ==
  LET n == Dequeued(m, s)
  IN  IF n.queue = <<>> THEN [n EXCEPT !.timers = @ - 1, !.latest = FALSE] ELSE n

\* close_session: an empty queue cancels the timer started last.  is_open is
\* left as it is, and so is the entry of the token map: it is looked up by
\* the session token, which is never its key.
SessionClosed(m, s) ==
  LET n == Dequeued(m, s)
  IN  IF n.queue = <<>> /\ n.latest
      THEN [n EXCEPT !.timers = @ - 1, !.latest = FALSE] ELSE n

\* What the engine does to its session when the client has gone
\* (connection_closed): no callback, and the protocol state is stored.
Parted(m, s) == [m EXCEPT !.calls = @ \ {s}, !.stored = @ \cup {s}]

\* restore_session: the living session object, or a new one for a token with
\* a stored state; the new one has no close callback.
Restored(m, s) ==
  IF s \in m.known \/ s \notin m.stored THEN m
  ELSE [Enqueued(Lapses(m), s) EXCEPT !.open = @ \cup {s}, !.calls = @ \ {s}]
Restorable(m, s) == s \in m.known \cup m.stored

(* The periodic check.  A due call takes the n expired sessions first, then *)
(* closes them one after the other, then schedules the next call; a close  *)
(* callback that raises ends it at once.                                   *)

\* Mutant: one session too many leaves the queue.
CheckStartedOverrun(m, n) ==
  [m EXCEPT !.checking = TRUE,
            !.timers = @ - 1, !.latest = @ /\ m.timers > 1,
            !.batch = SubSeq(m.queue, 1, n),
            !.queue = SubSeq(m.queue, n + 2, Len(m.queue))]

CheckStarted(m, n) ==
  [m EXCEPT !.checking = TRUE,
            !.timers = @ - 1, !.latest = @ /\ m.timers > 1,
            !.batch = SubSeq(m.queue, 1, n),
            !.queue = SubSeq(m.queue, n + 1, Len(m.queue))]
Expired(m) ==
  [m EXCEPT !.open = @ \ {Head(m.batch)}, !.batch = Tail(@)]
CheckBroken(m) ==
  [m EXCEPT !.batch = <<>>, !.checking = FALSE, !.lapsed = TRUE]
\* Mutant: the check is not scheduled again.
CheckEndedOnce(m) == [m EXCEPT !.checking = FALSE]
CheckEnded(m) == TimerRun([m EXCEPT !.checking = FALSE])

-----------------------------------------------------------------------------
(* Any sequence of calls: the engines of many connections use the manager, *)
(* and callbacks use it while the check runs.                              *)

Init == sm = NewManager({}, {}) /\ restarts = 0

Create(s) ==
  /\ s \notin sm.made
  /\ sm' = Created(sm, s)
  /\ UNCHANGED restarts

\* The object is held by an engine, whatever became of the session.
Refresh(s) ==
  /\ s \in sm.known
  /\ sm' = Refreshed(sm, s)
  /\ UNCHANGED restarts

Close(s) ==
  /\ s \in sm.known
  /\ sm' = SessionClosed(sm, s)
  /\ UNCHANGED restarts

Part(s) ==
  /\ s \in sm.known
  /\ sm' = Parted(sm, s)
  /\ UNCHANGED restarts

Restore(s) ==
  /\ Restorable(sm, s)
  /\ sm' = Restored(sm, s)
  /\ UNCHANGED restarts

\* The last engine that held the object is gone.
Collect(s) ==
  /\ s \in sm.known
  /\ ~Queued(sm.queue \o sm.batch, s)
  /\ sm' = [sm EXCEPT !.known = @ \ {s}]
  /\ UNCHANGED restarts

\* The stored protocol state reaches its time to live.
Forget(s) ==
  /\ s \in sm.stored
  /\ sm' = [sm EXCEPT !.stored = @ \ {s}]
  /\ UNCHANGED restarts

StartCheck(n) ==
  /\ sm.timers > 0 /\ ~sm.checking
  /\ n \in 0..Len(sm.queue)
  /\ sm' = CheckStarted(sm, n)
  /\ UNCHANGED restarts

CloseExpired ==
  /\ sm.checking /\ sm.batch # <<>>
  /\ sm' = Expired(sm)
  /\ UNCHANGED restarts

CallbackRaises ==
  /\ sm.checking /\ sm.batch # <<>>
  /\ Head(sm.batch) \in sm.calls
  /\ sm' = CheckBroken(Expired(sm))
  /\ UNCHANGED restarts

EndCheck ==
  /\ sm.checking /\ sm.batch = <<>>
  /\ sm' = CheckEnded(sm)
  /\ UNCHANGED restarts

\* The process restarts; Redis keeps the stored states.
Restart ==
  /\ restarts < MaxRestarts
  /\ restarts' = restarts + 1
  /\ sm' = NewManager(sm.made, sm.stored)

Next ==
  \/ \E s \in Sessions : \/ Create(s) \/ Refresh(s) \/ Close(s) \/ Part(s)
                         \/ Restore(s) \/ Collect(s) \/ Forget(s)
  \/ \E n \in 0..Len(sm.queue) : StartCheck(n)
  \/ CloseExpired \/ CallbackRaises \/ EndCheck
  \/ Restart

Spec == Init /\ [][Next]_smVars

\* The event loop runs what is due, and time passes: a check that runs again
\* and again will find the head of the queue expired.
CheckFairness ==
  /\ WF_smVars(CloseExpired \/ CallbackRaises)
  /\ WF_smVars(EndCheck)
  /\ SF_smVars(\E n \in 1..Len(sm.queue) : StartCheck(n))

FairSpec == Spec /\ CheckFairness

-----------------------------------------------------------------------------
(* Properties.                                                             *)

\* A session waits in the queue once, however its refreshes, closes, restores
\* and the check interleave; otherwise it would expire although refreshed.
QueuedOnce ==
  \A i, j \in 1..Len(sm.queue) : sm.queue[i] = sm.queue[j] => i = j

\* Sessions that wait to expire are looked after: a call of the check is
\* pending or running, whoever created, refreshed and closed sessions and
\* cancelled the timer meanwhile (create_session, close_session, run_timer).
\* This is lost once a close callback has raised, or once a refresh or a
\* restore put a session into an empty queue.
Watched == sm.queue # <<>> /\ ~sm.lapsed => sm.timers > 0 \/ sm.checking

\* A session that stays in the queue for ever is refreshed for ever
\* (_on_check_expired_sessions).
Expires ==
  \A s \in Sessions :
    <>[](Queued(sm.queue, s) /\ ~sm.lapsed) => []<><<Refresh(s)>>_smVars
=============================================================================
