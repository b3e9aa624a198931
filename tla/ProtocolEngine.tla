-------------------------- MODULE ProtocolEngine --------------------------
(***************************************************************************)
(* The protocol engine of each connection (BiomioProtocol and its state    *)
(* table in biomio/protocol/engine.py, driven by third_party/fysom.py and  *)
(* by the websocket handler of main.py), with the sessions of the process  *)
(* and the connection timers.                                              *)
(*                                                                         *)
(* One event loop runs all connections.  A handler runs to its end except  *)
(* where a decision waits for the data of the application: the event then  *)
(* stays pending, other handlers run, and whatever state they left is      *)
(* overwritten when the decision is made.  A handler's effect is written   *)
(* as a function of x = [e, m, raised]: the engine of its connection, the  *)
(* session manager, and whether an exception has ended the handler.        *)
(*                                                                         *)
(* Not modelled: sequence numbers and message contents (a header or a      *)
(* signature is good or bad) and the samples of a probe.  The flows of a   *)
(* connection are one here: what they do is in BioauthFlow, what they ask  *)
(* of the engine, and whether shutting them down raises, is left open.     *)
(***************************************************************************)
EXTENDS Naturals, Sequences, FiniteSets

CONSTANTS Conns,        \* websocket connections
          Phones,       \* those of probe applications
          MaxOpen,      \* connections that are opened
          MaxSessions,  \* sessions created by handshakes
          MaxMessages,  \* messages received on a connection
          None          \* no session, no connection

ASSUME EngineConstants ==
  /\ Phones \subseteq Conns
  /\ MaxOpen \in Nat /\ MaxSessions \in Nat /\ MaxMessages \in Nat
  /\ None \notin Conns /\ None \notin 0..MaxSessions

\* Tokens of sessions; 0 stands for the temporary session made to say 'bye'.
Tokens == 0..MaxSessions

VARIABLES engines,   \* the engine of each connection
          sm,        \* the session manager
          owner,     \* the connection whose engine a session's callback calls
          received,  \* messages received on a connection
          proved     \* history: connections whose key or secret was verified

vars == <<engines, sm, owner, received, proved>>

SM == INSTANCE SessionManager
      WITH Sessions <- Tokens, MaxRestarts <- 0, restarts <- 0

States == {"connected", "handshake", "registration", "resourceget",
           "appregistered", "ready", "disconnected", "probetrying",
           "probegetting"}
ByeFrom == States \ {"registration", "disconnected"}

Events == {"clientHello", "auth", "registration"}

Engines ==
  [ws      : {"new", "open", "closing", "closed"},
   st      : States,
   sess    : Tokens \cup {None},   \* _session
   pending : [Events -> Nat],      \* decisions and registrations under way
   timers  : Nat,                  \* entries in the queue of timeouts
   alarm   : BOOLEAN,              \* is its timeout callback registered?
   flow    : BOOLEAN,              \* has the connection a flow?
   lifted  : BOOLEAN,              \* history: did a flow's cancellation make
                                   \* an unproven connection ready?
   stranded: BOOLEAN]              \* history: did the shutdown of a flow keep
                                   \* the server from closing the websocket?

NewEngine == [ws |-> "new", st |-> "connected", sess |-> None,
              pending |-> [v \in Events |-> 0], timers |-> 0,
              alarm |-> FALSE, flow |-> FALSE, lifted |-> FALSE,
              stranded |-> FALSE]

TypeOK ==
  /\ engines \in [Conns -> Engines]
  /\ sm \in SM!Managers
  /\ owner \in [Tokens -> Conns \cup {None}]
  /\ received \in [Conns -> 0..MaxMessages]
  /\ proved \subseteq Conns

Init ==
  /\ engines = [c \in Conns |-> NewEngine]
  /\ sm = SM!NewManager({}, {})
  /\ owner = [s \in Tokens |-> None]
  /\ received = [c \in Conns |-> 0]
  /\ proved = {}

-----------------------------------------------------------------------------
(* Handlers.                                                               *)

At(c) == [e |-> engines[c], m |-> sm, raised |-> FALSE]
Takes(c, x) == engines' = [engines EXCEPT ![c] = x.e] /\ sm' = x.m

Raise(x)   == [x EXCEPT !.raised = TRUE]
\* write_message raises when the server has closed the websocket.
Sent(x)    == IF x.e.ws = "open" THEN x ELSE Raise(x)
\* Mutant: an entry is removed that is not there.
StoppedTwice(x) == [x EXCEPT !.e.timers = @ - 1]
Stopped(x) == [x EXCEPT !.e.timers = IF @ > 0 THEN @ - 1 ELSE 0]
Started(x) == [x EXCEPT !.e.timers = @ + 1, !.e.alarm = TRUE]

\* Mutant: the session is created for the header only.
SessionUnkept(x, s) == [x EXCEPT !.m = SM!Created(@, s)]
\* start_new_session
Session(x, s) == [x EXCEPT !.e.sess = s, !.m = SM!Created(@, s)]

\* A message refreshes the session whose token it carries.
Refreshed(x, own) ==
  IF own THEN [x EXCEPT !.m = SM!Refreshed(@, x.e.sess)] ELSE x

\* Sessions are closed with the connection, a temporary one is created to
\* sign the 'bye' if there is none.
SessionOver(x) ==
  LET y == IF x.e.ws = "open" /\ x.e.sess = None THEN Session(x, 0) ELSE x IN
  IF y.e.sess # None /\ y.e.sess \in y.m.open
  THEN [y EXCEPT !.m = SM!SessionClosed(@, y.e.sess)] ELSE y

\* Mutant: a flow is shut down after its websocket was given up.
FlowOverLate(x, phone, waits) ==
  IF ~x.e.flow \/ ~waits THEN x ELSE Raise(x)

\* The flow is shut down.  If the flow of a phone waits for samples the phone
\* is told, and the engine is ready again; a phone that cannot be told stops the
\* shutdown.  So does the flow of an extension that waits without an RPC to
\* call back (BioauthFlow's CloseUnrequested).
FlowOver(x, phone, waits) ==
  IF ~x.e.flow \/ ~waits THEN x
  ELSE IF ~phone THEN Raise([x EXCEPT !.e.stranded = @ \/ x.e.ws = "open"])
  ELSE IF x.e.ws = "open" THEN [x EXCEPT !.e.st = "ready"] ELSE Raise(x)

\* close_connection: by the server, which then closes the websocket, or after
\* the client has closed it.
ConnectionClosed(x, phone, waits) ==
  LET y == FlowOver(SessionOver(Stopped(x)), phone, waits) IN
  IF ~y.raised /\ y.e.ws = "open" THEN [y EXCEPT !.e.ws = "closing"] ELSE y
ClosedByClient(x, phone, waits) ==
  FlowOver(Stopped([x EXCEPT !.e.ws = "closed"]), phone, waits)

\* The callbacks of entered states.
Entered(x, phone, waits) ==
  CASE x.e.st \in {"handshake", "appregistered", "resourceget",
                   "probetrying"} -> Sent(x)
    [] x.e.st = "registration" ->
         [x EXCEPT !.e.pending["registration"] = @ + 1]
    [] x.e.st = "ready" /\ phone -> [x EXCEPT !.e.flow = TRUE]
    [] x.e.st = "disconnected" -> ConnectionClosed(x, phone, waits)
    [] OTHER -> x

\* A transition goes to the state the decision names, whatever the state is
\* by now; only if that is a new one its callback is called.
Moved(x, c, dst, waits) ==
  IF x.e.st = dst THEN x
  ELSE Entered([x EXCEPT !.e.st = dst], c \in Phones, waits)

Bye(x, c, waits) ==
  IF x.e.st \in ByeFrom THEN Moved(x, c, "disconnected", waits) ELSE Raise(x)

\* The end of _process_message.
Finished(x) ==
  IF x.raised \/ x.e.st = "disconnected" THEN x ELSE Started(x)

-----------------------------------------------------------------------------
(* Connections and messages.                                               *)

Idle == ~sm.checking

Open(c) ==
  /\ Idle /\ engines[c].ws = "new"
  /\ Cardinality({d \in Conns : engines[d].ws # "new"}) < MaxOpen
  /\ Takes(c, Started([At(c) EXCEPT !.e.ws = "open"]))
  /\ UNCHANGED <<owner, received, proved>>

\* A message arrives, also between the server's close and the client's; its
\* header may carry the refresh token of the session.
Received(c, own) ==
  /\ Idle /\ engines[c].ws \in {"open", "closing"}
  /\ received[c] < MaxMessages
  /\ received' = [received EXCEPT ![c] = @ + 1]
  /\ own => engines[c].sess \notin {None, 0}
Message(c, own) == Refreshed(Stopped(At(c)), own)

\* 'clientHello' with an application id: the decision waits for its data.
Hello(c) ==
  LET s == CHOOSE s \in 1..MaxSessions : s \notin sm.made IN
  /\ Received(c, FALSE) /\ engines[c].st = "connected"
  /\ ~(1..MaxSessions \subseteq sm.made)
  /\ Takes(c, [Session(Message(c, FALSE), s)
                 EXCEPT !.e.pending["clientHello"] = @ + 1])
  /\ owner' = [owner EXCEPT ![s] = c]
  /\ UNCHANGED proved

\* 'clientHello' with a secret, alone or (wrongly) with an application id.
Register(c, dst) ==
  LET s == CHOOSE s \in 1..MaxSessions : s \notin sm.made IN
  /\ Received(c, FALSE) /\ engines[c].st = "connected"
  /\ ~(1..MaxSessions \subseteq sm.made)
  /\ dst \in {"registration", "disconnected"}
  /\ Takes(c, Finished(Moved(Session(Message(c, FALSE), s), c, dst, FALSE)))
  /\ owner' = [owner EXCEPT ![s] = c]
  /\ UNCHANGED proved

HelloDecided(c, dst, waits) ==
  /\ Idle /\ engines[c].pending["clientHello"] > 0
  /\ dst \in {"handshake", "disconnected"}
  /\ Takes(c, Finished(Moved([At(c) EXCEPT !.e.pending["clientHello"] = @ - 1],
                             c, dst, waits)))
  /\ UNCHANGED <<owner, received, proved>>

\* 'auth': the decision waits for the public key.
Auth(c, own) ==
  /\ Received(c, own) /\ engines[c].st = "handshake"
  /\ Takes(c, [Message(c, own) EXCEPT !.e.pending["auth"] = @ + 1])
  /\ UNCHANGED <<owner, proved>>

\* Where a phone or an extension goes that has proved who it is.
Welcomes(c) == IF c \in Phones THEN {"ready", "resourceget"} ELSE {"ready"}

AuthDecided(c, dst, waits) ==
  /\ Idle /\ engines[c].pending["auth"] > 0
  /\ dst \in Welcomes(c) \cup {"disconnected"}
  /\ Takes(c, Finished(Moved([At(c) EXCEPT !.e.pending["auth"] = @ - 1],
                             c, dst, waits)))
  /\ proved' = IF dst = "disconnected" THEN proved ELSE proved \cup {c}
  /\ UNCHANGED <<owner, received>>

\* The job that verifies a registration secret answers; the event is refused
\* when the engine has left the state.
Registered(c, dst) ==
  /\ Idle /\ engines[c].pending["registration"] > 0
  /\ dst \in {"appregistered", "disconnected"}
  /\ LET x == [At(c) EXCEPT !.e.pending["registration"] = @ - 1] IN
     Takes(c, IF x.e.st = "registration" THEN Moved(x, c, dst, FALSE)
                                         ELSE Raise(x))
  /\ proved' = IF dst = "appregistered" THEN proved \cup {c} ELSE proved
  /\ UNCHANGED <<owner, received>>

\* Messages whose decision is made at once: 'ack', 'resources', 'nop' (echoed)
\* and 'probe' (a sample, the last one, or a dismissal, which is answered if
\* the flow waited for samples).  A bad header or probe ends the connection,
\* and so do samples the flow does not wait for.
Replies(c, st) ==   \* where to, and whether something is sent before
  CASE st = "appregistered" -> Welcomes(c) \X {FALSE}
    [] st = "resourceget"   -> {<<"ready", FALSE>>, <<"resourceget", TRUE>>}
    [] st = "ready"         -> {<<"ready", TRUE>>}
    [] st \in {"probetrying", "probegetting"} ->
         {<<st, TRUE>>, <<"probegetting", FALSE>>} \cup ({"ready"} \X BOOLEAN)
    [] OTHER -> {}

\* verify_header
BadHeader == <<"disconnected", FALSE>>
Decided(c, own, waits) ==
  LET x == Message(c, own) IN
  /\ Received(c, own)
  /\ Replies(c, engines[c].st) # {}
  /\ \E r \in Replies(c, engines[c].st) \cup {BadHeader} :
       LET y == IF r[2] THEN Sent(x) ELSE x IN
       Takes(c, IF y.raised THEN y ELSE Finished(Moved(y, c, r[1], waits)))
  /\ UNCHANGED <<owner, proved>>

\* 'bye', and every message that has no transition in this state or is not
\* valid, which is answered by the same event but never starts the timer.
Goodbye(c, own, meant, waits) ==
  LET x == Bye(Message(c, own), c, waits) IN
  /\ Received(c, own) /\ engines[c].st # "disconnected"
  /\ Takes(c, IF meant THEN Finished(x) ELSE x)
  /\ UNCHANGED <<owner, proved>>

\* An RPC is served in every state and leaves the connection timer stopped.
\* It gives the connection a flow, unless its user is not known or it only asks
\* for names; the flow of a phone that is ready may ask for a try at once.  A
\* disconnected engine ignores other messages, but not their token.
Rpc(c, own) ==
  LET x == Message(c, own)
      y == [x EXCEPT !.e.flow = TRUE] IN
  /\ Received(c, own)
  /\ \/ Takes(c, x)
     \/ Takes(c, y)
     \/ c \in Phones /\ y.e.st = "ready"
        /\ Takes(c, Moved(y, c, "probetrying", FALSE))
  /\ UNCHANGED <<owner, proved>>

\* A message with a token on a connection without a session.  The state of a
\* session that is found is looked up by the wrong token: the exception drops
\* the message.  A token that is not found (its session is gone, or
\* never was) ends the connection; if the message is an RPC it is served yet.
RestoreState(c, s, waits) ==
  LET x == Message(c, FALSE)
      y == Bye(x, c, waits) IN
  /\ Received(c, FALSE) /\ engines[c].sess = None
  /\ s # 0
  /\ \/ Takes(c, IF SM!Restorable(sm, s)
                 THEN Raise([x EXCEPT !.e.sess = s, !.m = SM!Restored(@, s)])
                 ELSE y)
     \/ /\ ~SM!Restorable(sm, s) /\ ~y.raised
        /\ Takes(c, [y EXCEPT !.e.flow = TRUE])
  /\ UNCHANGED <<owner, proved>>

\* The flow of a phone asks for a try.
TryProbe(c) ==
  /\ Idle /\ c \in Phones /\ engines[c].flow /\ engines[c].st = "ready"
  /\ Takes(c, Moved(At(c), c, "probetrying", FALSE))
  /\ UNCHANGED <<owner, received, proved>>

\* Mutant: a connection without a flow is cancelled.
CancelAuthAny(c) ==
  /\ Idle /\ c \in Phones /\ engines[c].ws = "open"
  /\ Takes(c, [At(c) EXCEPT !.e.st = "ready"])
  /\ UNCHANGED <<owner, received, proved>>

\* It cancels one, or what an RPC's flow waited for: the phone is told, and its
\* engine is ready whatever its state was.
CancelAuth(c) ==
  /\ Idle /\ c \in Phones /\ engines[c].flow /\ engines[c].ws = "open"
  /\ Takes(c, [At(c) EXCEPT !.e.st = "ready",
                            !.e.lifted = @ \/ c \notin proved])
  /\ UNCHANGED <<owner, received, proved>>

-----------------------------------------------------------------------------
(* Timeouts and closing.                                                   *)

\* An entry of the timeout queue is due; its callback is called once.
Timeout(c, waits) ==
  LET x == [At(c) EXCEPT !.e.timers = @ - 1] IN
  /\ Idle /\ engines[c].timers > 0
  /\ Takes(c, IF x.e.alarm
              THEN ConnectionClosed([x EXCEPT !.e.alarm = FALSE], c \in Phones,
                                    waits)
              ELSE x)
  /\ UNCHANGED <<owner, received, proved>>

\* on_close: the client closed the websocket, or the server did before.
ClientClosed(c, waits) ==
  LET x == Stopped(At(c))
      y == IF x.e.sess = None THEN x
           ELSE [x EXCEPT !.m = SM!Parted(@, x.e.sess)] IN
  /\ Idle /\ engines[c].ws \in {"open", "closing"}
  /\ Takes(c, ClosedByClient(y, c \in Phones, waits))
  /\ UNCHANGED <<owner, received, proved>>

\* The periodic check of the sessions; the callback of a session is the
\* 'bye' of the engine that created it.
StartCheck(n) ==
  /\ Idle /\ sm.timers > 0
  /\ n \in 0..Len(sm.queue)
  /\ sm' = SM!CheckStarted(sm, n)
  /\ UNCHANGED <<engines, owner, received, proved>>

ExpireSession(waits) ==
  LET s == Head(sm.batch)
      c == owner[s]
      x == Bye([At(c) EXCEPT !.m = SM!Expired(@)], c, waits) IN
  /\ sm.checking /\ sm.batch # <<>>
  /\ IF s \in sm.calls
     THEN Takes(c, IF x.raised THEN [x EXCEPT !.m = SM!CheckBroken(@)] ELSE x)
     ELSE sm' = SM!Expired(sm) /\ UNCHANGED engines
  /\ UNCHANGED <<owner, received, proved>>

EndCheck ==
  /\ sm.checking /\ sm.batch = <<>>
  /\ sm' = SM!CheckEnded(sm)
  /\ UNCHANGED <<engines, owner, received, proved>>

\* A session object is gone when nothing holds it any more: neither the queue
\* nor an engine, which the registered timeout of its connection keeps.
Collect(s) ==
  /\ s \in sm.known /\ ~SM!Queued(sm.queue \o sm.batch, s)
  /\ \A c \in Conns : engines[c].sess = s =>
                       engines[c].ws = "closed" /\ ~engines[c].alarm
  /\ sm' = [sm EXCEPT !.known = @ \ {s}]
  /\ UNCHANGED <<engines, owner, received, proved>>

\* The stored protocol state of a session reaches its time to live.
Forget(s) ==
  /\ s \in sm.stored
  /\ sm' = [sm EXCEPT !.stored = @ \ {s}]
  /\ UNCHANGED <<engines, owner, received, proved>>

MessageStep(c, waits) ==
  \/ Hello(c)
  \/ \E dst \in States : Register(c, dst)
  \/ \E own \in BOOLEAN : \/ Auth(c, own) \/ Rpc(c, own)
                          \/ Decided(c, own, waits)
                          \/ \E meant \in BOOLEAN : Goodbye(c, own, meant, waits)
  \/ \E s \in Tokens : RestoreState(c, s, waits)

LoopStep(c, waits) ==
  \/ \E dst \in States : \/ HelloDecided(c, dst, waits)
                         \/ AuthDecided(c, dst, waits)
                         \/ Registered(c, dst)
  \/ Timeout(c, waits)

CheckStep ==
  \/ \E n \in 0..Len(sm.queue) : StartCheck(n)
  \/ \E waits \in BOOLEAN : ExpireSession(waits)
  \/ EndCheck

Next ==
  \/ \E c \in Conns, waits \in BOOLEAN :
       \/ MessageStep(c, waits) \/ LoopStep(c, waits)
       \/ ClientClosed(c, waits)
  \/ \E c \in Conns : Open(c) \/ TryProbe(c) \/ CancelAuth(c)
  \/ \E s \in Tokens \ {0} : Collect(s) \/ Forget(s)
  \/ CheckStep

Spec == Init /\ [][Next]_vars

\* The event loop runs what is due, and time passes.
FairSpec ==
  /\ Spec
  /\ WF_vars(\E waits \in BOOLEAN : ExpireSession(waits))
  /\ WF_vars(EndCheck)
  /\ SF_vars(\E n \in 1..Len(sm.queue) : StartCheck(n))

-----------------------------------------------------------------------------
(* Properties.                                                             *)

\* An engine that the cancellation by an RPC's flow made ready, which asks
\* for no proof (cancel_auth), and what follows.
Probing == {"ready", "probetrying", "probegetting"}
Lifted(e) == e.lifted /\ e.st \in Probing

\* An engine beyond its first state has a session, whatever decisions were
\* pending when it left one: 'serverHello' names its token (handshake,
\* app_registered).  One that was lifted need not have one.
SessionNeeded ==
  \A c \in Conns : engines[c].st \notin {"connected", "disconnected"} =>
                     engines[c].sess # None \/ Lifted(engines[c])

\* An open connection is served as a known application only after the
\* signature of its key or its registration secret was verified, also when
\* decisions arrive late and sessions are restored, unless it was lifted.
Proven ==
  \A c \in Conns :
    engines[c].ws = "open"
      /\ engines[c].st \in {"appregistered", "resourceget"} \cup Probing =>
    c \in proved \/ Lifted(engines[c])

\* A disconnected engine has closed its websocket, on every path that ends a
\* connection (disconnect, close_connection) but the one on which the shutdown
\* of an extension's flow raises.
DisconnectedCloses ==
  \A c \in Conns : engines[c].st = "disconnected" =>
                     engines[c].ws # "open" \/ engines[c].stranded

\* The session a connection created, if no other connection shares it.
Own(c) ==
  /\ engines[c].sess \notin {None, 0} /\ owner[engines[c].sess] = c
  /\ \A d \in Conns \ {c} : engines[d].sess # engines[c].sess

\* The session of an open connection waits to expire, or is about to: no
\* order of refreshes, second handshakes, timeouts and closes takes it out of
\* the queue before the connection ends (SessionManager, close_connection).
\* Its close ends the session first, so a stranded websocket has none.
SessionRunsOut ==
  \A c \in Conns :
    engines[c].ws = "open" /\ Own(c) /\ ~sm.lapsed /\ ~engines[c].stranded =>
    SM!Queued(sm.queue \o sm.batch, engines[c].sess)

\* "Client should send message with the given refresh token during the
\* session TTL period, otherwise session and connection will be closed"
\* (session.py), as long as the periodic check has not been lost and no
\* shutdown of a flow has kept the connection open.
SilentEnds ==
  \A c \in Conns :
    engines[c].ws = "open" /\ Own(c) ~>
      engines[c].ws # "open" \/ ~Own(c) \/ sm.lapsed \/ engines[c].stranded
=============================================================================
