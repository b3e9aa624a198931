----------------------------- MODULE ProbeRequest -----------------------------
(* What a phone is asked for in one try and what it has sent so far         *)
(* (probes/proberequest.py).  Operators only: a module that models tries    *)
(* keeps the request as state.                                              *)
(*                                                                          *)
(* A request maps every authentication type of the try to the number of     *)
(* samples that are needed and the number received.                         *)
EXTENDS Naturals

\* ProbeRequest() and one add_probe for each resource of the try; a resource
\* that asks for no sample is not added.
Asked(samples) ==
  LET types == {t \in DOMAIN samples : samples[t] > 0} IN
  [need |-> [t \in types |-> samples[t]], got |-> [t \in types |-> 0]]

\* add_next_sample: samples are taken while some are missing ...
Accepts(q, t) == t \in DOMAIN q.need /\ q.need[t] > q.got[t]
\* ... and then all of the message's samples, even if that is more than needed.
Added(q, t, k) == [q EXCEPT !.got[t] = @ + k]

Filled(q, t) == q.got[t] = q.need[t]
\* has_pending_probes, with the condition the policy has by now: 'any' waits
\* for the type that was just received, 'all' for every type of the request.
Pending(q, t, wait) ==
  IF wait = "any" THEN ~Filled(q, t) ELSE \E u \in DOMAIN q.need : ~Filled(q, u)

\* generate_try_resources: a training asks for the types of
\* _training_auth_types.
TrainingTypes == {"face"}
=============================================================================
