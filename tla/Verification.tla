----------------------------- MODULE Verification -----------------------------
(* What a verification promises to the server, however its jobs are run: the  *)
(* samples of a run are judged one by one, and the run is told once, with a   *)
(* verdict that the samples bear out, to whoever asked last.                  *)
(* VerificationJobs implements it; BioauthFlow and its JobDone rely on it.    *)
EXTENDS Integers, FiniteSets

CONSTANTS Runs,     \* verifications, by the code of their callback
          Samples,  \* samples of a verification
          None

VARIABLES stage,   \* is a run "new", "open" or "over"?
          holder,  \* the run that asked last
          vote,    \* what the algorithm said of a sample
          answer   \* run and verdict a callback was called with

vars == <<stage, holder, vote, answer>>

Init ==
  /\ stage = [v \in Runs |-> "new"]
  /\ holder = None
  /\ vote = [j \in Runs \X Samples |-> None]
  /\ answer = [v \in Runs |-> None]

\* The samples of a run that were judged that way.
Judged(v, o) == {i \in Samples : vote[<<v, i>>] = o}
\* Every sample was accepted or refused, none was beyond the algorithm.
Complete(v) == Judged(v, "yes") \cup Judged(v, "no") = Samples
Accepted(v) == 2 * Cardinality(Judged(v, "yes")) >= Cardinality(Samples)

\* A positive verdict has a majority of all samples behind it.  A refusal has
\* not, or takes the place of an error that was not reported in time.
BornOut(v, x) ==
  CASE x = "yes" -> Complete(v) /\ Accepted(v)
    [] x = "no"  -> (Complete(v) /\ ~Accepted(v)) \/ Judged(v, "error") # {}
    [] OTHER     -> Judged(v, "error") # {}

Ask(v) ==
  /\ stage[v] = "new"
  /\ stage' = [stage EXCEPT ![v] = "open"]
  /\ holder' = v
  /\ UNCHANGED <<vote, answer>>

Judge(v, i, o) ==
  /\ stage[v] = "open" /\ vote[<<v, i>>] = None
  /\ vote' = [vote EXCEPT ![<<v, i>>] = o]
  /\ UNCHANGED <<stage, holder, answer>>

\* A callback is called for one run only.
Tell(v, x) ==
  /\ stage[v] = "open" /\ BornOut(v, x)
  /\ stage' = [stage EXCEPT ![v] = "over"]
  /\ answer' = IF answer[holder] = None THEN [answer EXCEPT ![holder] = <<v, x>>]
               ELSE answer
  /\ UNCHANGED <<holder, vote>>

Next ==
  \E v \in Runs :
    \/ Ask(v)
    \/ \E i \in Samples, o \in {"yes", "no", "error"} : Judge(v, i, o)
    \/ \E x \in {"yes", "no", "error", "max"} : Tell(v, x)

Spec == Init /\ [][Next]_vars
=============================================================================
