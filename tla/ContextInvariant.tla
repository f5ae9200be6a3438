-------------------------- MODULE ContextInvariant --------------------------
(***************************************************************************)
(* The inductive invariant of the context ledger, for every corpus, budget *)
(* and model and any number of crashes: what the calls an attempt has made *)
(* left in the ledger, what a checkpointed step left, and which gaps and   *)
(* which last decisions the crashes so far allow.                          *)
(***************************************************************************)
EXTENDS ContextLedger

\* The names of items and steps, and the keys of artifacts.
CorpusIds == {Corpus[i].id : i \in DOMAIN Corpus}
Prompting == {"triage_llm", "draft_reply"}
Names == CorpusIds \cup {Email, "ingest_email", "select_context", "triage_llm", "draft_reply"}
Keys == {Source(x) : x \in Names} \cup {Prompt(x) : x \in Names}
  \cup {Answer(x, r) : x \in Names, r \in Responses}
-----------------------------------------------------------------------------
\* What a call that has returned left in the ledger.
Done(c) ==
  /\ c.call = "artifact" => c.key \in artifacts
  /\ c.call = "event" => [step |-> Step, key |-> c.key, type |-> c.type] \in events
  /\ c.call = "decision" => DecisionOf(Step, c.response) # {}
  /\ c.call = "lineage" =>
       \E d \in DecisionOf(Step, response) : [decision |-> d, item |-> c.item] \in lineage

StepNames == {"ingest_email", "select_context", "triage_llm", "draft_reply"}

\* Types, and which steps a call may be at.
LedgerTypes ==
  /\ at \in Int /\ at >= -2 /\ crashes \in 0 .. MaxCrashes /\ response \in Responses
  /\ results \in Seq([step : StepNames, response : Responses]) /\ Len(results) <= 4
  /\ \A n \in DOMAIN results : results[n].step = StepOrder[n]
  /\ decisions \in Seq([step : StepNames, response : Responses, result : Nat])
  /\ at = -2 => Len(results) >= 1
  /\ at >= 0 => Len(results) < 4
  /\ at < 0 => owed = Nobody
  /\ artifacts \subseteq Keys

\* Every call before the one the step is at is done, and the one whose event is owed too.
StepProgress ==
  at >= 0 =>
    /\ at <= Len(Calls) /\ \A j \in 1 .. at : Done(Calls[j])
    /\ owed # Nobody => at < Len(Calls) /\ Done(Calls[at + 1])

\* A step has one decision for a response, and a decision is credited only with sources its
\* response names and that were consumed by its step.
LedgerRows ==
  /\ \A d, e \in DOMAIN decisions :
       decisions[d].step = decisions[e].step /\ decisions[d].response = decisions[e].response => d = e
  /\ \A d \in DOMAIN decisions :
       /\ decisions[d].result <= Len(results)
       /\ \E n \in 1 .. 4 : n <= Len(results) + 1 /\ decisions[d].step = StepOrder[n]
  /\ \A l \in lineage :
       /\ l = [decision |-> l.decision, item |-> l.item] /\ l.decision \in DOMAIN decisions
       /\ l.item \in Influential(decisions[l.decision].response)
       /\ [step |-> decisions[l.decision].step, key |-> Source(l.item), type |-> "consumed"] \in events
  /\ IsFiniteSet(lineage)

\* An event is about an artifact that is there.  Only a retrieved source is selected or rejected,
\* by select_context, and only a mounted one is consumed, after it was selected.
EventTrail ==
  \A e \in events :
    /\ e.key \in artifacts
    /\ e.type \in {"selected", "rejected"} =>
         e.step = "select_context" /\ \E f \in events : f.key = e.key /\ f.type = "retrieved"
    /\ e.type = "selected" => \E i \in DOMAIN Selected : e.key = Source(Selected[i])
    /\ e.type = "rejected" => \E i \in DOMAIN Rejected : e.key = Source(Rejected[i])
    /\ e.type = "consumed" /\ e.key.role = "source_artifact" =>
         Len(results) >= 2 /\ \E item \in Mounted : e.key = Source(item)

\* The n-th step asks the model.
Prompted(n) == n = 3 \/ (n = 4 /\ DraftWanted)
Observed(key, type) == \E e \in events : e.key = key /\ e.type = type

\* What checkpointed steps left behind.
Checkpointed ==
  /\ Len(results) >= 1 => Source(Email) \in artifacts
  /\ Len(results) >= 2 =>
       /\ \A item \in Items : Source(item) \in artifacts /\ Observed(Source(item), "retrieved")
       /\ \A i \in DOMAIN Selected : Observed(Source(Selected[i]), "selected")
  /\ \A n \in DOMAIN results : Prompted(n) =>
       /\ \A item \in Mounted :
            [step |-> StepOrder[n], key |-> Source(item), type |-> "consumed"] \in events
       /\ \E d \in DecisionOf(StepOrder[n], results[n].response) :
            \A item \in Influential(results[n].response) : [decision |-> d, item |-> item] \in lineage

\* The gaps that are not being closed right now.
Untold == {d \in Unheard : owed # [kind |-> "decision_recorded", decision |-> d]}
UntoldRows == {l \in UnheardLineage : owed # [kind |-> "lineage_recorded", row |-> l]}
LeftUnlinked == {s \in UnlinkedSteps : ~(at = -2 /\ s = StepOrder[Len(results)])}
GapsCovered == Cardinality(Untold) + Cardinality(UntoldRows) + Cardinality(LeftUnlinked) <= crashes

DecisionsOf(step) == {d \in DOMAIN decisions : decisions[d].step = step}
\* The decision of a response is the last of its step.
IsLast(step, r) ==
  \E d \in DecisionsOf(step) : decisions[d].response = r /\ \A e \in DecisionsOf(step) : e <= d

\* The running step has at most the decision of a lost attempt and, after it, its own.
LastIsShown ==
  /\ Len(results) < 4 =>
       /\ crashes = 0 => \A d \in DecisionsOf(Step) : at >= 0 /\ decisions[d].response = response
       /\ crashes = 1 => \/ \A d, e \in DecisionsOf(Step) : d = e
                         \/ at >= 0 /\ IsLast(Step, response)
  /\ crashes < 2 => \A n \in DOMAIN results : Prompted(n) => IsLast(StepOrder[n], results[n].response)

LedgerInv ==
  /\ LedgerTypes /\ StepProgress /\ LedgerRows /\ EventTrail /\ Checkpointed /\ GapsCovered
  /\ LastIsShown
=============================================================================
