---------------------------- MODULE ContextLedger ----------------------------
(***************************************************************************)
(* The context ledger (context/ledger.py) of one inbox workflow, the steps *)
(* that write it (src/workflows.py), the engine's call that links their    *)
(* decisions to step results, and what the audit (context/audit_view.py,   *)
(* context/measurement.py) reads out of it.                                *)
(*                                                                         *)
(* One action is one transaction of the ledger.  A crash falls between any *)
(* two of them and the step is run again from its beginning; the selection *)
(* is the same then, and so are prompts, but the model may answer          *)
(* something else.  Rows are named by their unique keys.                   *)
(***************************************************************************)
EXTENDS ContextSelector

CONSTANTS
  Corpus,     \* the sequence of [id, score, time, tokens] the selector gets
  Budget,     \* its token budget
  MountLimit, \* how many selected items the prompts take
  Responses,  \* what the model may answer
  Claims,     \* the items a response calls influential
  Actionable, \* the responses of triage after which a draft is asked for
  MaxCrashes

Email == "email"
StepOrder == <<"ingest_email", "select_context", "triage_llm", "draft_reply">>

\* What _context_items makes of the mailbox and the calendar: items with ids of their own, the
\* incoming mail not among them.
ASSUME LedgerAssumption ==
  /\ Corpus \in Seq([id : STRING, score : Int, time : Int, tokens : Int])
  /\ \A i, j \in DOMAIN Corpus : Corpus[i].id = Corpus[j].id => i = j
  /\ \A i \in DOMAIN Corpus : Corpus[i].id # Email
  /\ Responses # {} /\ Claims \in [Responses -> SUBSET STRING]
  /\ MountLimit \in Nat /\ MaxCrashes \in Nat

VARIABLES
  artifacts,  \* context_artifacts
  events,     \* the artifact events of context_ledger_events
  told,       \* its system events: the decisions and lineage rows they name
  decisions,  \* context_decisions, in the order of created_at
  lineage,    \* context_decision_lineage, by decision
  results,    \* step_results: the checkpointed steps and their responses
  at,         \* how many calls of the running step have returned; -1: none runs
  response,   \* what the model answers to it
  owed,       \* the system event the ledger call is about to add
  crashes

ledger == <<artifacts, events, told, decisions, lineage>>
memory == <<at, response, owed>>
vars == <<ledger, results, memory, crashes>>

Nobody == [kind |-> "none"]
Selected == Ids(Select(TRUE, Corpus, Budget).selected)
Rejected == Ids(Select(TRUE, Corpus, Budget).rejected)
Items == Range(Selected) \cup Range(Rejected)
Mounted == {Email} \cup {Selected[i] : i \in 1 .. (IF Len(Selected) < MountLimit THEN Len(Selected) ELSE MountLimit)}

Init ==
  /\ artifacts = {} /\ events = {} /\ told = {} /\ decisions = <<>> /\ lineage = {}
  /\ results = <<>> /\ at = -1 /\ response = CHOOSE r \in Responses : TRUE
  /\ owed = Nobody /\ crashes = 0
-----------------------------------------------------------------------------
(* The ledger calls of each step, in order.                                *)

Artifact(role, source, content) ==
  [call |-> "artifact", key |-> [role |-> role, source |-> source, content |-> content]]
Event(key, type) == [call |-> "event", key |-> key, type |-> type]
Decide(r) == [call |-> "decision", response |-> r]
Credit(item) == [call |-> "lineage", item |-> item]

Source(item) == [role |-> "source_artifact", source |-> item, content |-> item]
Prompt(step) == [role |-> "prompt_artifact", source |-> step, content |-> "prompt"]
Answer(step, r) == [role |-> "response_artifact", source |-> step, content |-> r]
RecordSource(item) == Artifact("source_artifact", item, item)

\* ingest_email: the incoming mail is an artifact and observed.
IngestCalls == <<RecordSource(Email), Event(Source(Email), "observed")>>

\* select_context: every candidate is retrieved, the rejected ones rejected,
\* and when all that is recorded the selected ones are selected.
RetrieveCalls(item) == <<RecordSource(item), Event(Source(item), "retrieved")>>
SelectCalls ==
  FlattenSeq([i \in DOMAIN Selected |-> RetrieveCalls(Selected[i])])
  \o FlattenSeq([i \in DOMAIN Rejected |->
       Append(RetrieveCalls(Rejected[i]), Event(Source(Rejected[i]), "rejected"))])
  \o [i \in DOMAIN Selected |-> Event(Source(Selected[i]), "selected")]

\* _record_consumed, before the model is asked.
ConsumeCalls == LET m == SetToSeq(Mounted) IN [i \in DOMAIN m |-> Event(Source(m[i]), "consumed")]

\* The artifacts a response is credited with: those it names and was given.
SlipInfluential(r) == Claims[r]
Influential(r) == Claims[r] \cap Mounted

\* _record_model_context, when it has answered.
ModelCalls(step, r) ==
  LET credit == SetToSeq(Influential(r))
  IN  <<Artifact("prompt_artifact", step, "prompt"), Artifact("response_artifact", step, r),
        Event(Prompt(step), "consumed"), Event(Answer(step, r), "observed"), Decide(r)>>
      \o [i \in DOMAIN credit |-> Credit(credit[i])]

Step == StepOrder[Len(results) + 1]
DraftWanted == results[3].response \in Actionable
Calls ==
  CASE Step = "ingest_email"   -> IngestCalls
    [] Step = "select_context" -> SelectCalls
    [] Step = "triage_llm"     -> ConsumeCalls \o ModelCalls(Step, response)
    [] Step = "draft_reply"    -> IF DraftWanted THEN ConsumeCalls \o ModelCalls(Step, response) ELSE <<>>
-----------------------------------------------------------------------------
(* What a call does.                                                       *)

Running == at >= 0 /\ Len(results) < Len(StepOrder)
Call == Calls[at + 1]
Calling(kind) == Running /\ owed = Nobody /\ at < Len(Calls) /\ Call.call = kind

\* record_artifact returns the row that has the key, or inserts it.
SlipRecordArtifact ==
  /\ Calling("artifact")
  /\ artifacts' = artifacts \cup {Call.key} /\ at' = at + (IF Call.key \in artifacts THEN 2 ELSE 1)
  /\ UNCHANGED <<events, told, decisions, lineage, results, response, owed, crashes>>
RecordArtifact ==
  /\ Calling("artifact")
  /\ artifacts' = artifacts \cup {Call.key} /\ at' = at + 1
  /\ UNCHANGED <<events, told, decisions, lineage, results, response, owed, crashes>>

\* record_event of an artifact, once for each step and type.
RecordEvent ==
  /\ Calling("event")
  /\ events' = events \cup {[step |-> Step, key |-> Call.key, type |-> Call.type]}
  /\ at' = at + 1
  /\ UNCHANGED <<artifacts, told, decisions, lineage, results, response, owed, crashes>>

\* The decision a prompt and response of the step already have, if any.
SlipDecisionOf(step, r) == {d \in DOMAIN decisions : decisions[d].step = step}
DecisionOf(step, r) == {d \in DOMAIN decisions : decisions[d].step = step /\ decisions[d].response = r}

\* record_decision returns early if there is one; else it inserts a row that is
\* not linked to a result, and adds the event in a transaction of its own.
RecordDecision ==
  /\ Calling("decision")
  /\ \/ /\ DecisionOf(Step, Call.response) # {}
        /\ at' = at + 1 /\ UNCHANGED <<decisions, owed>>
     \/ /\ DecisionOf(Step, Call.response) = {}
        /\ decisions' = Append(decisions, [step |-> Step, response |-> Call.response, result |-> 0])
        /\ owed' = [kind |-> "decision_recorded", decision |-> Len(decisions')] /\ UNCHANGED at
  /\ UNCHANGED <<artifacts, events, told, lineage, results, response, crashes>>

\* record_lineage refuses what is not a selected or consumed source artifact,
\* ignores a second row, and adds the event only for a new one.
Creditable(item) ==
  Source(item) \in artifacts /\ \E e \in events : e.key = Source(item) /\ e.type \in {"selected", "consumed"}
RecordLineage ==
  /\ Calling("lineage")
  /\ LET row == [decision |-> CHOOSE d \in DecisionOf(Step, response) : TRUE, item |-> Call.item]
     IN  \/ /\ Creditable(Call.item) /\ row \notin lineage
            /\ lineage' = lineage \cup {row}
            /\ owed' = [kind |-> "lineage_recorded", row |-> row] /\ UNCHANGED at
         \/ /\ Creditable(Call.item) /\ row \in lineage
            /\ at' = at + 1 /\ UNCHANGED <<lineage, owed>>
  /\ UNCHANGED <<artifacts, events, told, decisions, results, response, crashes>>

\* The system event that follows a new row.
RecordSystemEvent ==
  /\ Running /\ owed # Nobody
  /\ told' = told \cup {owed} /\ owed' = Nobody /\ at' = at + 1
  /\ UNCHANGED <<artifacts, events, decisions, lineage, results, response, crashes>>
-----------------------------------------------------------------------------
(* The engine.                                                             *)

StartStep ==
  /\ at = -1 /\ Len(results) < Len(StepOrder)
  /\ \E r \in Responses : response' = r
  /\ at' = 0
  /\ UNCHANGED <<ledger, results, owed, crashes>>

Checkpoint ==
  /\ Running /\ owed = Nobody /\ at = Len(Calls)
  /\ results' = Append(results, [step |-> Step, response |-> response])
  /\ at' = -2
  /\ UNCHANGED <<ledger, response, owed, crashes>>

\* link_decisions_to_step_result: every decision of the step that has no
\* result gets the newest one.
SlipLink ==
  /\ at = -2
  /\ LET s == results[Len(results)].step
     IN  decisions' = [d \in DOMAIN decisions |->
           IF d = Len(decisions) /\ decisions[d].step = s THEN [decisions[d] EXCEPT !.result = Len(results)]
           ELSE decisions[d]]
  /\ at' = -1
  /\ UNCHANGED <<artifacts, events, told, lineage, results, response, owed, crashes>>
Link ==
  /\ at = -2
  /\ LET s == results[Len(results)].step
     IN  decisions' = [d \in DOMAIN decisions |->
           IF decisions[d].step = s /\ decisions[d].result = 0
           THEN [decisions[d] EXCEPT !.result = Len(results)] ELSE decisions[d]]
  /\ at' = -1
  /\ UNCHANGED <<artifacts, events, told, lineage, results, response, owed, crashes>>

\* The process dies, or the step raises: the next call runs the step again.
Crash ==
  /\ at # -1 /\ crashes < MaxCrashes
  /\ at' = -1 /\ owed' = Nobody /\ crashes' = crashes + 1
  /\ UNCHANGED <<ledger, results, response>>

Next ==
  \/ StartStep \/ Checkpoint \/ Link \/ Crash
  \/ RecordArtifact \/ RecordEvent \/ RecordDecision \/ RecordLineage \/ RecordSystemEvent

Spec == Init /\ [][Next]_vars
-----------------------------------------------------------------------------
(* What the audit reads out of the ledger.                                 *)

\* build_context_audit_view keeps one decision of a step: the last one.
Shown(step) == LET ds == {d \in DOMAIN decisions : decisions[d].step = step}
               IN  IF ds = {} THEN 0 ELSE CHOOSE d \in ds : \A other \in ds : other <= d
CreditedTo(d) == {row.item : row \in {l \in lineage : l.decision = d}}
Types(step, key) == {e.type : e \in {f \in events : f.step = step /\ f.key = key}}
InfluenceLabel(step, key) ==
  CASE key.role # "source_artifact"             -> "an audit artifact"
    [] key.role = "source_artifact" /\ key.source \in CreditedTo(Shown(step)) -> "influential"
    [] OTHER -> IF "consumed" \in Types(step, key) THEN "consumed"
                ELSE IF "selected" \in Types(step, key) THEN "selected" ELSE "observed"
\* The artifacts of a step are shown as rejected or else as mounted context.
RejectedContext(step) == {key \in artifacts : "rejected" \in Types(step, key)}
MountedContext(step) == {key \in artifacts : Types(step, key) # {}} \ RejectedContext(step)

\* measure_audit_completeness: how many of the expected ids were found.
With(type) == {e.key : e \in {f \in events : f.type = type}}
Coverage(expected, observed) == Cardinality(expected \cap observed)
Complete(expected, observed) == Coverage(expected, observed) = Cardinality(expected)
Sources(items) == {Source(item) : item \in items}
-----------------------------------------------------------------------------
TypeOK ==
  /\ at \in Int /\ at >= -2 /\ crashes \in 0 .. MaxCrashes /\ response \in Responses
  /\ \A l \in lineage : l.decision \in DOMAIN decisions /\ l.item \in Items \cup {Email}
  /\ \A e \in events : e.key \in artifacts
  /\ \A d \in DOMAIN decisions : decisions[d].result \in 0 .. Len(results)

\* However often a step was cut off and run again, once it is checkpointed the
\* ledger holds every event its run should have left, and the decision its
\* response made is credited with exactly the mounted sources it names: what
\* an attempt finds already recorded does not make it skip the rest
\* (ledger.py:74, 136, 193, 275).
AuditComplete ==
  /\ Len(results) >= 2 =>
       /\ Complete(Sources(Items), With("retrieved"))
       /\ Complete(Sources(Range(Selected)), With("selected"))
  /\ \A n \in DOMAIN results :
       n = 3 \/ (n = 4 /\ DraftWanted) =>
         LET step == results[n].step
             mine == DecisionOf(step, results[n].response)
         IN  /\ \A item \in Mounted : "consumed" \in Types(step, Source(item))
             /\ Cardinality(mine) = 1
             /\ \A d \in mine : CreditedTo(d) = Influential(results[n].response)

\* The trail of a source only goes forward: what is shown as influential was
\* mounted into a prompt of that very step, though record_lineage would accept
\* a source that was only selected, or consumed by another step; what is
\* mounted was not rejected; and no source is both selected and rejected.
LifecycleOrder ==
  /\ \A step \in {"triage_llm", "draft_reply"} :
       /\ RejectedContext(step) = {}
       /\ \A d \in DOMAIN decisions : decisions[d].step = step =>
            \A item \in CreditedTo(d) : "consumed" \in Types(step, Source(item))
       /\ \A key \in MountedContext(step) :
            InfluenceLabel(step, key) = "influential" => "consumed" \in Types(step, key)
  /\ With("selected") \cup With("rejected") \subseteq With("retrieved")
  /\ With("selected") \cap With("rejected") = {}
  /\ \A key \in With("consumed") : key.role = "source_artifact" =>
       key \notin With("rejected") /\ (key = Source(Email) \/ key \in With("selected"))

\* A decision or lineage row and the event that announces it are separate
\* transactions, and so are a checkpoint and the link of its decisions.  What
\* is missing is never made good, but every gap was paid for by a crash: one
\* gap for one crash, plus the one being closed right now.
Unheard == {d \in DOMAIN decisions : [kind |-> "decision_recorded", decision |-> d] \notin told}
UnheardLineage == {l \in lineage : [kind |-> "lineage_recorded", row |-> l] \notin told}
Unlinked == {d \in DOMAIN decisions :
  decisions[d].result = 0 /\ \E n \in DOMAIN results : results[n].step = decisions[d].step}
UnlinkedSteps == {decisions[d].step : d \in Unlinked}
GapsPaidByCrashes ==
  Cardinality(Unheard) + Cardinality(UnheardLineage) + Cardinality(UnlinkedSteps)
    <= crashes + (IF owed # Nobody \/ at = -2 THEN 1 ELSE 0)

\* The audit shows one decision of a step.  With at most one crash it is the one the
\* checkpointed response came from, though the decision of the lost attempt is
\* in the ledger too and is linked to the same result.  (A second crash can
\* show another one: answers a, b, then a again leave b as the last row.)
AuditShowsCheckpoint ==
  crashes < 2 => \A n \in DOMAIN results :
    n = 3 \/ (n = 4 /\ DraftWanted) =>
      /\ Shown(results[n].step) # 0
      /\ decisions[Shown(results[n].step)].response = results[n].response
=============================================================================
