----------------------------- MODULE AgentRunner -----------------------------
(***************************************************************************)
(* One AgentRunner run (agent/runner.py) with the part of the engine it    *)
(* uses: every turn of the agent is a workflow step that reasons over the  *)
(* history in step_data, a proposed write waits for a decision, and the    *)
(* commit handler carries out what was approved.  The store calls of the   *)
(* engine are told apart where a crash between two of them matters; a turn *)
(* that only reads leaves nothing behind before its checkpoint.            *)
(*                                                                         *)
(* run() decides the gates itself (auto_approve), and anybody with the     *)
(* database may decide any gate at any time: operators, or the loop of     *)
(* another run.  After run() has returned, raised or died, somebody calls  *)
(* engine.resume() to go on.                                               *)
(***************************************************************************)
EXTENDS Integers, FiniteSets, SequencesExt

CONSTANTS
  MaxTurns,    \* the agents that may run, with their max_turns: a function
  Worlds,      \* the failures injected into the tools
  AutoReject,  \* auto_reject_writes
  FreeWrites,  \* the writes a free agent may propose
  Strangers,   \* pending gates of other workflows in the database, at most
  MaxOthers,   \* bound on the gates that others than the loop decide
  MaxCrashes   \* bound on Crash

Agents == DOMAIN MaxTurns
ReadTools == {"search_customer", "get_ticket_history", "lookup_kb"}
WriteTools == {"update_ticket", "escalate"}
Stranger == [tool |-> "update_ticket", args |-> "strange"]

ASSUME AgentAssumption ==
  /\ \A a \in Agents : MaxTurns[a] \in 1 .. 99   \* the order of keys below
  /\ Worlds \subseteq SUBSET {"injection", "malformed", "slow"}
  /\ Strangers \in Nat /\ MaxOthers \in Nat /\ MaxCrashes \in Nat

VARIABLES
  agent, world,        \* the agent and the tools of this run
  stepData, current, status,  \* the workflow row; step_data by turn
  gates,               \* approval_queue, in order of requested_at
  log,                 \* side_effect_log: the keys
  pc, turn,            \* where the process is, and the turn it runs
  auto,                \* the process is run() with its loop, not a resume()
  listed,              \* the gate the loop has taken from the list, 0 for none
  writes,              \* what the tools have written
  approved,            \* history: turn and payload whenever a gate was approved
  others,              \* history: the gates somebody else than the loop has decided
  blocked, crashes     \* unauthorized_writes_blocked; history: crashes

rowVars == <<stepData, current, status>>
history == <<approved, others, blocked, crashes>>
vars == <<agent, world, rowVars, gates, log, pc, turn, auto, listed, writes, history>>

Absent == [kind |-> "absent", trace |-> <<>>]
Pending == [kind |-> "pending", trace |-> <<>>]
Denied == [kind |-> "denied", trace |-> <<>>]
Trace(t) == [kind |-> "history", trace |-> t]
Turns == 0 .. MaxTurns[agent] - 1

Init ==
  /\ agent \in Agents /\ world \in (IF agent = "mini" THEN Worlds ELSE {{}})
  /\ stepData = [t \in Turns |-> Absent] /\ current = -1 /\ status = "running"
  /\ \E n \in 0 .. Strangers :
       gates = [i \in 1 .. n |-> [turn |-> -1, what |-> Stranger, decision |-> "pending"]]
  /\ log = {} /\ writes = <<>> /\ pc = "turn" /\ turn = 0 /\ auto \in BOOLEAN
  /\ listed = 0 /\ approved = {} /\ others = {} /\ blocked = 0 /\ crashes = 0
-----------------------------------------------------------------------------
(* The history a turn reads: _history_from_step_data.                      *)

\* step_data is stored with sorted keys: agent_turn_10 comes before agent_turn_2.
KeyOrder(t) == IF t < 10 THEN 100 * t ELSE 100 * (t \div 10) + 1 + (t % 10)
ByKey ==
  [r \in 1 .. Cardinality(Turns) |->
    CHOOSE t \in Turns : Cardinality({s \in Turns : KeyOrder(s) <= KeyOrder(t)}) = r]

DenialEntry(t) == [by |-> t, tool |-> "none", saw |-> "denied", final |-> FALSE]

\* The last history in the order of keys, and an entry for each denial after it.
SlipHistoryFrom(data) ==
  LET Read(trace, t) == IF data[t].kind = "history" THEN data[t].trace ELSE trace
  IN  FoldLeft(Read, <<>>, ByKey)
HistoryFrom(data) ==
  LET Read(trace, t) ==
        CASE data[t].kind = "history" -> data[t].trace
          [] data[t].kind = "denied" -> Append(trace, DenialEntry(t))
          [] OTHER -> trace
  IN  FoldLeft(Read, <<>>, ByKey)
History == HistoryFrom(stepData)
Finished(trace) == trace # <<>> /\ Last(trace).final
-----------------------------------------------------------------------------
(* The agents: what each may answer to a history.                          *)

Call(tool, args) == [tool |-> tool, args |-> args]
Finish == Call("finish", "none")

\* MiniReActAgent.step
MiniReAct(trace) ==
  LET saw == {trace[i].saw : i \in DOMAIN trace}
      used == {trace[i].tool : i \in DOMAIN trace}
  IN  CASE "denied" \in saw -> Finish
        [] "denied" \notin saw /\ "injection" \in saw -> Call("escalate", "admin")
        [] OTHER ->
             CASE "search_customer" \notin used -> Call("search_customer", "none")
               [] "search_customer" \in used /\ "get_ticket_history" \notin used ->
                    Call("get_ticket_history", "none")
               [] OTHER ->
                    IF "parse_error" \in saw THEN Finish
                    ELSE IF "lookup_kb" \notin used THEN Call("lookup_kb", "none")
                    ELSE IF "tool_timeout" \in saw THEN Finish
                    ELSE IF "update_ticket" \notin used THEN Call("update_ticket", "resolved")
                    ELSE Finish

\* MockADKAgent behind ADKAgentAdapter counts the thoughts in its messages, one for each entry.
MockADK(trace) == IF Len(trace) < 2 THEN Call("mock_tool", "none") ELSE Finish

\* Any AgentStep may answer differently when it is asked again.
Answers(trace) ==
  CASE agent = "mini" -> {MiniReAct(trace)}
    [] agent = "adk" -> {MockADK(trace)}
    [] agent = "reader" -> {Call("lookup_kb", "none")}
    [] OTHER -> FreeWrites \cup {Call("lookup_kb", "none"), Finish}

\* _execute_read_tool over MockCRM: output that does not parse, a slow tool and an exception
\* become observations.
Observations(tool) ==
  CASE tool = "search_customer" -> {IF "injection" \in world THEN "injection" ELSE "customer"}
    [] tool = "get_ticket_history" -> {IF "malformed" \in world THEN "parse_error" ELSE "tickets"}
    [] OTHER -> IF "slow" \in world THEN {"tool_timeout"}
                ELSE {"article"}

Entry(t, tool, saw, final) == [by |-> t, tool |-> tool, saw |-> saw, final |-> final]
-----------------------------------------------------------------------------
(* One turn: _make_turn_step in the engine's loop.                         *)

\* save_checkpoint leaves the workflow running.
Save(t, value) ==
  /\ stepData' = [stepData EXCEPT ![t] = value]
  /\ current' = t /\ status' = "running"

Checkpoint(trace) ==
  /\ Save(turn, Trace(trace)) /\ turn' = turn + 1
  /\ UNCHANGED <<agent, world, gates, log, pc, auto, listed, writes, history>>

SkipAfterFinal ==
  /\ pc = "turn" /\ turn \in Turns /\ Finished(History)
  /\ Checkpoint(History)

Thinks == pc = "turn" /\ turn \in Turns /\ ~Finished(History)

FinalTurn ==
  /\ Thinks /\ Finish \in Answers(History)
  /\ Checkpoint(Append(History, Entry(turn, "none", "nothing", TRUE)))

UnknownTool ==
  /\ Thinks
  /\ \E call \in Answers(History) :
       /\ call # Finish /\ call.tool \notin ReadTools \cup WriteTools
       /\ Checkpoint(Append(History, Entry(turn, call.tool, "unknown_tool", FALSE)))

ReadTurn ==
  /\ Thinks
  /\ \E call \in Answers(History) :
       /\ call.tool \in ReadTools
       /\ \E saw \in Observations(call.tool) :
            Checkpoint(Append(History, Entry(turn, call.tool, saw, FALSE)))

\* The agent, the router or the adapter raises: the engine marks the workflow failed and run()
\* raises.
TurnRaises ==
  /\ Thinks /\ agent # "mini"
  /\ status' = "failed" /\ pc' = "off" /\ auto' = FALSE
  /\ UNCHANGED <<agent, world, stepData, current, gates, log, turn, listed, writes, history>>

\* request_approval: the gate of the turn is asked for once, with the call first proposed.
GatesOf(t) == {i \in DOMAIN gates : gates[i].turn = t}
Latest(t) == CHOOSE i \in GatesOf(t) : \A j \in GatesOf(t) : j <= i
SlipRequest(t, call) ==
  gates' = IF GatesOf(t) # {} THEN [gates EXCEPT ![Latest(t)].what = call]
           ELSE Append(gates, [turn |-> t, what |-> call, decision |-> "pending"])
Request(t, call) ==
  gates' = IF GatesOf(t) # {} THEN gates
           ELSE Append(gates, [turn |-> t, what |-> call, decision |-> "pending"])

WriteTurn ==
  /\ Thinks
  /\ \E call \in Answers(History) : call.tool \in WriteTools /\ Request(turn, call)
  /\ pc' = "save_pending"
  /\ UNCHANGED <<agent, world, rowVars, log, turn, auto, listed, writes, history>>

SavePending ==
  /\ pc = "save_pending" /\ Save(turn, Pending) /\ pc' = "mark_paused"
  /\ UNCHANGED <<agent, world, gates, log, turn, auto, listed, writes, history>>

\* The engine returns: to run()'s loop, or to whoever called resume().
MarkPaused ==
  /\ pc = "mark_paused" /\ status' = "paused_approval"
  /\ pc' = IF auto THEN "decide" ELSE "off"
  /\ UNCHANGED <<agent, world, stepData, current, gates, log, turn, auto, listed, writes, history>>

Complete ==
  /\ pc = "turn" /\ turn \notin Turns
  /\ status' = "completed" /\ pc' = "off"
  /\ UNCHANGED <<agent, world, stepData, current, gates, log, turn, auto, listed, writes, history>>
-----------------------------------------------------------------------------
(* Decisions.                                                              *)

PendingGates == {i \in DOMAIN gates : gates[i].decision = "pending"}
Oldest == CHOOSE i \in PendingGates : \A j \in PendingGates : i <= j

Approve(i) ==
  /\ gates' = [gates EXCEPT ![i].decision = "approved"]
  /\ approved' = approved \cup {[turn |-> gates[i].turn, what |-> gates[i].what]}
Reject(i) == gates' = [gates EXCEPT ![i].decision = "rejected"] /\ UNCHANGED approved

\* run() takes approval.list_pending()[0], the oldest gate of the database, whose ever it is.
ListPending ==
  /\ pc = "decide" /\ PendingGates # {} /\ listed' = Oldest /\ pc' = "decide_listed"
  /\ UNCHANGED <<agent, world, rowVars, gates, log, turn, auto, writes, history>>

\* Of an empty list that raises IndexError, and the run is over.
ListIsEmpty ==
  /\ pc = "decide" /\ PendingGates = {} /\ pc' = "off" /\ auto' = FALSE
  /\ UNCHANGED <<agent, world, rowVars, gates, log, turn, listed, writes, history>>

\* It decides that gate, whatever has been decided since, and calls resume().
Decide ==
  /\ pc = "decide_listed"
  /\ IF gates[listed].what.tool \in AutoReject
     THEN Reject(listed) /\ blocked' = blocked + 1
     ELSE Approve(listed) /\ UNCHANGED blocked
  /\ pc' = "resume" /\ listed' = 0
  /\ UNCHANGED <<agent, world, rowVars, log, turn, auto, writes, others, crashes>>

\* An operator or the loop of another run, beside whatever this process does.  approve() and
\* reject() do not look at the old decision.
SomebodyDecides ==
  \E i \in DOMAIN gates :
    /\ Cardinality(others \cup {i}) <= MaxOthers
    /\ Approve(i) \/ Reject(i)
    /\ others' = others \cup {i}
    /\ UNCHANGED <<agent, world, rowVars, log, pc, turn, auto, listed, writes, blocked, crashes>>
-----------------------------------------------------------------------------
(* engine.resume().                                                        *)

\* Somebody builds an engine, registers the agent and resumes.
Restart ==
  /\ pc = "off" /\ status \notin {"completed", "rejected"} /\ pc' = "resume" /\ auto' = FALSE
  /\ UNCHANGED <<agent, world, rowVars, gates, log, turn, listed, writes, history>>

AtGate == status \in {"paused_approval", "approved"} /\ GatesOf(current) # {}
DecisionAt == gates[Latest(current)].decision

\* Without a decision the paused turn runs again; otherwise the turn after the last checkpoint.
ResumeTurn ==
  /\ pc = "resume" /\ (AtGate => DecisionAt = "pending")
  /\ turn' = (IF AtGate THEN current ELSE current + 1) /\ status' = "running" /\ pc' = "turn"
  /\ UNCHANGED <<agent, world, stepData, current, gates, log, auto, listed, writes, history>>

ResumeDenied ==
  /\ pc = "resume" /\ AtGate /\ DecisionAt = "rejected"
  /\ Save(current, Denied) /\ pc' = "mark_rejected"
  /\ UNCHANGED <<agent, world, gates, log, turn, auto, listed, writes, history>>

\* ApprovalRejectionPolicy.CONTINUE: rejected first, then approved.
MarkRejected ==
  /\ pc = "mark_rejected" /\ status' = "rejected" /\ pc' = "mark_approved"
  /\ UNCHANGED <<agent, world, stepData, current, gates, log, turn, auto, listed, writes, history>>

MarkApproved ==
  /\ pc = "mark_approved" /\ status' = "approved" /\ pc' = "go_on"
  /\ UNCHANGED <<agent, world, stepData, current, gates, log, turn, auto, listed, writes, history>>

SlipNextTurn == current
NextTurn == current + 1

GoOn ==
  /\ pc = "go_on" /\ status' = "running" /\ turn' = NextTurn /\ pc' = "turn"
  /\ UNCHANGED <<agent, world, stepData, current, gates, log, auto, listed, writes, history>>

\* The commit handler: _execute_write_once, whose key is the tool and its arguments.
Committed == gates[Latest(current)].what

Execute ==
  /\ pc = "resume" /\ AtGate /\ DecisionAt = "approved" /\ Committed \notin log
  /\ writes' = Append(writes, [turn |-> current, what |-> Committed]) /\ pc' = "log_effect"
  /\ UNCHANGED <<agent, world, rowVars, gates, log, turn, auto, listed, history>>

LogEffect ==
  /\ pc = "log_effect" /\ log' = log \cup {Committed} /\ pc' = "save_commit"
  /\ UNCHANGED <<agent, world, rowVars, gates, turn, auto, listed, writes, history>>

AlreadyDone ==
  /\ pc = "resume" /\ AtGate /\ DecisionAt = "approved" /\ Committed \in log
  /\ pc' = "save_commit"
  /\ UNCHANGED <<agent, world, rowVars, gates, log, turn, auto, listed, writes, history>>

SaveCommit ==
  /\ pc = "save_commit"
  /\ Save(current, Trace(Append(History, Entry(current, Committed.tool, "written", FALSE))))
  /\ pc' = "mark_approved"
  /\ UNCHANGED <<agent, world, gates, log, turn, auto, listed, writes, history>>
-----------------------------------------------------------------------------
\* The process dies, or a tool raises in the commit handler.
Crash ==
  /\ crashes < MaxCrashes /\ pc # "off"
  /\ pc' = "off" /\ auto' = FALSE /\ listed' = 0 /\ crashes' = crashes + 1
  /\ UNCHANGED <<agent, world, rowVars, gates, log, turn, writes, approved, others, blocked>>

Next ==
  \/ SkipAfterFinal \/ FinalTurn \/ UnknownTool \/ ReadTurn \/ TurnRaises \/ WriteTurn
  \/ SavePending \/ MarkPaused \/ Complete
  \/ ListPending \/ ListIsEmpty \/ Decide \/ SomebodyDecides
  \/ Restart \/ ResumeTurn \/ ResumeDenied \/ MarkRejected \/ MarkApproved \/ GoOn
  \/ Execute \/ LogEffect \/ AlreadyDone \/ SaveCommit \/ Crash

Spec == Init /\ [][Next]_vars
-----------------------------------------------------------------------------
\* Every write a tool has carried out was approved for the same turn in exactly that form,
\* though an agent asked again may have proposed another one in the meantime
\* (request_approval, _make_commit_handler).
ExecutedAsApproved == \A i \in DOMAIN writes : writes[i] \in approved

\* run() fails with an empty list only when it was overtaken: the loop looks for a gate because
\* its run is paused at one, and where no gate is pending somebody else has decided that one
\* between request_approval and list_pending()[0].  No gate the loop decided itself, no denial
\* and no repeated turn leaves the run paused with nothing to decide (AgentRunner.run).
FailsOnlyIfOvertaken ==
  (pc = "decide" /\ PendingGates = {}) => \E i \in GatesOf(current) : i \in others

\* A completed run kept its trace: every turn that came to a result or a denial has its entry
\* in the history the run returns (_history_from_step_data).
Settled(t) ==
  \/ stepData[t].kind = "denied"
  \/ stepData[t].kind = "history" /\ \E i \in DOMAIN stepData[t].trace : stepData[t].trace[i].by = t
TraceComplete ==
  status = "completed" =>
    \A t \in Turns : Settled(t) => \E i \in DOMAIN History : History[i].by = t
=============================================================================
