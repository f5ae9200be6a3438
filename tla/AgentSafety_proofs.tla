-------------------------- MODULE AgentSafety_proofs --------------------------
(***************************************************************************)
(* Three safety properties of an agent run, for any agents, worlds,        *)
(* numbers of turns, crashes and gates of other workflows: a tool writes   *)
(* only what was approved for its turn, the loop of run() fails over an    *)
(* empty list only where somebody else has decided the gate it paused at,  *)
(* and a run of at most ten turns keeps its trace.                         *)
(*                                                                         *)
(* The first two rest on the gates: a turn asks for one at most and what   *)
(* it asks for never changes, and while the loop is there (auto) the gate  *)
(* ahead of its next step is pending, or others have decided it.  The      *)
(* third rests on what every recorded history contains.                    *)
(***************************************************************************)
EXTENDS AgentRunner, WellFoundedInduction, FiniteSetTheorems, SequenceTheorems, TLAPS

\* All that is ever proposed.
Calls ==
  FreeWrites \cup
  {Finish, Stranger, Call("search_customer", "none"), Call("get_ticket_history", "none"),
   Call("lookup_kb", "none"), Call("update_ticket", "resolved"), Call("escalate", "admin"),
   Call("mock_tool", "none")}
Gates == [turn : Int, what : Calls, decision : {"pending", "approved", "rejected"}]

\* Where the process has written the row, current is the turn it is about.
AtRow == {"mark_paused", "decide", "decide_listed", "mark_rejected", "mark_approved", "go_on",
          "log_effect", "save_commit"}

Types ==
  /\ agent \in Agents
  /\ gates \in Seq(Gates) /\ current \in Nat \cup {-1} /\ turn \in Nat
  /\ pc = "save_pending" => turn \in Turns
  /\ pc \in AtRow \/ status \in {"paused_approval", "approved"} => current \in Turns
  /\ pc = "mark_paused" => turn = current
  /\ auto \in BOOLEAN /\ (pc = "decide" => auto)
  /\ writes \in Seq([turn : Int, what : Calls])

\* The turns of this run ask once.
AskedOnce ==
  \A i, j \in DOMAIN gates : gates[i].turn = gates[j].turn /\ gates[i].turn >= 0 => i = j

Granted ==
  \A i \in DOMAIN gates : gates[i].decision = "approved" =>
    [turn |-> gates[i].turn, what |-> gates[i].what] \in approved

\* The gate waits for a decision, or somebody else than the loop has given one.
OpenOrOvertaken(i) == gates[i].decision = "pending" \/ i \in others

\* As long as the loop is there, a gate is asked for, recorded and decided before the next one.
Looping ==
  auto =>
    /\ \A i \in DOMAIN gates : gates[i].turn > current =>
         pc = "save_pending" /\ gates[i].turn = turn
    /\ pc = "turn" =>
         \/ turn = current + 1
         \/ turn = current /\ \A i \in GatesOf(turn) : OpenOrOvertaken(i)
    /\ pc = "save_pending" =>
         turn \in {current, current + 1} /\ \E i \in GatesOf(turn) : OpenOrOvertaken(i)
    /\ pc \in {"mark_paused", "decide"} => \E i \in GatesOf(current) : OpenOrOvertaken(i)

IInv == Types /\ AskedOnce /\ Granted /\ ExecutedAsApproved /\ Looping
-----------------------------------------------------------------------------
LEMMA Turning == ASSUME NEW a \in Agents
                 PROVE  MaxTurns[a] \in Nat \ {0}
  BY AgentAssumption

LEMMA TurnsAreNat == Turns \subseteq Nat
  BY DEF Turns

LEMMA GateTypes ==
  ASSUME Types
  PROVE  \A i \in DOMAIN gates : i \in Nat /\ gates[i] \in Gates /\ gates[i].turn \in Int
<1>1. \A i \in DOMAIN gates : i \in Nat /\ gates[i] \in Gates
  BY DEF Types
<1>2. QED
  BY <1>1 DEF Gates

\* The gate a resumed turn looks at is its only one.
LEMMA TheGate ==
  ASSUME Types, AskedOnce, AtGate
  PROVE  /\ current \in Turns /\ current \in Nat
         /\ Latest(current) \in DOMAIN gates /\ gates[Latest(current)].turn = current
         /\ gates[Latest(current)] \in Gates
<1>1. current \in Turns /\ current \in Nat
  BY Turning DEF Types, AtGate, Turns
<1>2. PICK i \in DOMAIN gates : gates[i].turn = current
  BY DEF AtGate, GatesOf
<1>3. GatesOf(current) = {i}
  BY <1>1, <1>2 DEF GatesOf, AskedOnce
<1>4. i \in Int
  BY <1>2 DEF Types
<1>5. Latest(current) = i
  BY <1>3, <1>4 DEF Latest
<1>6. gates[i] \in Gates
  BY <1>2 DEF Types
<1>7. QED
  BY <1>1, <1>2, <1>5, <1>6

\* What an agent may propose has the form of a call.
LEMMA ProposedIsACall ==
  ASSUME NEW trace, NEW call \in Answers(trace)
  PROVE  call \in Calls
<1>1. MiniReAct(trace) \in Calls
  BY DEF MiniReAct, Calls
<1>2. MockADK(trace) \in Calls
  BY DEF MockADK, Calls
<1>3. CASE agent = "mini"
  BY <1>1, <1>3 DEF Answers
<1>4. CASE agent = "adk"
  BY <1>2, <1>4 DEF Answers
<1>5. CASE agent = "reader"
  BY <1>5 DEF Answers, Calls
<1>6. CASE agent \notin {"mini", "adk", "reader"}
  BY <1>6 DEF Answers, Calls
<1>7. QED
  BY <1>3, <1>4, <1>5, <1>6
-----------------------------------------------------------------------------
LEMMA RequestFacts ==
  ASSUME Types, AskedOnce, Granted, NEW call \in Calls, Request(turn, call)
  PROVE  /\ gates' \in Seq(Gates) /\ AskedOnce' /\ DOMAIN gates \subseteq DOMAIN gates'
         /\ \A i \in DOMAIN gates : gates'[i] = gates[i]
         /\ \A i \in DOMAIN gates' \ DOMAIN gates :
              /\ gates'[i] = [turn |-> turn, what |-> call, decision |-> "pending"]
              /\ GatesOf(turn) = {}
         /\ GatesOf(turn) = {} => DOMAIN gates' # DOMAIN gates
<1> DEFINE new == [turn |-> turn, what |-> call, decision |-> "pending"]
<1>1. new \in Gates
  BY DEF Types, Gates
<1>2. CASE GatesOf(turn) # {}
  BY <1>2 DEF Types, Request, AskedOnce
<1>3. CASE GatesOf(turn) = {}
  <2>1. gates' = Append(gates, new)
    BY <1>3 DEF Request
  <2>2. /\ gates' \in Seq(Gates) /\ Len(gates) \in Nat /\ DOMAIN gates = 1 .. Len(gates)
        /\ DOMAIN gates' = 1 .. Len(gates) + 1
        /\ \A i \in 1 .. Len(gates) : gates'[i] = gates[i]
        /\ gates'[Len(gates) + 1] = new
    BY <1>1, <2>1 DEF Types
  <2>3. \A i \in DOMAIN gates : gates[i].turn # turn
    BY <1>3 DEF GatesOf
  <2>4. AskedOnce'
    BY <2>2, <2>3 DEF AskedOnce
  <2>5. Len(gates) + 1 \notin DOMAIN gates
    BY <2>2
  <2>6. DOMAIN gates' \ DOMAIN gates = {Len(gates) + 1}
    BY <2>2
  <2>7. \A i \in DOMAIN gates' \ DOMAIN gates : gates'[i] = new
    BY <2>2, <2>6
  <2>8. DOMAIN gates' # DOMAIN gates
    BY <2>5, <2>6
  <2>9. DOMAIN gates \subseteq DOMAIN gates' /\ \A i \in DOMAIN gates : gates'[i] = gates[i]
    BY <2>2
  <2>10. QED
    BY <1>3, <2>2, <2>4, <2>7, <2>8, <2>9
<1>4. QED
  BY <1>2, <1>3

\* A decision leaves the turn and the call of every gate alone.
LEMMA DecisionFacts ==
  ASSUME Types, AskedOnce, NEW i, NEW d \in {"approved", "rejected"},
         gates' = [gates EXCEPT ![i].decision = d]
  PROVE  /\ gates' \in Seq(Gates) /\ DOMAIN gates' = DOMAIN gates /\ AskedOnce'
         /\ \A j \in DOMAIN gates :
              /\ gates'[j].turn = gates[j].turn /\ gates'[j].what = gates[j].what
              /\ j # i => gates'[j] = gates[j]
              /\ j = i => gates'[j].decision = d
<1>1. /\ DOMAIN gates = 1 .. Len(gates) /\ Len(gates) \in Nat /\ gates \in [DOMAIN gates -> Gates]
  BY DEF Types
<1>2. DOMAIN gates' = DOMAIN gates
  OBVIOUS
<1>3. \A j \in DOMAIN gates :
        gates'[j] = IF j = i THEN [gates[j] EXCEPT !.decision = d] ELSE gates[j]
  OBVIOUS
<1>4. \A g \in Gates : /\ [g EXCEPT !.decision = d] \in Gates
                       /\ [g EXCEPT !.decision = d].turn = g.turn
                       /\ [g EXCEPT !.decision = d].what = g.what
                       /\ [g EXCEPT !.decision = d].decision = d
  BY DEF Gates
<1>5. \A j \in DOMAIN gates :
        /\ gates'[j] \in Gates /\ gates'[j].turn = gates[j].turn /\ gates'[j].what = gates[j].what
        /\ j # i => gates'[j] = gates[j]
        /\ j = i => gates'[j].decision = d
  BY <1>1, <1>3, <1>4
<1>6. gates' \in [1 .. Len(gates) -> Gates]
  BY <1>1, <1>2, <1>5
<1>7. gates' \in Seq(Gates)
  BY <1>1, <1>6
<1>8. AskedOnce'
  BY <1>2, <1>5 DEF AskedOnce
<1>9. QED
  BY <1>2, <1>5, <1>7, <1>8
-----------------------------------------------------------------------------
LEMMA Starts == ASSUME Init PROVE IInv
<1>1. agent \in Agents /\ current = -1 /\ turn = 0 /\ pc = "turn" /\ status = "running"
      /\ auto \in BOOLEAN /\ (pc = "decide" => auto) /\ writes = <<>>
  BY DEF Init
<1>2. PICK n \in 0 .. Strangers :
        gates = [i \in 1 .. n |-> [turn |-> -1, what |-> Stranger, decision |-> "pending"]]
  BY DEF Init
<1>3. n \in Nat
  BY <1>2, AgentAssumption
<1>4. [turn |-> -1, what |-> Stranger, decision |-> "pending"] \in Gates
  BY DEF Gates, Calls
<1>5. gates \in Seq(Gates)
  BY <1>2, <1>3, <1>4
<1>6. \A i \in DOMAIN gates : gates[i].turn = -1 /\ gates[i].decision = "pending"
  BY <1>2
<1>7. Types
  BY <1>1, <1>5 DEF Types, AtRow
<1>8. AskedOnce /\ Granted
  BY <1>6 DEF AskedOnce, Granted
<1>9. ExecutedAsApproved
  BY <1>1 DEF ExecutedAsApproved
<1>10. Looping
  BY <1>1, <1>6 DEF Looping
<1>11. QED
  BY <1>7, <1>8, <1>9, <1>10 DEF IInv

\* Gates, approvals and writes left alone keep what is said of them.
LEMMA Kept ==
  ASSUME IInv, UNCHANGED <<gates, approved, writes>>
  PROVE  AskedOnce' /\ Granted' /\ ExecutedAsApproved'
  BY DEF IInv, AskedOnce, Granted, ExecutedAsApproved

\* A checkpoint goes on to the next turn.
LEMMA CheckpointKeeps ==
  ASSUME IInv, NEW trace, pc = "turn", turn \in Turns, Checkpoint(trace)
  PROVE  IInv'
<1>1. AskedOnce' /\ Granted' /\ ExecutedAsApproved'
  BY Kept DEF Checkpoint, history
<1>2. /\ agent' = agent /\ gates' = gates /\ pc' = pc /\ auto' = auto /\ writes' = writes
      /\ current' = turn /\ status' = "running" /\ turn' = turn + 1
  BY DEF Checkpoint, Save
<1>3. turn \in Nat
  BY DEF IInv, Types
<1>4. Types'
  BY <1>2, <1>3 DEF IInv, Types, AtRow
<1>5. \A i \in DOMAIN gates : gates[i].turn \in Int
  BY GateTypes DEF IInv
<1>6. Looping'
  <2> SUFFICES ASSUME auto PROVE Looping'
    BY <1>2 DEF Looping
  <2>1. current \in Int /\ turn \in {current, current + 1}
    BY DEF IInv, Types, Looping
  <2>2. \A i \in DOMAIN gates : ~(gates[i].turn > turn)
    BY <1>3, <1>5, <2>1 DEF IInv, Looping
  <2>3. QED
    BY <1>2, <1>3, <2>2 DEF Looping
<1>7. QED
  BY <1>1, <1>4, <1>6 DEF IInv

\* A step that leaves the gates, the approvals and the writes alone and ends the process, or
\* only tells the store what it did.
LEMMA QuietSteps ==
  ASSUME IInv, MarkPaused \/ Complete \/ TurnRaises \/ Restart \/ MarkRejected \/ MarkApproved
               \/ GoOn \/ LogEffect \/ AlreadyDone \/ SaveCommit \/ ResumeDenied \/ Crash
               \/ ListPending \/ ListIsEmpty
  PROVE  IInv'
<1>1. UNCHANGED <<gates, approved, others, writes, agent, current>>
  BY DEF MarkPaused, Complete, TurnRaises, Restart, MarkRejected, MarkApproved, GoOn, LogEffect,
         AlreadyDone, SaveCommit, ResumeDenied, Crash, ListPending, ListIsEmpty, Save, rowVars,
         history
<1>2. AskedOnce' /\ Granted' /\ ExecutedAsApproved'
  BY <1>1, Kept
<1>3. /\ Turns' = Turns /\ \A t : GatesOf(t)' = GatesOf(t)
      /\ \A i : OpenOrOvertaken(i)' <=> OpenOrOvertaken(i)
  BY <1>1 DEF Turns, GatesOf, OpenOrOvertaken
<1> SUFFICES Types' /\ Looping'
  BY <1>2 DEF IInv
<1>4. CASE MarkPaused
  BY <1>1, <1>3, <1>4 DEF IInv, Types, Looping, MarkPaused, AtRow
<1>5. CASE Complete
  BY <1>1, <1>3, <1>5 DEF IInv, Types, Looping, Complete, AtRow
<1>6. CASE TurnRaises
  BY <1>1, <1>3, <1>6 DEF IInv, Types, Looping, TurnRaises, AtRow
<1>7. CASE Restart
  BY <1>1, <1>3, <1>7 DEF IInv, Types, Looping, Restart, rowVars, AtRow
<1>8. CASE MarkRejected
  BY <1>1, <1>3, <1>8 DEF IInv, Types, Looping, MarkRejected, AtRow
<1>9. CASE MarkApproved
  BY <1>1, <1>3, <1>9 DEF IInv, Types, Looping, MarkApproved, AtRow
<1>10. CASE GoOn
  BY <1>1, <1>3, <1>10, TurnsAreNat DEF IInv, Types, Looping, NextTurn, GoOn, AtRow
<1>11. CASE LogEffect
  BY <1>1, <1>3, <1>11 DEF IInv, Types, Looping, LogEffect, AtRow
<1>12. CASE AlreadyDone
  BY <1>1, <1>3, <1>12 DEF IInv, Types, Looping, AtGate, AlreadyDone, AtRow
<1>13. CASE SaveCommit
  BY <1>1, <1>3, <1>13 DEF IInv, Types, Looping, Save, SaveCommit, AtRow
<1>14. CASE ResumeDenied
  BY <1>1, <1>3, <1>14 DEF IInv, Types, Looping, Save, AtGate, ResumeDenied, AtRow
<1>15. CASE Crash
  BY <1>1, <1>3, <1>15 DEF IInv, Types, Looping, Crash, rowVars, AtRow
<1>16. CASE ListPending \/ ListIsEmpty
  BY <1>1, <1>3, <1>16 DEF IInv, Types, Looping, ListPending, ListIsEmpty, rowVars, AtRow
<1>17. QED
  BY <1>4, <1>5, <1>6, <1>7, <1>8, <1>9, <1>10, <1>11, <1>12, <1>13, <1>14, <1>15, <1>16
-----------------------------------------------------------------------------
LEMMA WriteTurnKeeps == ASSUME IInv, WriteTurn PROVE IInv'
<1>1. PICK call \in Answers(History) : call.tool \in WriteTools /\ Request(turn, call)
  BY DEF WriteTurn
<1>2. call \in Calls
  BY ProposedIsACall
<1>3. /\ gates' \in Seq(Gates) /\ AskedOnce' /\ DOMAIN gates \subseteq DOMAIN gates'
      /\ \A i \in DOMAIN gates : gates'[i] = gates[i]
      /\ \A i \in DOMAIN gates' \ DOMAIN gates :
           /\ gates'[i] = [turn |-> turn, what |-> call, decision |-> "pending"]
           /\ GatesOf(turn) = {}
      /\ GatesOf(turn) = {} => DOMAIN gates' # DOMAIN gates
  BY <1>1, <1>2, RequestFacts DEF IInv
<1>4. /\ pc = "turn" /\ turn \in Turns /\ pc' = "save_pending"
      /\ UNCHANGED <<agent, stepData, current, status, turn, auto, writes, approved, others>>
  BY DEF WriteTurn, Thinks, rowVars, history
<1>5. Types'
  BY <1>3, <1>4 DEF IInv, Types, AtRow, Turns
<1>6. Granted' /\ ExecutedAsApproved'
  BY <1>3, <1>4 DEF IInv, Granted, ExecutedAsApproved
<1>7. Looping'
  <2> SUFFICES ASSUME auto PROVE Looping'
    BY <1>4 DEF Looping
  <2>1. turn \in {current, current + 1} /\ \A i \in GatesOf(turn) : OpenOrOvertaken(i)
    <3>1. CASE turn = current + 1
      <4>1. \A i \in DOMAIN gates : ~(gates[i].turn > current)
        BY <1>4 DEF IInv, Looping
      <4>2. current \in Int
        BY DEF IInv, Types
      <4>3. QED
        BY <3>1, <4>1, <4>2 DEF GatesOf
    <3>2. CASE turn # current + 1
      BY <1>4, <3>2 DEF IInv, Looping
    <3>3. QED
      BY <3>1, <3>2
  <2>2. \A i \in DOMAIN gates' : gates'[i].turn > current => gates'[i].turn = turn
    BY <1>3, <1>4 DEF IInv, Looping
  <2>3. \E i \in DOMAIN gates' : gates'[i].turn = turn /\ OpenOrOvertaken(i)'
    <3>1. CASE GatesOf(turn) = {}
      <4>1. PICK i \in DOMAIN gates' : i \notin DOMAIN gates
        BY <1>3, <3>1
      <4>2. gates'[i] = [turn |-> turn, what |-> call, decision |-> "pending"]
        BY <1>3, <4>1
      <4>3. QED
        BY <4>1, <4>2 DEF OpenOrOvertaken
    <3>2. CASE GatesOf(turn) # {}
      <4>1. PICK i \in DOMAIN gates : gates[i].turn = turn /\ i \in GatesOf(turn)
        BY <3>2 DEF GatesOf
      <4>2. QED
        BY <1>3, <1>4, <2>1, <4>1 DEF OpenOrOvertaken
    <3>3. QED
      BY <3>1, <3>2
  <2>4. QED
    BY <1>4, <2>1, <2>2, <2>3 DEF Looping, GatesOf
<1>8. QED
  BY <1>3, <1>5, <1>6, <1>7 DEF IInv

LEMMA SavePendingKeeps == ASSUME IInv, SavePending PROVE IInv'
<1>1. /\ pc = "save_pending" /\ pc' = "mark_paused" /\ current' = turn /\ status' = "running"
      /\ UNCHANGED <<agent, gates, turn, auto, writes, approved, others>>
  BY DEF SavePending, Save, history
<1>2. AskedOnce' /\ Granted' /\ ExecutedAsApproved'
  BY <1>1, Kept
<1>3. turn \in Turns /\ turn \in Int /\ Turns' = Turns
  BY <1>1, TurnsAreNat DEF IInv, Types, Turns
<1>4. Types'
  BY <1>1, <1>3 DEF IInv, Types, AtRow
<1>5. Looping'
  <2> SUFFICES ASSUME auto PROVE Looping'
    BY <1>1 DEF Looping
  <2>1. current \in Int /\ turn \in {current, current + 1}
    BY <1>1 DEF IInv, Types, Looping
  <2>2. \A i \in DOMAIN gates : gates[i].turn \in Int
    BY GateTypes DEF IInv
  <2>3. \A i \in DOMAIN gates : ~(gates[i].turn > turn)
    BY <1>1, <1>3, <2>1, <2>2 DEF IInv, Looping
  <2>4. \E i \in GatesOf(turn) : OpenOrOvertaken(i)
    BY <1>1 DEF IInv, Looping
  <2>5. QED
    BY <1>1, <2>3, <2>4 DEF Looping, GatesOf, OpenOrOvertaken
<1>6. QED
  BY <1>2, <1>4, <1>5 DEF IInv
-----------------------------------------------------------------------------
\* Whoever decides, and whichever gate: what is approved is what the gate holds.
LEMMA DecisionKeeps ==
  ASSUME IInv, NEW i, Approve(i) \/ Reject(i), UNCHANGED writes
  PROVE  /\ gates' \in Seq(Gates) /\ DOMAIN gates' = DOMAIN gates
         /\ \A j \in DOMAIN gates : gates'[j].turn = gates[j].turn
         /\ AskedOnce' /\ Granted' /\ ExecutedAsApproved'
<1>1. PICK d \in {"approved", "rejected"} :
        /\ gates' = [gates EXCEPT ![i].decision = d]
        /\ d = "approved" => Approve(i)
        /\ approved \subseteq approved'
  BY DEF Approve, Reject
<1>2. /\ gates' \in Seq(Gates) /\ DOMAIN gates' = DOMAIN gates /\ AskedOnce'
      /\ \A j \in DOMAIN gates :
           /\ gates'[j].turn = gates[j].turn /\ gates'[j].what = gates[j].what
           /\ j # i => gates'[j] = gates[j]
           /\ j = i => gates'[j].decision = d
  BY <1>1, DecisionFacts DEF IInv
<1>3. Granted'
  BY <1>1, <1>2 DEF IInv, Granted, Approve
<1>4. ExecutedAsApproved'
  BY <1>1 DEF IInv, ExecutedAsApproved
<1>5. QED
  BY <1>2, <1>3, <1>4

LEMMA DecideKeeps == ASSUME IInv, Decide PROVE IInv'
<1>1. /\ pc = "decide_listed" /\ pc' = "resume"
      /\ UNCHANGED <<agent, current, status, turn, auto, writes>>
      /\ Approve(listed) \/ Reject(listed)
  BY DEF Decide, rowVars
<1>2. /\ gates' \in Seq(Gates) /\ DOMAIN gates' = DOMAIN gates
      /\ \A j \in DOMAIN gates : gates'[j].turn = gates[j].turn
      /\ AskedOnce' /\ Granted' /\ ExecutedAsApproved'
  BY <1>1, DecisionKeeps
<1>3. Types'
  BY <1>1, <1>2 DEF IInv, Types, AtRow, Turns
<1>4. Looping'
  BY <1>1, <1>2 DEF IInv, Looping
<1>5. QED
  BY <1>2, <1>3, <1>4 DEF IInv

\* What somebody else decides is no longer pending, but it is in others.
LEMMA OthersKeep == ASSUME IInv, SomebodyDecides PROVE IInv'
<1>1. PICK i \in DOMAIN gates :
        /\ Approve(i) \/ Reject(i)
        /\ others' = others \cup {i}
        /\ UNCHANGED <<agent, current, status, pc, turn, auto, writes>>
  BY DEF SomebodyDecides, rowVars
<1>2. /\ gates' \in Seq(Gates) /\ DOMAIN gates' = DOMAIN gates
      /\ \A j \in DOMAIN gates : gates'[j].turn = gates[j].turn
      /\ AskedOnce' /\ Granted' /\ ExecutedAsApproved'
  BY <1>1, DecisionKeeps
<1>3. Types'
  BY <1>1, <1>2 DEF IInv, Types, AtRow, Turns
<1>4. \A t : GatesOf(t)' = GatesOf(t)
  BY <1>2 DEF GatesOf
<1>5. \A j \in DOMAIN gates : OpenOrOvertaken(j) => OpenOrOvertaken(j)'
  <2>1. \A j \in DOMAIN gates : j # i => gates'[j] = gates[j]
    BY <1>1 DEF Approve, Reject
  <2>2. QED
    BY <1>1, <2>1 DEF OpenOrOvertaken
<1>6. Looping'
  BY <1>1, <1>2, <1>4, <1>5 DEF IInv, Looping, GatesOf
<1>7. QED
  BY <1>2, <1>3, <1>6 DEF IInv
-----------------------------------------------------------------------------
LEMMA ResumeTurnKeeps == ASSUME IInv, ResumeTurn PROVE IInv'
<1>1. /\ pc = "resume" /\ (AtGate => DecisionAt = "pending") /\ pc' = "turn" /\ status' = "running"
      /\ turn' = IF AtGate THEN current ELSE current + 1
      /\ UNCHANGED <<agent, gates, current, auto, writes, approved, others>>
  BY DEF ResumeTurn, history
<1>2. AskedOnce' /\ Granted' /\ ExecutedAsApproved'
  BY <1>1, Kept
<1>3. CASE AtGate
  <2>1. current \in Turns /\ current \in Nat /\ Latest(current) \in DOMAIN gates
        /\ gates[Latest(current)].turn = current
    BY <1>3, TheGate DEF IInv
  <2>2. \A i \in GatesOf(current) : gates[i].decision = "pending"
    BY <1>1, <1>3, <2>1 DEF IInv, AskedOnce, GatesOf, DecisionAt
  <2>3. Types'
    BY <1>1, <1>3, <2>1 DEF IInv, Types, AtRow
  <2>4. Looping'
    BY <1>1, <1>3, <2>2 DEF IInv, Looping, GatesOf, OpenOrOvertaken
  <2>5. QED
    BY <1>2, <2>3, <2>4 DEF IInv
<1>4. CASE ~AtGate
  <2>1. current \in Int /\ current + 1 \in Nat
    BY DEF IInv, Types
  <2>2. QED
    BY <1>1, <1>2, <1>4, <2>1 DEF IInv, Types, Looping, AtRow
<1>5. QED
  BY <1>3, <1>4

LEMMA ExecuteKeeps == ASSUME IInv, Execute PROVE IInv'
<1>1. /\ pc = "resume" /\ AtGate /\ DecisionAt = "approved" /\ pc' = "log_effect"
      /\ writes' = Append(writes, [turn |-> current, what |-> Committed])
      /\ UNCHANGED <<agent, current, status, gates, turn, auto, approved, others>>
  BY DEF Execute, rowVars, history
<1>2. /\ current \in Turns /\ current \in Nat /\ Latest(current) \in DOMAIN gates
      /\ gates[Latest(current)].turn = current /\ gates[Latest(current)] \in Gates
  BY <1>1, TheGate DEF IInv
<1>3. [turn |-> current, what |-> Committed] \in approved
  BY <1>1, <1>2 DEF IInv, Granted, DecisionAt, Committed
<1>4. [turn |-> current, what |-> Committed] \in [turn : Int, what : Calls]
  BY <1>2 DEF Gates, Committed
<1>5. writes \in Seq([turn : Int, what : Calls])
  BY DEF IInv, Types
<1>6. ExecutedAsApproved'
  BY <1>1, <1>3, <1>4, <1>5 DEF IInv, ExecutedAsApproved
<1>7. writes' \in Seq([turn : Int, what : Calls])
  BY <1>1, <1>4, <1>5
<1>8. Types'
  BY <1>1, <1>2, <1>7 DEF IInv, Types, AtRow, Turns
<1>9. AskedOnce' /\ Granted'
  BY <1>1 DEF IInv, AskedOnce, Granted
<1>10. Looping'
  BY <1>1 DEF IInv, Looping
<1>11. QED
  BY <1>6, <1>8, <1>9, <1>10 DEF IInv
-----------------------------------------------------------------------------
LEMMA StepKeeps == ASSUME IInv, [Next]_vars PROVE IInv'
<1>1. CASE SkipAfterFinal
  BY <1>1, CheckpointKeeps DEF SkipAfterFinal
<1>2. CASE FinalTurn
  BY <1>2, CheckpointKeeps DEF FinalTurn, Thinks
<1>3. CASE UnknownTool
  <2>1. PICK call \in Answers(History) :
          Checkpoint(Append(History, Entry(turn, call.tool, "unknown_tool", FALSE)))
    BY <1>3 DEF UnknownTool
  <2>2. QED
    BY <1>3, <2>1, CheckpointKeeps DEF UnknownTool, Thinks
<1>4. CASE ReadTurn
  <2>1. PICK call, saw : Checkpoint(Append(History, Entry(turn, call.tool, saw, FALSE)))
    BY <1>4 DEF ReadTurn
  <2>2. QED
    BY <1>4, <2>1, CheckpointKeeps DEF ReadTurn, Thinks
<1>5. CASE WriteTurn
  BY <1>5, WriteTurnKeeps
<1>6. CASE SavePending
  BY <1>6, SavePendingKeeps
<1>7. CASE Decide
  BY <1>7, DecideKeeps
<1>8. CASE SomebodyDecides
  BY <1>8, OthersKeep
<1>9. CASE ResumeTurn
  BY <1>9, ResumeTurnKeeps
<1>10. CASE Execute
  BY <1>10, ExecuteKeeps
<1>11. CASE MarkPaused \/ Complete \/ TurnRaises \/ Restart \/ MarkRejected \/ MarkApproved
            \/ GoOn \/ LogEffect \/ AlreadyDone \/ SaveCommit \/ ResumeDenied \/ Crash
            \/ ListPending \/ ListIsEmpty
  BY <1>11, QuietSteps
<1>12. CASE UNCHANGED vars
  <2>1. UNCHANGED <<agent, current, status, gates, pc, turn, auto, writes, approved, others>>
    BY <1>12 DEF vars, rowVars, history
  <2>2. Types' /\ Looping'
    BY <2>1 DEF IInv, Types, Looping, AtRow, Turns, GatesOf, OpenOrOvertaken
  <2>3. QED
    BY <2>1, <2>2, Kept DEF IInv
<1>13. QED
  BY <1>1, <1>2, <1>3, <1>4, <1>5, <1>6, <1>7, <1>8, <1>9, <1>10, <1>11, <1>12 DEF Next

LEMMA AgentInvariant == Spec => []IInv
  BY Starts, StepKeeps, PTL DEF Spec

\* A tool carries out only what was approved for its turn, in the form that was approved: the
\* gate a resumed turn looks at is its only one (AskedOnce) and an approved gate is in approved
\* as it stands (Granted).
THEOREM WritesAsApproved == Spec => []ExecutedAsApproved
<1>1. IInv => ExecutedAsApproved
  BY DEF IInv
<1>2. QED
  BY <1>1, AgentInvariant, PTL

\* The list of pending gates the loop takes the first of (AgentRunner.run) is empty only when
\* somebody else decided the gate the run is paused at: that gate is pending when it is asked
\* for, the loop decides it in no earlier round, and after a denial or a commit the run is past
\* it (Looping).
THEOREM FailureIsOvertaking == Spec => []FailsOnlyIfOvertaken
<1>1. ASSUME IInv PROVE FailsOnlyIfOvertaken
  <2> SUFFICES ASSUME pc = "decide", PendingGates = {}
               PROVE  \E i \in GatesOf(current) : i \in others
    BY DEF FailsOnlyIfOvertaken
  <2>1. PICK i \in GatesOf(current) : OpenOrOvertaken(i)
    BY <1>1 DEF IInv, Types, Looping
  <2>2. gates[i].decision # "pending"
    BY <2>1 DEF GatesOf, PendingGates
  <2>3. QED
    BY <2>1, <2>2 DEF OpenOrOvertaken
<1>2. QED
  BY <1>1, AgentInvariant, PTL
-----------------------------------------------------------------------------
(* The trace of a run of at most ten turns, whose keys are in the order of *)
(* the turns (agent_turn_10 comes before agent_turn_2).  The history is a  *)
(* fold, a recursive function, so what it returns is shown by induction    *)
(* over the turns.                                                         *)

ShortRun == MaxTurns[agent] <= 10
Tools == {call.tool : call \in Calls} \cup {"none"}
Entries == [by : Nat, tool : Tools, final : BOOLEAN,
            saw : {"nothing", "denied", "unknown_tool", "written", "injection", "customer",
                   "parse_error", "tickets", "tool_timeout", "article"}]
Results == {Absent, Pending, Denied} \cup {Trace(trace) : trace \in Seq(Entries)}
Recorded(trace, t) == \E i \in DOMAIN trace : trace[i].by = t

\* The turn that runs is the one after the checkpoint, or that one again; nothing is checkpointed
\* ahead of it; a history in step_data has an entry for all that was settled before it; and the
\* commit handler has the gate of its turn.
Traced ==
  /\ DOMAIN stepData = Turns /\ \A t \in Turns : stepData[t] \in Results
  /\ pc \in {"turn", "save_pending"} => turn \in {current, current + 1}
  /\ \A t \in Turns : t > current => stepData[t] = Absent
  /\ \A t, s \in Turns : s < t /\ stepData[t].kind = "history" /\ Settled(s) =>
       Recorded(stepData[t].trace, s)
  /\ pc \in {"log_effect", "save_commit"} => \E i \in DOMAIN gates : gates[i].turn = current
-----------------------------------------------------------------------------
(* Induction on the natural numbers, for a set.                            *)

Below == {ss \in Nat \X Nat : ss[1] < ss[2]}
LEMMA BelowWF == IsWellFoundedOn(Below, Nat)
<1>1. Below = OpToRel(<, Nat)
  BY DEF OpToRel, Below
<1>2. QED
  BY <1>1, NatLessThanWellFounded DEF OpToRel, Below

LEMMA Induction ==
  ASSUME NEW S, 0 \in S, \A n \in Nat : n \in S => n + 1 \in S
  PROVE  Nat \subseteq S
<1> DEFINE T == Nat \ S
<1> SUFFICES ASSUME T # {} PROVE FALSE
  OBVIOUS
<1>1. PICK x \in T : \A y \in T : <<y, x>> \notin Below
  <2>1. T \subseteq Nat
    OBVIOUS
  <2> HIDE DEF T
  <2>2. QED
    BY <2>1, BelowWF, WFMin
<1>2. x # 0 /\ x - 1 \in Nat /\ x - 1 \in T
  OBVIOUS
<1>3. <<x - 1, x>> \in Below
  BY <1>2 DEF Below
<1>4. QED
  BY <1>1, <1>2, <1>3
-----------------------------------------------------------------------------
\* Up to ten turns the keys are in the order of the turns.
LEMMA KeysInOrder ==
  ASSUME NEW n \in Nat, n <= 10, Turns = 0 .. n - 1
  PROVE  ByKey = [r \in 1 .. n |-> r - 1]
<1>1. Cardinality(Turns) = n
  BY FS_Interval
<1>2. \A t \in Turns : KeyOrder(t) = 100 * t
  BY DEF KeyOrder
<1>3. ASSUME NEW t \in Turns
      PROVE  Cardinality({s \in Turns : KeyOrder(s) <= KeyOrder(t)}) = t + 1
  <2>1. {s \in Turns : KeyOrder(s) <= KeyOrder(t)} = {s \in Turns : s <= t}
    <3>1. \A s, u \in Nat : 100 * s <= 100 * u <=> s <= u
      OBVIOUS
    <3>2. Turns \subseteq Nat
      OBVIOUS
    <3>3. QED
      BY <1>2, <3>1, <3>2
  <2>2. {s \in Turns : s <= t} = 0 .. t
    OBVIOUS
  <2>3. Cardinality(0 .. t) = t + 1
    BY FS_Interval
  <2>4. QED
    BY <2>1, <2>2, <2>3
<1>4. ASSUME NEW r \in 1 .. n
      PROVE  (CHOOSE t \in Turns : Cardinality({s \in Turns : KeyOrder(s) <= KeyOrder(t)}) = r) = r - 1
  <2>1. r - 1 \in Turns /\ \A t \in Turns : t + 1 = r <=> t = r - 1
    OBVIOUS
  <2>2. QED
    BY <1>3, <2>1
<1>5. QED
  BY <1>1, <1>4 DEF ByKey

\* What one turn adds to the history.
Reads(data, trace, t) ==
  CASE data[t].kind = "history" -> data[t].trace
    [] data[t].kind = "denied" -> Append(trace, DenialEntry(t))
    [] OTHER -> trace

\* The function the fold is defined by: g[s] is the history of the places s of seq.
Reading(g, data, seq, n) ==
  g = [s \in SUBSET (1 .. n) |->
         IF s = {} THEN <<>> ELSE Reads(data, g[s \ {Max(s)}], seq[Max(s)])]

LEMMA LastPlace ==
  ASSUME NEW n \in Nat, NEW s \in SUBSET (1 .. n + 1), n + 1 \in s
  PROVE  Max(s) = n + 1
<1>1. n + 1 \in s /\ \A y \in s : n + 1 >= y
  OBVIOUS
<1>2. \A x \in s : (\A y \in s : x >= y) => x = n + 1
  OBVIOUS
<1>3. QED
  BY <1>1, <1>2 DEF Max

\* There is one, for any number of places.
LEMMA ReadingExists ==
  ASSUME NEW data, NEW seq
  PROVE  \A n \in Nat : \E g : Reading(g, data, seq, n)
<1> DEFINE T == {n \in Nat : \E g : Reading(g, data, seq, n)}
<1>1. 0 \in T
  <2> DEFINE g == [s \in SUBSET (1 .. 0) |-> <<>>]
  <2>1. Reading(g, data, seq, 0)
    BY DEF Reading
  <2>2. QED
    BY <2>1
<1>2. ASSUME NEW n \in T PROVE n + 1 \in T
  <2>n. n \in Nat
    BY <1>2
  <2>1. PICK g : Reading(g, data, seq, n)
    BY <1>2
  <2> DEFINE v(s) == Reads(data, g[s \ {n + 1}], seq[n + 1])
             h == [s \in SUBSET (1 .. n + 1) |-> IF n + 1 \in s THEN v(s) ELSE g[s]]
             b(s) == IF s = {} THEN <<>> ELSE Reads(data, h[s \ {Max(s)}], seq[Max(s)])
  <2>2. ASSUME NEW s \in SUBSET (1 .. n + 1)
        PROVE  h[s] = b(s)
    <3>1. CASE n + 1 \in s
      <4>1. Max(s) = n + 1
        BY <3>1, LastPlace, <2>n
      <4>2. s \ {n + 1} \in SUBSET (1 .. n + 1) /\ n + 1 \notin s \ {n + 1} /\ s # {}
        BY <3>1
      <4>3. h[s \ {n + 1}] = g[s \ {n + 1}]
        BY <4>2
      <4>4. h[s] = v(s)
        BY <3>1
      <4> HIDE DEF h
      <4>5. QED
        BY <4>1, <4>2, <4>3, <4>4
    <3>2. CASE n + 1 \notin s
      <4>1. s \in SUBSET (1 .. n)
        BY <3>2, <2>n
      <4>2. h[s] = g[s]
        BY <3>2
      <4>3. g[s] = IF s = {} THEN <<>> ELSE Reads(data, g[s \ {Max(s)}], seq[Max(s)])
        BY <2>1, <4>1 DEF Reading
      <4>4. h[s \ {Max(s)}] = g[s \ {Max(s)}]
        BY <3>2
      <4> HIDE DEF h
      <4>5. QED
        BY <4>2, <4>3, <4>4
    <3>3. QED
      BY <3>1, <3>2
  <2>3. h = [s \in SUBSET (1 .. n + 1) |-> b(s)]
    <3>1. h = [s \in SUBSET (1 .. n + 1) |-> h[s]]
      OBVIOUS
    <3> HIDE DEF h, b
    <3>2. QED
      BY <2>2, <3>1
  <2>4. Reading(h, data, seq, n + 1)
    BY <2>3 DEF Reading
  <2>5. QED
    BY <2>4, <2>n
<1>3. Nat \subseteq T
  <2> HIDE DEF T
  <2>1. QED
    BY <1>1, <1>2, Induction DEF T
<1>4. QED
  BY <1>3

\* The history of the first k turns.
ReadTo(data, seq, n, k) == (CHOOSE g : Reading(g, data, seq, n))[1 .. k]

LEMMA HistoryIsRead ==
  ASSUME NEW n \in Nat, DOMAIN ByKey = 1 .. n, NEW data
  PROVE  HistoryFrom(data) = ReadTo(data, ByKey, n, n) /\ ReadTo(data, ByKey, n, 0) = <<>>
<1> DEFINE g == CHOOSE g : Reading(g, data, ByKey, n)
<1>1. Reading(g, data, ByKey, n)
  BY ReadingExists
<1>2. HistoryFrom(data) = g[1 .. n]
  BY DEF HistoryFrom, FoldLeft, MapThenFoldSet, Reading, Reads
<1>3. g[1 .. 0] = <<>>
  <2>1. 1 .. 0 = {} /\ {} \in SUBSET (1 .. n)
    OBVIOUS
  <2>2. QED
    BY <1>1, <2>1 DEF Reading
<1>4. QED
  BY <1>2, <1>3 DEF ReadTo

LEMMA OneTurnMore ==
  ASSUME NEW n \in Nat, NEW seq, NEW data, NEW k \in 1 .. n
  PROVE  ReadTo(data, seq, n, k) = Reads(data, ReadTo(data, seq, n, k - 1), seq[k])
<1> DEFINE g == CHOOSE g : Reading(g, data, seq, n)
<1>0. Reading(g, data, seq, n)
  BY ReadingExists
<1>1. 1 .. k \in SUBSET (1 .. n) /\ 1 .. k # {}
  <2>1. \A x \in 1 .. k : x \in 1 .. n
    OBVIOUS
  <2>2. k \in 1 .. k
    OBVIOUS
  <2>3. QED
    BY <2>1, <2>2
<1>2. Max(1 .. k) = k
  <2>1. k - 1 \in Nat /\ (k - 1) + 1 = k /\ k \in 1 .. k
    OBVIOUS
  <2>2. ASSUME NEW m \in Nat, m + 1 = k PROVE Max(1 .. k) = k
    BY <2>1, <2>2, LastPlace
  <2>3. QED
    BY <2>1, <2>2
<1>3. (1 .. k) \ {k} = 1 .. k - 1
  OBVIOUS
<1>4. g[1 .. k] = Reads(data, g[(1 .. k) \ {Max(1 .. k)}], seq[Max(1 .. k)])
  BY <1>0, <1>1 DEF Reading
<1>5. QED
  BY <1>2, <1>3, <1>4 DEF ReadTo

-----------------------------------------------------------------------------
(* What is recorded, and what is read.                                     *)

LEMMA AppendRecords ==
  ASSUME NEW trace \in Seq(Entries), NEW entry \in Entries
  PROVE  /\ Append(trace, entry) \in Seq(Entries) /\ Recorded(Append(trace, entry), entry.by)
         /\ \A t : Recorded(trace, t) => Recorded(Append(trace, entry), t)
<1>1. /\ Append(trace, entry) \in Seq(Entries) /\ Len(trace) \in Nat
      /\ DOMAIN Append(trace, entry) = 1 .. Len(trace) + 1 /\ DOMAIN trace = 1 .. Len(trace)
      /\ \A i \in 1 .. Len(trace) : Append(trace, entry)[i] = trace[i]
      /\ Append(trace, entry)[Len(trace) + 1] = entry
  OBVIOUS
<1>2. Len(trace) + 1 \in 1 .. Len(trace) + 1 /\ 1 .. Len(trace) \subseteq 1 .. Len(trace) + 1
  BY <1>1
<1>3. QED
  BY <1>1, <1>2 DEF Recorded

\* Whatever turn s is that was settled among the first k, the history of those has its entry.
LEMMA PrefixComplete ==
  ASSUME Types, Traced, ShortRun
  PROVE  ReadTo(stepData, ByKey, MaxTurns[agent], MaxTurns[agent]) \in Seq(Entries)
         /\ \A s \in Turns : Settled(s) =>
              Recorded(ReadTo(stepData, ByKey, MaxTurns[agent], MaxTurns[agent]), s)
<1> DEFINE n == MaxTurns[agent]
           H(k) == ReadTo(stepData, ByKey, n, k)
           P(k) == H(k) \in Seq(Entries) /\ \A s \in Turns : s < k /\ Settled(s) => Recorded(H(k), s)
           T == {k \in Nat : k <= n => P(k)}
<1>n. n \in Nat /\ n <= 10 /\ Turns = 0 .. n - 1
  BY Turning DEF Types, ShortRun, Turns
<1>k. ByKey = [r \in 1 .. n |-> r - 1]
  BY <1>n, KeysInOrder
<1>0. 0 \in T
  <2>1. H(0) = <<>>
    BY <1>n, <1>k, HistoryIsRead
  <2>2. <<>> \in Seq(Entries) /\ \A s \in Turns : ~(s < 0)
    BY <1>n
  <2> HIDE DEF H
  <2>3. QED
    BY <2>1, <2>2
<1>1. ASSUME NEW k \in Nat, k \in T PROVE k + 1 \in T
  <2> SUFFICES ASSUME k + 1 <= n PROVE P(k + 1)
    BY <1>1
  <2>1. P(k) /\ k \in Turns /\ k + 1 \in 1 .. n /\ (k + 1) - 1 = k
    BY <1>1, <1>n
  <2>2. H(k + 1) = Reads(stepData, H(k), k)
    <3>1. ByKey[k + 1] = k
      BY <1>k, <2>1
    <3>2. ReadTo(stepData, ByKey, n, k + 1)
            = Reads(stepData, ReadTo(stepData, ByKey, n, (k + 1) - 1), ByKey[k + 1])
      BY <1>n, <2>1, OneTurnMore
    <3>3. QED
      BY <2>1, <3>1, <3>2
  <2>3. \A s \in Turns : s < k + 1 => s < k \/ s = k
    BY <1>n
  <2>4. stepData[k] \in Results
    BY <2>1 DEF Traced
  <2> HIDE DEF H
  <2>5. CASE stepData[k].kind = "history"
    <3>1. stepData[k].trace \in Seq(Entries)
      BY <2>4, <2>5 DEF Results, Absent, Pending, Denied, Trace
    <3>2. H(k + 1) = stepData[k].trace
      BY <2>2, <2>5 DEF Reads
    <3>3. Settled(k) => Recorded(stepData[k].trace, k)
      BY <2>5 DEF Settled, Recorded
    <3>4. \A s \in Turns : s < k /\ Settled(s) => Recorded(stepData[k].trace, s)
      BY <2>1, <2>5 DEF Traced
    <3>5. QED
      BY <2>3, <3>1, <3>2, <3>3, <3>4
  <2>6. CASE stepData[k].kind = "denied"
    <3>1. H(k + 1) = Append(H(k), DenialEntry(k))
      BY <2>2, <2>6 DEF Reads
    <3>2. DenialEntry(k) \in Entries /\ DenialEntry(k).by = k
      BY <1>1 DEF DenialEntry, Entries, Tools
    <3>3. /\ H(k + 1) \in Seq(Entries) /\ Recorded(H(k + 1), k)
          /\ \A t : Recorded(H(k), t) => Recorded(H(k + 1), t)
      BY <2>1, <3>1, <3>2, AppendRecords
    <3>4. QED
      BY <2>1, <2>3, <3>3
  <2>7. CASE stepData[k].kind \notin {"history", "denied"}
    <3>1. H(k + 1) = H(k)
      BY <2>2, <2>7 DEF Reads
    <3>2. ~Settled(k)
      BY <2>7 DEF Settled
    <3>3. QED
      BY <2>1, <2>3, <3>1, <3>2
  <2>8. QED
    BY <2>5, <2>6, <2>7
<1>2. Nat \subseteq T
  <2>1. \A k \in Nat : k \in T => k + 1 \in T
    BY <1>1
  <2> HIDE DEF T
  <2>2. QED
    BY <1>0, <2>1, Induction
<1>3. P(n)
  <2> HIDE DEF P
  <2>1. QED
    BY <1>2, <1>n
<1>4. \A s \in Turns : s < n
  BY <1>n
<1>5. QED
  BY <1>3, <1>4

\* The history has an entry for every turn that was settled.
LEMMA HistoryComplete ==
  ASSUME Types, Traced, ShortRun
  PROVE  History \in Seq(Entries) /\ \A s \in Turns : Settled(s) => Recorded(History, s)
<1> DEFINE n == MaxTurns[agent]
<1>1. n \in Nat /\ n <= 10 /\ Turns = 0 .. n - 1
  BY Turning DEF Types, ShortRun, Turns
<1>2. DOMAIN ByKey = 1 .. n
  BY <1>1, KeysInOrder
<1>3. History = ReadTo(stepData, ByKey, n, n)
  BY <1>1, <1>2, HistoryIsRead DEF History
<1>4. QED
  BY <1>3, PrefixComplete
-----------------------------------------------------------------------------
\* A save at the turn after the checkpoint or at that turn again.
LEMMA SaveTraces ==
  ASSUME Types, Traced, agent' = agent, NEW t \in Turns, t \in {current, current + 1},
         NEW value \in Results, Save(t, value),
         value.kind = "history" => \A s \in Turns : Settled(s) => Recorded(value.trace, s),
         pc' \notin {"save_pending", "log_effect", "save_commit"}, pc' = "turn" => turn' = t + 1
  PROVE  Traced'
<1>1. /\ stepData' = [stepData EXCEPT ![t] = value] /\ current' = t /\ Turns' = Turns
      /\ DOMAIN stepData = Turns
  BY DEF Save, Turns, Traced
<1>2. /\ DOMAIN stepData' = Turns /\ stepData'[t] = value
      /\ \A u \in Turns : u # t => stepData'[u] = stepData[u] /\ (Settled(u)' <=> Settled(u))
  BY <1>1 DEF Settled
<1>3. \A u \in Turns : stepData'[u] \in Results
  BY <1>2 DEF Traced
<1>4. Turns \subseteq Nat /\ current \in Int
  BY TurnsAreNat DEF Types
<1>5. \A u \in Turns : u > t => stepData'[u] = Absent
  <2> TAKE u \in Turns
  <2>1. u > t => u # t /\ u > current
    BY <1>4
  <2>2. QED
    BY <1>2, <2>1 DEF Traced
<1>6. ASSUME NEW u \in Turns, NEW s \in Turns, s < u, stepData'[u].kind = "history", Settled(s)'
      PROVE  Recorded(stepData'[u].trace, s)
  <2>1. CASE u = t
    <3>1. s # t
      BY <1>4, <1>6, <2>1
    <3>2. QED
      BY <1>2, <1>6, <2>1, <3>1
  <2>2. CASE u # t
    <3>1. ~(u > t)
      BY <1>5, <1>6 DEF Absent
    <3>2. s # t
      BY <1>4, <1>6, <2>2, <3>1
    <3>3. Settled(s) /\ stepData[u].kind = "history" /\ stepData'[u] = stepData[u]
      BY <1>2, <1>6, <2>2, <3>2
    <3>4. QED
      BY <1>6, <3>3 DEF Traced
  <2>3. QED
    BY <2>1, <2>2
<1>7. QED
  BY <1>1, <1>2, <1>3, <1>5, <1>6 DEF Traced

\* A step that saves nothing.
LEMMA TracedStays ==
  ASSUME Traced, UNCHANGED <<agent, stepData, current>>,
         pc' \in {"turn", "save_pending"} => turn' \in {current, current + 1},
         pc' \in {"log_effect", "save_commit"} => \E i \in DOMAIN gates' : gates'[i].turn = current
  PROVE  Traced'
<1>1. Turns' = Turns /\ \A t : Settled(t)' <=> Settled(t)
  BY DEF Turns, Settled
<1>2. QED
  BY <1>1 DEF Traced

\* A turn that goes on to the next checkpoints the history, or the history and its own entry.
LEMMA CheckpointTraces ==
  ASSUME IInv, Traced, ShortRun, pc = "turn", turn \in Turns, NEW trace, Checkpoint(trace),
         \/ trace = History
         \/ \E entry \in Entries : trace = Append(History, entry)
  PROVE  Traced'
<1>1. Types /\ turn \in Nat
  BY DEF IInv, Types
<1>2. History \in Seq(Entries) /\ \A s \in Turns : Settled(s) => Recorded(History, s)
  BY <1>1, HistoryComplete
<1>3. trace \in Seq(Entries) /\ \A s \in Turns : Settled(s) => Recorded(trace, s)
  <2>1. CASE trace = History
    BY <1>2, <2>1
  <2>2. ASSUME NEW entry \in Entries, trace = Append(History, entry)
        PROVE  trace \in Seq(Entries) /\ \A s \in Turns : Settled(s) => Recorded(trace, s)
    BY <1>2, <2>2, AppendRecords
  <2>3. QED
    BY <2>1, <2>2
<1>4. Trace(trace) \in Results /\ Trace(trace).trace = trace
  BY <1>3 DEF Results, Trace
<1>5. agent' = agent /\ Save(turn, Trace(trace)) /\ turn' = turn + 1 /\ pc' = "turn"
      /\ turn \in {current, current + 1}
  BY DEF Checkpoint, Traced
<1>6. QED
  BY <1>1, <1>3, <1>4, <1>5, SaveTraces

\* The commit handler adds its entry to the history.
LEMMA CommitTraces ==
  ASSUME IInv, Traced, ShortRun, SaveCommit
  PROVE  Traced'
<1>1. Types /\ current \in Turns /\ current \in Nat
  BY TurnsAreNat DEF IInv, Types, SaveCommit, AtRow
<1> DEFINE entry == Entry(current, Committed.tool, "written", FALSE)
           trace == Append(History, entry)
<1>2. entry \in Entries
  <2>1. PICK i \in DOMAIN gates : gates[i].turn = current
    BY DEF Traced, SaveCommit
  <2>2. GatesOf(current) = {i} /\ i \in Int
    BY <1>1, <2>1 DEF IInv, Types, AskedOnce, GatesOf
  <2>3. Latest(current) = i
    BY <2>2 DEF Latest
  <2>4. Committed \in Calls
    BY <2>1, <2>3, GateTypes DEF IInv, Gates, Committed
  <2>5. QED
    BY <1>1, <2>4 DEF Entry, Entries, Tools
<1>3. History \in Seq(Entries) /\ \A s \in Turns : Settled(s) => Recorded(History, s)
  BY <1>1, HistoryComplete
<1>4. trace \in Seq(Entries) /\ \A s \in Turns : Settled(s) => Recorded(trace, s)
  <2> HIDE DEF entry
  <2>1. QED
    BY <1>2, <1>3, AppendRecords
<1>5. agent' = agent /\ Save(current, Trace(trace)) /\ pc' = "mark_approved"
  BY DEF SaveCommit
<1> HIDE DEF trace
<1>6. Trace(trace) \in Results /\ Trace(trace).trace = trace
  BY <1>4 DEF Results, Trace
<1>7. QED
  BY <1>1, <1>4, <1>5, <1>6, SaveTraces

LEMMA StepTraces == ASSUME IInv, Traced, ShortRun, [Next]_vars PROVE Traced'
<1>t. Types /\ turn \in Nat /\ current \in Int
  BY DEF IInv, Types
<1>1. CASE SkipAfterFinal
  BY <1>1, CheckpointTraces DEF SkipAfterFinal
<1>2. CASE FinalTurn
  <2>1. Entry(turn, "none", "nothing", TRUE) \in Entries
    BY <1>t DEF Entry, Entries, Tools
  <2>2. QED
    BY <1>2, <2>1, CheckpointTraces DEF FinalTurn, Thinks
<1>3. CASE UnknownTool
  <2>1. PICK call \in Answers(History) :
          Checkpoint(Append(History, Entry(turn, call.tool, "unknown_tool", FALSE)))
    BY <1>3 DEF UnknownTool
  <2>2. Entry(turn, call.tool, "unknown_tool", FALSE) \in Entries
    BY <1>t, ProposedIsACall DEF Entry, Entries, Tools
  <2>3. QED
    BY <1>3, <2>1, <2>2, CheckpointTraces DEF UnknownTool, Thinks
<1>4. CASE ReadTurn
  <2>1. PICK call \in Answers(History) : \E saw \in Observations(call.tool) :
          Checkpoint(Append(History, Entry(turn, call.tool, saw, FALSE)))
    BY <1>4 DEF ReadTurn
  <2>2. PICK saw \in Observations(call.tool) :
          Checkpoint(Append(History, Entry(turn, call.tool, saw, FALSE)))
    BY <2>1
  <2>3. Entry(turn, call.tool, saw, FALSE) \in Entries
    BY <1>t, ProposedIsACall DEF Entry, Entries, Tools, Observations
  <2>4. QED
    BY <1>4, <2>2, <2>3, CheckpointTraces DEF ReadTurn, Thinks
<1>5. CASE SavePending
  <2>1. agent' = agent /\ Save(turn, Pending) /\ pc' = "mark_paused" /\ turn \in Turns
        /\ turn \in {current, current + 1}
    BY <1>5, <1>t DEF SavePending, Types, Traced
  <2>2. Pending \in Results /\ Pending.kind = "pending"
    BY DEF Results, Pending
  <2>3. QED
    BY <1>t, <2>1, <2>2, SaveTraces
<1>6. CASE ResumeDenied
  <2>1. agent' = agent /\ Save(current, Denied) /\ pc' = "mark_rejected" /\ current \in Turns
    BY <1>6, <1>t DEF ResumeDenied, Types, AtGate
  <2>2. Denied \in Results /\ Denied.kind = "denied"
    BY DEF Results, Denied
  <2>3. QED
    BY <1>t, <2>1, <2>2, SaveTraces
<1>7. CASE SaveCommit
  BY <1>7, CommitTraces
<1>8. CASE WriteTurn
  <2>1. UNCHANGED <<agent, stepData, current, turn>> /\ pc = "turn" /\ pc' = "save_pending"
    BY <1>8 DEF WriteTurn, Thinks, rowVars
  <2>2. turn' \in {current, current + 1}
    BY <2>1 DEF Traced
  <2>3. QED
    BY <2>1, <2>2, TracedStays
<1>9. CASE ResumeTurn
  <2>1. UNCHANGED <<agent, stepData, current>> /\ turn' \in {current, current + 1} /\ pc' = "turn"
    BY <1>9 DEF ResumeTurn
  <2>2. QED
    BY <2>1, TracedStays
<1>10. CASE GoOn
  <2>1. UNCHANGED <<agent, stepData, current>> /\ turn' \in {current, current + 1} /\ pc' = "turn"
    BY <1>10 DEF GoOn, NextTurn
  <2>2. QED
    BY <2>1, TracedStays
<1>11. CASE SomebodyDecides \/ UNCHANGED vars
  <2>1. UNCHANGED <<agent, stepData, current, pc, turn>>
    BY <1>11 DEF SomebodyDecides, vars, rowVars
  <2>2. pc' \in {"turn", "save_pending"} => turn' \in {current, current + 1}
    BY <2>1 DEF Traced
  <2>3. DOMAIN gates' = DOMAIN gates /\ \A i \in DOMAIN gates : gates'[i].turn = gates[i].turn
    BY <1>11, DecisionKeeps DEF SomebodyDecides, vars
  <2>4. pc' \in {"log_effect", "save_commit"} => \E i \in DOMAIN gates' : gates'[i].turn = current
    BY <2>1, <2>3 DEF Traced
  <2>5. QED
    BY <2>1, <2>2, <2>4, TracedStays
<1>12. CASE Execute \/ LogEffect \/ AlreadyDone
  <2>1. UNCHANGED <<agent, stepData, current, gates>> /\ pc' \in {"log_effect", "save_commit"}
    BY <1>12 DEF Execute, LogEffect, AlreadyDone, rowVars
  <2>2. \E i \in DOMAIN gates : gates[i].turn = current
    BY <1>12 DEF Execute, LogEffect, AlreadyDone, AtGate, GatesOf, Traced
  <2>3. QED
    BY <2>1, <2>2, TracedStays
<1>13. CASE TurnRaises \/ MarkPaused \/ Complete \/ Decide \/ Restart \/ MarkRejected
            \/ MarkApproved \/ ListPending \/ ListIsEmpty \/ Crash
  <2>1. /\ UNCHANGED <<agent, stepData, current>>
        /\ pc' \notin {"turn", "save_pending", "log_effect", "save_commit"}
    BY <1>13 DEF TurnRaises, MarkPaused, Complete, Decide, Restart, MarkRejected, MarkApproved,
                 ListPending, ListIsEmpty, Crash, rowVars
  <2>2. QED
    BY <2>1, TracedStays
<1>14. QED
  BY <1>1, <1>2, <1>3, <1>4, <1>5, <1>6, <1>7, <1>8, <1>9, <1>10, <1>11, <1>12, <1>13 DEF Next

\* With at most ten turns a run keeps its trace: the history a completed run returns has an entry
\* for every turn that came to a result or a denial, however often it was cut off, paused and
\* resumed (_history_from_step_data, _make_turn_step, _make_commit_handler).  From eleven turns
\* on it does not, because step_data comes back in the order of its keys.
THEOREM TraceKept ==
  ASSUME \A a \in Agents : MaxTurns[a] <= 10
  PROVE  Spec => []TraceComplete
<1>1. Init => Traced
  <2> SUFFICES ASSUME Init PROVE Traced
    OBVIOUS
  <2>1. /\ stepData = [t \in Turns |-> Absent] /\ current = -1 /\ turn = 0 /\ pc = "turn"
    BY DEF Init
  <2>2. DOMAIN stepData = Turns /\ \A t \in Turns : stepData[t] = Absent
    BY <2>1
  <2>3. Absent \in Results /\ Absent.kind = "absent"
    BY DEF Results, Absent
  <2>4. turn \in {current, current + 1}
    BY <2>1
  <2>5. QED
    BY <2>1, <2>2, <2>3, <2>4 DEF Traced
<1>2. IInv => ShortRun
  BY DEF IInv, Types, ShortRun
<1>3. Spec => []Traced
  <2>1. IInv /\ Traced /\ [Next]_vars => Traced'
    BY <1>2, StepTraces
  <2>2. QED
    BY <1>1, <2>1, AgentInvariant, PTL DEF Spec
<1>4. IInv /\ Traced => TraceComplete
  BY <1>2, HistoryComplete DEF IInv, TraceComplete, Recorded
<1>5. QED
  BY <1>3, <1>4, AgentInvariant, PTL
=============================================================================
