----------------------------- MODULE PhaseRunner -----------------------------
(***************************************************************************)
(* The CLEAR phase runner of one build (src/factory/clear_workflow.py):    *)
(* the step that implements, assesses and remediates the phases of a plan, *)
(* the ship step behind it, the workspace they write, and the verification *)
(* ledger.  The runner keeps its state in memory and saves it whole        *)
(* (clear_phase_state) after every lap.  A crash loses the memory, and the *)
(* engine runs the step again until it has checkpointed its result.        *)
(*                                                                         *)
(* An action ends at a save, a file write, a ledger write or a test run.   *)
(* Every phase decision is taken at pc = "loop", whether the code gets     *)
(* there from the while loop or further down in _advance_phase: the phase  *)
(* is the first that is not completed, so both find the same.  Of the      *)
(* workspace only the feature source of each phase is kept, since that is  *)
(* what the tests and the digests read; reports, notes, context records    *)
(* and the max_laps guard are left out.                                    *)
(***************************************************************************)
EXTENDS VerificationLedger

CONSTANTS
  MaxAttempts,   \* max_attempts
  Forced,        \* force_failure_phase, 0 for none
  MaxCrashes,    \* bound: crashes
  MaxVerdicts    \* bound: verdicts the CI records

ASSUME RunnerAssumption ==
  /\ MaxAttempts \in Nat \ {0} /\ Forced \in Nat
  /\ MaxCrashes \in Nat /\ MaxVerdicts \in Nat

VARIABLES
  saved,       \* the clear_phase_state row; Fresh before there is one
  source,      \* src/phase_N_feature.py, for each phase N
  logged,      \* side_effect_log: the keys of the feature writes
  result,      \* the checkpoint of the step: none, blocked, complete
  shipped,     \* the ship step has returned
  pc, mem,     \* the runner: its place in the code, and phase_state
  flushed,     \* how many pending verdicts the flush has recorded
  tested,      \* history: the source each phase's tests last passed on
  crashes, verdicts   \* counted for the bounds

runVars == <<saved, source, logged, result, shipped, pc, mem, flushed, tested,
             crashes, verdicts>>
vars == <<ledgerVars, runVars>>

Attempts == 1 .. MaxAttempts
Lap == [phase : Phases, attempt : Attempts, kind : {"implement", "assess", "remediate"},
        passed : BOOLEAN]
Pending == [phase : Phases, digest : Sources \cup {NoDigest}]
PhaseState ==
  [attempt : Attempts,
   status : {"implementing", "assessing", "remediating", "passed", "blocked"},
   action : {"none", "advance", "remediate", "ship", "blocked"},
   laps : SUBSET Lap, completed : SUBSET Phases, pending : Seq(Pending)]
Fresh == [attempt |-> 1, status |-> "implementing", action |-> "none",
          laps |-> {}, completed |-> {}, pending |-> <<>>]

\* Types, and no build goes past its attempt limit.
TypeOK ==
  /\ LedgerTypeOK
  /\ saved \in PhaseState /\ mem \in PhaseState
  /\ source \in [Phases -> Sources] /\ tested \in [Phases -> Sources]
  /\ logged \subseteq Phases \X Attempts \X Sources
  /\ result \in {"none", "blocked", "complete"} /\ shipped \in BOOLEAN
  /\ pc \in {"idle", "loop", "write", "log", "lap", "test", "verify",
             "finalize", "flush", "done"}
  /\ flushed \in 0 .. Len(mem.pending)
  /\ crashes \in 0 .. MaxCrashes /\ verdicts \in 0 .. MaxVerdicts

Init ==
  /\ LedgerInit
  /\ saved = Fresh /\ mem = Fresh /\ logged = {}
  /\ source = [p \in Phases |-> "absent"] /\ tested = source
  /\ result = "none" /\ shipped = FALSE /\ pc = "idle" /\ flushed = 0
  /\ crashes = 0 /\ verdicts = 0

(* ------------------------------------------------ what the runner reads *)

Remaining == Phases \ mem.completed
Current == Least(Remaining)
HasLap(kind) ==
  \E lap \in mem.laps :
    lap.phase = Current /\ lap.attempt = mem.attempt /\ lap.kind = kind
Quiet == mem.action = "ship" \/ mem.status = "blocked" \/ Remaining = {}

\* The runner decides what comes next for the current phase.
Deciding == pc = "loop" /\ ~Quiet
Go(place) == pc' = place
Save(state) == mem' = state /\ saved' = state
NewLap(kind, passed) ==
  [phase |-> Current, attempt |-> mem.attempt, kind |-> kind, passed |-> passed]
Workspace == <<source, logged>>
Outside == <<result, shipped, crashes, verdicts>>

(* -------------------------------------------------- the step's own moves *)

\* _phase_runner begins: it loads what was saved, or saves a fresh state.
Load ==
  /\ pc = "idle" /\ result = "none"
  /\ mem' = saved /\ SeedDeferred /\ Go("loop")
  /\ UNCHANGED <<saved, flushed, tested, Workspace, Outside>>

\* A lap that is not recorded for this attempt starts, and says so.
Start(kind, status, place) ==
  /\ Deciding /\ ~HasLap(kind)
  /\ Save([mem EXCEPT !.status = status]) /\ Go(place)
  /\ UNCHANGED <<ledgerVars, flushed, tested, Workspace, Outside>>

StartImplement == Start("implement", "implementing", "write")
StartAssess ==
  /\ Deciding /\ HasLap("implement")
  /\ Start("assess", "assessing", "test")
StartRemediate ==
  /\ Deciding /\ HasLap("implement") /\ HasLap("assess")
  /\ mem.attempt < MaxAttempts
  /\ Start("remediate", "remediating", "write")

\* What the implementer or the remediation writes: broken only when the
\* failure is forced, which is on the first attempt.
Content ==
  IF mem.status = "implementing" /\ Current = Forced /\ mem.attempt = 1
  THEN "broken" ELSE "correct"
SlipKey == <<Current, mem.attempt, "correct">>
Key == <<Current, mem.attempt, Content>>

\* Workspace.write_file(): a key in the log means it was written before.
WriteSource ==
  /\ pc = "write" /\ Key \notin logged
  /\ source' = [source EXCEPT ![Current] = Content] /\ Go("log")
  /\ UNCHANGED <<ledgerVars, saved, mem, logged, flushed, tested, Outside>>
LogWrite ==
  /\ pc = "log" /\ logged' = logged \cup {Key} /\ Go("lap")
  /\ UNCHANGED <<ledgerVars, saved, mem, source, flushed, tested, Outside>>
SkipWrite ==
  /\ pc = "write" /\ Key \in logged /\ Go("lap")
  /\ UNCHANGED <<ledgerVars, saved, mem, flushed, tested, Workspace, Outside>>

EndImplement ==
  /\ pc = "lap" /\ mem.status = "implementing"
  /\ Save([mem EXCEPT !.laps = @ \cup {NewLap("implement", TRUE)}]) /\ Go("loop")
  /\ UNCHANGED <<ledgerVars, flushed, tested, Workspace, Outside>>

SlipEndRemediate ==
  /\ pc = "lap" /\ mem.status = "remediating"
  /\ Save([mem EXCEPT !.laps = @ \cup {NewLap("remediate", TRUE)},
                      !.status = "implementing", !.action = "remediate"])
  /\ Go("loop")
  /\ UNCHANGED <<ledgerVars, flushed, tested, Workspace, Outside>>
EndRemediate ==
  /\ pc = "lap" /\ mem.status = "remediating"
  /\ Save([mem EXCEPT !.laps = @ \cup {NewLap("remediate", TRUE)},
                      !.attempt = @ + 1, !.status = "implementing",
                      !.action = "remediate"])
  /\ Go("loop")
  /\ UNCHANGED <<ledgerVars, flushed, tested, Workspace, Outside>>

\* The tests fail on the forced failure and without a source; on any other
\* they pass, or fail (the plan names the command and its time is limited).
Assess(passed) ==
  /\ pc = "test" /\ (passed => source[Current] \in {"correct", "changed"})
  /\ Save([mem EXCEPT !.laps = @ \cup {NewLap("assess", passed)}])
  /\ tested' = IF passed THEN [tested EXCEPT ![Current] = source[Current]] ELSE tested
  /\ Go(IF passed THEN "verify" ELSE "loop")
  /\ UNCHANGED <<ledgerVars, flushed, Workspace, Outside>>

\* Saves the completed phase first, and its verdict only in memory.
SlipVerify ==
  LET done == [mem EXCEPT !.status = "passed", !.action = "advance",
                          !.completed = @ \cup {Current}]
  IN  /\ pc = "verify" /\ saved' = done /\ Go("loop")
      /\ mem' = [done EXCEPT !.pending =
                   Append(@, [phase |-> Current, digest |-> Digest(source[Current])])]
      /\ UNCHANGED <<ledgerVars, flushed, tested, Workspace, Outside>>
\* _verify_phase_claims() and the save that follows it.
Verify ==
  /\ pc = "verify"
  /\ Save([mem EXCEPT
       !.pending = Append(@, [phase |-> Current, digest |-> Digest(source[Current])]),
       !.status = "passed", !.action = "advance",
       !.completed = @ \cup {Current}])
  /\ Go("loop")
  /\ UNCHANGED <<ledgerVars, flushed, tested, Workspace, Outside>>

Block ==
  /\ Deciding /\ HasLap("implement") /\ HasLap("assess")
  /\ mem.attempt >= MaxAttempts
  /\ Save([mem EXCEPT !.status = "blocked", !.action = "blocked"]) /\ Go("loop")
  /\ UNCHANGED <<ledgerVars, flushed, tested, Workspace, Outside>>

\* The loop ends; with no phase left, next_action is saved as ship.
Quiesce ==
  /\ pc = "loop" /\ Quiet
  /\ IF mem.status = "blocked" THEN UNCHANGED <<mem, saved>>
     ELSE Save([mem EXCEPT !.action = "ship"])
  /\ Go("finalize")
  /\ UNCHANGED <<ledgerVars, flushed, tested, Workspace, Outside>>

\* _finalize_and_flush_verifications(): nothing for a blocked build.
Finalize ==
  /\ pc = "finalize"
  /\ IF mem.status = "blocked" \/ mem.pending = <<>>
     THEN flushed' = Len(mem.pending) /\ UNCHANGED ledgerVars
     ELSE flushed' = 0 /\ FinalizeBuild
  /\ Go("flush")
  /\ UNCHANGED <<saved, mem, tested, Workspace, Outside>>
Flush ==
  /\ pc = "flush" /\ flushed < Len(mem.pending)
  /\ LET pending == mem.pending[flushed + 1]
     IN  Record(PhaseClaim(pending.phase), "VERIFIED", pending.digest)
  /\ flushed' = flushed + 1
  /\ UNCHANGED <<saved, mem, pc, tested, Workspace, Outside>>

\* The step returns (the queue is emptied in memory, never in what is
\* saved) and the engine checkpoints its result.
Return ==
  /\ pc = "flush" /\ flushed = Len(mem.pending)
  /\ mem' = IF mem.status = "blocked" THEN mem ELSE [mem EXCEPT !.pending = <<>>]
  /\ flushed' = 0 /\ Go("done")
  /\ result' = IF mem.status = "blocked" THEN "blocked" ELSE "complete"
  /\ UNCHANGED <<ledgerVars, saved, tested, Workspace, shipped, crashes, verdicts>>

(* ------------------------------------------------------------- the others *)

\* The ship step; it raises, and may be run again, while a gate is shut.
Ship ==
  /\ result = "complete" /\ ~shipped
  /\ SeedDeferred /\ GateOk /\ SourcesIntact(source) /\ shipped' = TRUE
  /\ UNCHANGED <<saved, mem, pc, flushed, tested, Workspace, result, crashes, verdicts>>

Crash ==
  /\ pc \notin {"idle", "done"} /\ crashes < MaxCrashes
  /\ mem' = Fresh /\ flushed' = 0 /\ Go("idle") /\ crashes' = crashes + 1
  /\ UNCHANGED <<ledgerVars, saved, tested, Workspace, result, shipped, verdicts>>

\* While the runner does not run: the CI (MetaClaimVerifier) finalizes the
\* build or records a verdict, and somebody edits the workspace.
Between == pc \in {"idle", "done"} /\ ~shipped
MetaFinalize == Between /\ FinalizeBuild /\ UNCHANGED runVars
MetaRecord(verdict) ==
  /\ Between /\ verdicts < MaxVerdicts /\ verdicts' = verdicts + 1
  /\ Record(Meta, verdict, NoDigest)
  /\ UNCHANGED <<saved, mem, pc, flushed, tested, Workspace, result, shipped, crashes>>
Edit(p) ==
  /\ Between /\ source' = [source EXCEPT ![p] = "changed"]
  /\ UNCHANGED <<ledgerVars, saved, mem, pc, logged, flushed, tested, Outside>>

Runner ==
  \/ Load \/ StartImplement \/ StartAssess \/ StartRemediate
  \/ WriteSource \/ LogWrite \/ SkipWrite \/ EndImplement \/ EndRemediate
  \/ \E passed \in BOOLEAN : Assess(passed)
  \/ Verify \/ Block \/ Quiesce \/ Finalize \/ Flush \/ Return
Next ==
  \/ Runner \/ Ship \/ Crash \/ MetaFinalize
  \/ \E verdict \in {"VERIFIED", "REFUTED"} : MetaRecord(verdict)
  \/ \E p \in Phases : Edit(p)
Spec == Init /\ [][Next]_vars
FairSpec == Spec /\ WF_vars(Runner)

(***************************************************************************)
(* Properties                                                              *)
(***************************************************************************)

\* When the step's result says the build is complete, the verdict of every
\* phase is in the ledger, it is VERIFIED, and it is younger than the build
\* it is about, whatever crashed in between: the verdicts wait in the saved
\* state until the build is final (_finalize_and_flush_verifications).
CompletesVerified ==
  [][result = "none" /\ result' = "complete" =>
       \A p \in Phases : Verified(PhaseClaim(p))']_vars

\* A write that is skipped because its key is in the log left its content on
\* disk: when a lap is recorded, the source is what that lap should have
\* written, unless somebody edited it (Workspace.write_file).
LapsLeaveTheirSource ==
  pc = "lap" => source[Current] \in {Content, "changed"}

\* What ships is, phase by phase, the source the tests last passed on: an
\* edit after the verification is refused (verify_source_integrity, which
\* reads the oldest verdict, of a ledger that a crash may have filled twice).
ShipsWhatWasTested ==
  [][~shipped /\ shipped' => \A p \in Phases : source[p] = tested[p]]_vars

\* The build ships on the CI's last word: the meta claim's newest row, in
\* writing order, is VERIFIED and belongs to the current build, though each
\* row names the first as the one it supersedes (latest_row_for).
ShipsOnTheLastVerdict ==
  [][~shipped /\ shipped' =>
       LET i == Greatest(RowsOf(Meta))
       IN  rows[i].verdict = "VERIFIED" /\ i > stamp]_vars

\* The step ends, blocked or complete, if it is run again after each crash:
\* remediation cannot go round for ever (the while loop of _phase_runner).
RunnerEnds == <>(result # "none")
=============================================================================
