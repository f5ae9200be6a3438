-------------------------- MODULE ClearSafety_proofs --------------------------
(***************************************************************************)
(* The CLEAR phase runner and its verification ledger, for any plan,       *)
(* attempt limit, forced failure, and any number of crashes, re-runs,      *)
(* verdicts and edits: what is complete is verified, and what ships is     *)
(* what was tested.                                                        *)
(***************************************************************************)
EXTENDS PhaseRunner, FiniteSetTheorems, TLAPS

Good == {"correct", "changed"}

\* While the runner runs, its memory is what it saved; it stops with all phases completed, or
\* blocked; and a saved next_action of ship says the same.
Stored ==
  /\ pc \notin {"idle", "done"} => mem = saved
  /\ pc = "idle" => flushed = 0
  /\ pc = "done" <=> result # "none"
  /\ saved.action = "ship" => saved.completed = Phases
  /\ pc \in {"finalize", "flush"} => saved.status = "blocked" \/ saved.completed = Phases

\* Inside a lap there is a phase left, and the lap is not recorded yet.
Working ==
  /\ pc \in {"write", "log", "lap", "test", "verify"} => Remaining # {}
  /\ pc \in {"write", "log", "lap"} =>
       \/ mem.status = "implementing" /\ ~HasLap("implement")
       \/ mem.status = "remediating" /\ HasLap("implement") /\ mem.attempt < MaxAttempts

\* The forced failure cannot be written any more.
Begun ==
  \/ saved.attempt > 1
  \/ \E lap \in saved.laps : lap.phase = Forced /\ lap.attempt = 1 /\ lap.kind = "implement"

\* A key in the log: its content, or one that may follow it, is on disk.
Written ==
  /\ \A p \in Phases, a \in Attempts :
       <<p, a, "correct">> \in logged => source[p] \in Good /\ (p = Forced => Begun)
  /\ \A p \in Phases, a \in Attempts :
       <<p, a, "broken">> \in logged =>
         p = Forced /\ (Begun \/ source[p] \in {"broken", "changed"})
  /\ pc \in {"log", "lap"} => source[Current] \in {Content, "changed"}

\* Verdicts, waiting or recorded, are of completed phases and carry the source tested last.
Judged ==
  /\ \A k \in 1 .. Len(saved.pending) :
       /\ saved.pending[k].phase \in saved.completed
       /\ saved.pending[k].digest = tested[saved.pending[k].phase]
  /\ \A p \in saved.completed :
       tested[p] \in Good /\ \E k \in 1 .. Len(saved.pending) : saved.pending[k].phase = p
  /\ \A i \in 1 .. Len(rows), p \in Phases :
       rows[i].claim = PhaseClaim(p) =>
         p \in saved.completed /\ rows[i].verdict = "VERIFIED" /\ rows[i].digest = tested[p]
  /\ pc = "verify" => source[Current] \in Good /\ tested[Current] = source[Current]

\* A row supersedes an earlier one of its claim.
Superseding ==
  \A i \in 1 .. Len(rows) :
    LET j == rows[i].supersedes
    IN  j # 0 => j \in 1 .. Len(rows) /\ j < i /\ rows[j].claim = rows[i].claim

\* The flush: what it has passed is younger than the build, and what is complete has verdicts.
Flushing ==
  /\ pc = "flush" /\ saved.status # "blocked" =>
       \A k \in 1 .. flushed : \E i \in 1 .. Len(rows) :
         i > stamp /\ rows[i].claim = PhaseClaim(saved.pending[k].phase)
  /\ result = "complete" =>
       saved.completed = Phases /\ \A p \in Phases : RowsOf(PhaseClaim(p)) # {}

IInv == TypeOK /\ Stored /\ Working /\ Written /\ Judged /\ Superseding /\ Flushing
-----------------------------------------------------------------------------
(* Least, greatest, and the row a claim is judged by.                      *)

LEMMA LeastIs ==
  ASSUME NEW S \in SUBSET Nat, S # {}
  PROVE  Least(S) \in S /\ \A u \in S : Least(S) <= u
<1>1. \E t \in S : \A u \in S : ~(<<u, t>> \in OpToRel(<, Nat))
  BY WFMin, NatLessThanWellFounded, Zenon
<1>2. PICK t \in S : \A u \in S : ~(<<u, t>> \in OpToRel(<, Nat))
  BY <1>1
<1>3. \A u \in S : ~(u < t)
  <2> SUFFICES ASSUME NEW u \in S, u < t PROVE FALSE
    OBVIOUS
  <2>1. <<u, t>> \in OpToRel(<, Nat)
    BY Zenon DEF OpToRel
  <2>2. QED
    BY <1>2, <2>1
<1>4. \A u \in S : u \in Nat /\ t \in Nat
  OBVIOUS
<1>5. t \in S /\ \A u \in S : t <= u
  BY <1>3, <1>4
<1>6. QED
  BY <1>5, Zenon DEF Least

LEMMA GreatestIs ==
  ASSUME NEW n \in Nat, NEW S \in SUBSET (1 .. n), S # {}
  PROVE  Greatest(S) \in S /\ \A u \in S : Greatest(S) >= u
<1> DEFINE T == {n - i : i \in S}
<1>1. T \in SUBSET Nat /\ T # {}
  <2>1. \A i \in S : i \in 1 .. n
    OBVIOUS
  <2>2. \A i \in S : n - i \in Nat
    BY <2>1
  <2>3. PICK i \in S : TRUE
    OBVIOUS
  <2>4. T # {}
    BY <2>3
  <2>5. QED
    BY <2>2, <2>4
<1>2. Least(T) \in T /\ \A u \in T : Least(T) <= u
  BY <1>1, LeastIs
<1>3. PICK g \in S : Least(T) = n - g
  BY <1>2
<1>4. \A u \in S : n - g <= n - u
  BY <1>2, <1>3
<1>5. g \in S /\ \A u \in S : g >= u
  BY <1>4
<1>6. QED
  BY <1>5, Zenon DEF Greatest

\* latest_row_for() finds the newest row of the claim.
LEMMA NewestIsLatest ==
  ASSUME Superseding, rows \in Seq(Row), NEW claim, RowsOf(claim) # {}
  PROVE  /\ Candidates(claim) # {} /\ LatestRow(claim) = Greatest(RowsOf(claim))
         /\ LatestRow(claim) \in RowsOf(claim)
         /\ \A u \in RowsOf(claim) : LatestRow(claim) >= u
<1> DEFINE g == Greatest(RowsOf(claim))
<1>1. Len(rows) \in Nat /\ RowsOf(claim) \in SUBSET (1 .. Len(rows))
  BY DEF RowsOf
<1>2. g \in RowsOf(claim) /\ \A u \in RowsOf(claim) : g >= u
  BY <1>1, GreatestIs
<1>3. ASSUME NEW i \in 1 .. Len(rows), rows[i].supersedes = g
      PROVE  FALSE
  <2>1. g \in 1 .. Len(rows) /\ rows[g].claim = claim
    BY <1>2 DEF RowsOf
  <2>2. g < i /\ rows[i].claim = claim
    BY <1>3, <2>1 DEF Superseding
  <2>3. i \in RowsOf(claim)
    BY <2>2 DEF RowsOf
  <2>4. QED
    BY <1>2, <2>1, <2>2, <2>3
<1>4. g \in Candidates(claim) /\ Candidates(claim) \subseteq RowsOf(claim)
  BY <1>2, <1>3 DEF Candidates
<1>5. Candidates(claim) \in SUBSET (1 .. Len(rows)) /\ Candidates(claim) # {}
  BY <1>1, <1>4
<1>6. /\ Greatest(Candidates(claim)) \in Candidates(claim)
      /\ \A u \in Candidates(claim) : Greatest(Candidates(claim)) >= u
  BY <1>1, <1>5, GreatestIs
<1>7. Greatest(Candidates(claim)) = g
  <2>1. Greatest(Candidates(claim)) >= g /\ g >= Greatest(Candidates(claim))
    BY <1>2, <1>4, <1>6
  <2>2. Greatest(Candidates(claim)) \in Nat /\ g \in Nat
    BY <1>1, <1>2, <1>5, <1>6
  <2>3. QED
    BY <2>1, <2>2
<1>8. QED
  BY <1>2, <1>5, <1>7 DEF LatestRow
-----------------------------------------------------------------------------
(* What the runner saves, and what the ledger appends.                     *)

LEMMA Setting ==
  ASSUME NEW s \in PhaseState
  PROVE  /\ \A x \in Attempts : [s EXCEPT !.attempt = x] \in PhaseState
         /\ \A x \in {"implementing", "assessing", "remediating", "passed", "blocked"} :
              [s EXCEPT !.status = x] \in PhaseState
         /\ \A x \in {"none", "advance", "remediate", "ship", "blocked"} :
              [s EXCEPT !.action = x] \in PhaseState
         /\ \A x \in SUBSET Lap : [s EXCEPT !.laps = x] \in PhaseState
         /\ \A x \in SUBSET Phases : [s EXCEPT !.completed = x] \in PhaseState
         /\ \A x \in Seq(Pending) : [s EXCEPT !.pending = x] \in PhaseState
  BY DEF PhaseState

LEMMA Lapped ==
  ASSUME NEW s \in PhaseState, NEW l \in Lap, NEW t, t = [s EXCEPT !.laps = @ \cup {l}]
  PROVE  /\ t \in PhaseState
         /\ t.laps = s.laps \cup {l} /\ t.attempt = s.attempt
         /\ t.status = s.status /\ t.action = s.action
         /\ t.completed = s.completed /\ t.pending = s.pending
<1>1. s.laps \cup {l} \in SUBSET Lap
  BY DEF PhaseState
<1>2. t = [attempt |-> s.attempt, status |-> s.status, action |-> s.action,
           laps |-> s.laps \cup {l}, completed |-> s.completed, pending |-> s.pending]
  BY DEF PhaseState
<1>3. QED
  BY <1>1, <1>2 DEF PhaseState

LEMMA Appended ==
  ASSUME TypeOK, Superseding, NEW claim \in Claims,
         NEW verdict \in {"VERIFIED", "REFUTED", "DEFERRED"},
         NEW digest \in Sources \cup {NoDigest},
         rows' = Append(rows, Entry(claim, verdict, digest))
  PROVE  /\ rows' \in Seq(Row) /\ Len(rows') = Len(rows) + 1
         /\ \A i \in 1 .. Len(rows) : rows'[i] = rows[i]
         /\ rows'[Len(rows) + 1].claim = claim
         /\ rows'[Len(rows) + 1].verdict = verdict
         /\ rows'[Len(rows) + 1].digest = digest
         /\ Superseding'
<1> DEFINE e == Entry(claim, verdict, digest)
<1>1. rows \in Seq(Row) /\ Len(rows) \in Nat /\ RowsOf(claim) \in SUBSET (1 .. Len(rows))
  BY DEF TypeOK, LedgerTypeOK, RowsOf
<1>2. e.claim = claim /\ e.verdict = verdict /\ e.digest = digest
  BY DEF Entry
<1>3. e.supersedes = 0 \/ e.supersedes \in RowsOf(claim)
  <2>1. RowsOf(claim) # {} => Least(RowsOf(claim)) \in RowsOf(claim)
    <3>1. RowsOf(claim) \in SUBSET Nat
      BY <1>1
    <3>2. QED
      BY <3>1, LeastIs
  <2>2. QED
    BY <2>1 DEF Entry
<1>4. e \in Row
  <2>1. e.supersedes \in Nat
    BY <1>1, <1>3
  <2>2. QED
    BY <2>1 DEF Entry, Row
<1>5. /\ rows' \in Seq(Row) /\ Len(rows') = Len(rows) + 1
      /\ \A i \in 1 .. Len(rows) : rows'[i] = rows[i]
      /\ rows'[Len(rows) + 1] = e
  <2> HIDE DEF e
  <2>1. rows' = Append(rows, e)
    BY DEF e
  <2>2. QED
    BY <1>1, <1>4, <2>1
<1>6. ASSUME NEW i \in 1 .. Len(rows'), rows'[i].supersedes # 0
      PROVE  /\ rows'[i].supersedes \in 1 .. Len(rows') /\ rows'[i].supersedes < i
             /\ rows'[rows'[i].supersedes].claim = rows'[i].claim
  <2>1. CASE i \in 1 .. Len(rows)
    BY <1>1, <1>5, <1>6, <2>1 DEF Superseding
  <2>2. CASE i = Len(rows) + 1
    <3>1. rows'[i] = e /\ e.supersedes \in RowsOf(claim)
      BY <1>3, <1>5, <1>6, <2>2
    <3>2. e.supersedes \in 1 .. Len(rows) /\ rows[e.supersedes].claim = claim
      BY <3>1 DEF RowsOf
    <3>3. QED
      BY <1>1, <1>2, <1>5, <2>2, <3>1, <3>2
  <2>3. QED
    BY <1>1, <1>5, <1>6, <2>1, <2>2
<1>7. Superseding'
  BY <1>6 DEF Superseding
<1>8. QED
  BY <1>2, <1>5, <1>7
-----------------------------------------------------------------------------
(* What a step that leaves a part alone keeps.                             *)

LEMMA JudgedStays ==
  ASSUME IInv, UNCHANGED <<rows, tested>>,
         saved'.pending = saved.pending, saved'.completed = saved.completed,
         (pc = "verify" => source[Current] \in Good /\ tested[Current] = source[Current])'
  PROVE  Judged'
  BY DEF IInv, Judged

LEMMA WrittenStays ==
  ASSUME IInv, UNCHANGED <<source, logged>>, saved' \in PhaseState,
         saved'.attempt >= saved.attempt, saved.laps \subseteq saved'.laps,
         (pc \in {"log", "lap"} => source[Current] \in {Content, "changed"})'
  PROVE  Written'
<1>1. saved.attempt \in Int /\ saved'.attempt \in Int
  BY RunnerAssumption DEF IInv, TypeOK, PhaseState, Attempts
<1>2. Begun => Begun'
  BY <1>1 DEF Begun
<1>3. QED
  BY <1>2 DEF IInv, Written

LEMMA FlushingStays ==
  ASSUME IInv, UNCHANGED <<rows, result>>, saved'.completed = saved.completed,
         pc' # "flush"
  PROVE  Flushing'
  BY DEF IInv, Flushing, RowsOf

LEMMA SupersedingStays == ASSUME IInv, UNCHANGED rows PROVE Superseding'
  BY DEF IInv, Superseding

\* In a lap there is a current phase; it is not completed.
LEMMA CurrentIs ==
  ASSUME TypeOK, Remaining # {}
  PROVE  Current \in Phases /\ Current \notin mem.completed
<1>1. Remaining \in SUBSET Nat
  BY LedgerAssumption DEF Remaining, Phases
<1>2. Current \in Remaining
  BY <1>1, LeastIs DEF Current
<1>3. QED
  BY <1>2 DEF Remaining

\* A step that only ends or starts a lap, or decides: it saves its memory whole, does not
\* complete a phase, and touches neither the ledger nor the workspace.
LEMMA SaveKeeps ==
  ASSUME IInv, pc \notin {"idle", "done"}, mem' = saved', saved' \in PhaseState,
         saved'.attempt >= saved.attempt, saved.laps \subseteq saved'.laps,
         saved'.completed = saved.completed, saved'.pending = saved.pending,
         saved'.action = "ship" => saved'.completed = Phases,
         pc' \in {"loop", "write", "test", "finalize"},
         pc' = "finalize" => saved'.status = "blocked" \/ saved'.completed = Phases,
         Working',
         UNCHANGED <<ledgerVars, flushed, tested, Workspace, Outside>>
  PROVE  IInv'
<1>1. TypeOK'
  BY DEF IInv, TypeOK, LedgerTypeOK, ledgerVars, Workspace, Outside, Stored
<1>2. Stored'
  BY DEF IInv, Stored, Outside
<1>3. Written'
  BY WrittenStays DEF Workspace
<1>4. Judged'
  BY JudgedStays DEF ledgerVars
<1>5. Superseding' /\ Flushing'
  BY SupersedingStays, FlushingStays DEF ledgerVars, Outside
<1>6. QED
  BY <1>1, <1>2, <1>3, <1>4, <1>5 DEF IInv
-----------------------------------------------------------------------------
(* The runner's own moves.                                                 *)

LEMMA SameLap ==
  ASSUME mem'.completed = mem.completed, mem'.laps = mem.laps, mem'.attempt = mem.attempt
  PROVE  /\ Remaining' = Remaining /\ Current' = Current
         /\ HasLap("implement")' <=> HasLap("implement")
<1>1. Remaining' = Remaining /\ Current' = Current
  BY DEF Remaining, Current
<1>2. QED
  BY <1>1 DEF HasLap

LEMMA StartKeeps ==
  ASSUME IInv, NEW kind, NEW status \in {"implementing", "assessing", "remediating"},
         NEW place \in {"write", "test"}, Start(kind, status, place),
         place = "write" =>
           \/ status = "implementing" /\ ~HasLap("implement")
           \/ status = "remediating" /\ HasLap("implement") /\ mem.attempt < MaxAttempts
  PROVE  IInv'
<1>1. mem = saved /\ mem \in PhaseState /\ pc = "loop" /\ Remaining # {} /\ mem.action # "ship"
  BY DEF IInv, TypeOK, Stored, Start, Deciding, Quiet
<1>2. /\ mem' \in PhaseState /\ saved' = mem' /\ pc' = place
      /\ mem'.completed = mem.completed /\ mem'.laps = mem.laps
      /\ mem'.attempt = mem.attempt /\ mem'.pending = mem.pending
      /\ mem'.status = status /\ mem'.action = mem.action
  <2>1. mem' = [mem EXCEPT !.status = status] /\ saved' = mem' /\ pc' = place
    BY DEF Start, Save, Go
  <2>2. mem' \in PhaseState
    BY <1>1, <2>1, Setting
  <2>3. QED
    BY <1>1, <2>1, <2>2 DEF PhaseState
<1>3. Working'
  <2>1. /\ Remaining' = Remaining /\ Current' = Current
        /\ HasLap("implement")' <=> HasLap("implement")
    BY <1>2, SameLap
  <2>2. QED
    BY <1>1, <1>2, <2>1 DEF Working
<1>4. saved'.attempt >= saved.attempt
  BY <1>1, <1>2, RunnerAssumption DEF PhaseState, Attempts
<1>5. QED
  <2>1. UNCHANGED <<ledgerVars, flushed, tested, Workspace, Outside>>
    BY DEF Start
  <2>2. mem' = saved' /\ saved' \in PhaseState /\ saved'.action # "ship"
    BY <1>1, <1>2
  <2>3. pc' \in {"loop", "write", "test", "finalize"} /\ pc' # "finalize"
    BY <1>2
  <2>4. /\ saved'.completed = saved.completed /\ saved'.pending = saved.pending
        /\ saved.laps \subseteq saved'.laps
    BY <1>1, <1>2
  <2>5. QED
    BY <1>1, <1>3, <1>4, <2>1, <2>2, <2>3, <2>4, SaveKeeps

LEMMA StartsKeep ==
  ASSUME IInv, StartImplement \/ StartAssess \/ StartRemediate
  PROVE  IInv'
<1>1. CASE StartImplement
  BY <1>1, StartKeeps DEF StartImplement, Start
<1>2. CASE StartAssess
  BY <1>2, StartKeeps DEF StartAssess
<1>3. CASE StartRemediate
  BY <1>3, StartKeeps DEF StartRemediate
<1>4. QED
  BY <1>1, <1>2, <1>3

LEMMA NewLapType ==
  ASSUME IInv, Remaining # {}, NEW kind \in {"implement", "assess", "remediate"},
         NEW passed \in BOOLEAN
  PROVE  NewLap(kind, passed) \in Lap
<1>1. Current \in Phases /\ mem.attempt \in Attempts
  BY CurrentIs DEF IInv, TypeOK, PhaseState
<1>2. QED
  BY <1>1 DEF NewLap, Lap

LEMMA EndImplementKeeps ==
  ASSUME IInv, EndImplement
  PROVE  IInv'
<1>1. mem = saved /\ mem \in PhaseState /\ pc = "lap" /\ Remaining # {}
  BY DEF IInv, TypeOK, Stored, Working, EndImplement
<1>2. NewLap("implement", TRUE) \in Lap
  BY <1>1, NewLapType
<1>3. /\ mem' \in PhaseState /\ saved' = mem' /\ pc' = "loop"
      /\ mem'.laps = mem.laps \cup {NewLap("implement", TRUE)} /\ mem'.attempt = mem.attempt
      /\ mem'.status = mem.status /\ mem'.action = mem.action
      /\ mem'.completed = mem.completed /\ mem'.pending = mem.pending
  <2>1. mem' = [mem EXCEPT !.laps = @ \cup {NewLap("implement", TRUE)}]
        /\ saved' = mem' /\ pc' = "loop"
    BY DEF EndImplement, Save, Go
  <2>2. QED
    <3>1. ASSUME NEW l \in Lap, NEW t, t = [mem EXCEPT !.laps = @ \cup {l}]
          PROVE  /\ t \in PhaseState
                 /\ t.laps = mem.laps \cup {l} /\ t.attempt = mem.attempt
                 /\ t.status = mem.status /\ t.action = mem.action
                 /\ t.completed = mem.completed /\ t.pending = mem.pending
      BY <1>1, <3>1, Lapped
    <3>2. QED
      BY <1>2, <2>1, <3>1
<1>4. Working'
  BY <1>3 DEF Working
<1>5. saved'.attempt >= saved.attempt
  BY <1>1, <1>3, RunnerAssumption DEF PhaseState, Attempts
<1>6. UNCHANGED <<ledgerVars, flushed, tested, Workspace, Outside>>
  BY DEF EndImplement
<1>7. saved'.action = "ship" => saved'.completed = Phases
  BY <1>1, <1>3 DEF IInv, Stored
<1>8. /\ saved'.completed = saved.completed /\ saved'.pending = saved.pending
      /\ saved.laps \subseteq saved'.laps /\ mem' = saved' /\ saved' \in PhaseState
      /\ pc \notin {"idle", "done"} /\ pc' \in {"loop", "write", "test", "finalize"}
      /\ pc' # "finalize"
  BY <1>1, <1>3
<1>9. QED
  BY <1>4, <1>5, <1>6, <1>7, <1>8, SaveKeeps

LEMMA EndRemediateKeeps ==
  ASSUME IInv, EndRemediate
  PROVE  IInv'
<1>1. mem = saved /\ mem \in PhaseState /\ pc = "lap" /\ Remaining # {} /\ mem.attempt < MaxAttempts
  BY DEF IInv, TypeOK, Stored, Working, EndRemediate
<1>2. NewLap("remediate", TRUE) \in Lap
  BY <1>1, NewLapType
<1>3. mem.attempt \in Nat /\ mem.attempt + 1 \in Attempts
  BY <1>1, RunnerAssumption DEF PhaseState, Attempts
<1>4. /\ mem' \in PhaseState /\ saved' = mem' /\ pc' = "loop"
      /\ mem'.laps = mem.laps \cup {NewLap("remediate", TRUE)}
      /\ mem'.attempt = mem.attempt + 1 /\ mem'.action = "remediate"
      /\ mem'.completed = mem.completed /\ mem'.pending = mem.pending
  <2>1. mem' = [mem EXCEPT !.laps = @ \cup {NewLap("remediate", TRUE)},
                           !.attempt = @ + 1, !.status = "implementing",
                           !.action = "remediate"]
        /\ saved' = mem' /\ pc' = "loop"
    BY DEF EndRemediate, Save, Go
  <2>2. QED
    <3> DEFINE l == NewLap("remediate", TRUE)
    <3>1. mem.laps \cup {l} \in SUBSET Lap /\ mem.completed \in SUBSET Phases
          /\ mem.pending \in Seq(Pending)
      BY <1>1, <1>2 DEF PhaseState
    <3> HIDE DEF l
    <3>2. mem' = [mem EXCEPT !.laps = mem.laps \cup {l}, !.attempt = mem.attempt + 1,
                             !.status = "implementing", !.action = "remediate"]
      BY <2>1 DEF l
    <3>3. mem' = [attempt |-> mem.attempt + 1, status |-> "implementing",
                  action |-> "remediate", laps |-> mem.laps \cup {l},
                  completed |-> mem.completed, pending |-> mem.pending]
      BY <1>1, <3>2 DEF PhaseState
    <3>4. mem' \in PhaseState
      BY <1>3, <3>1, <3>3 DEF PhaseState
    <3>5. /\ mem'.laps = mem.laps \cup {l} /\ mem'.attempt = mem.attempt + 1
          /\ mem'.action = "remediate"
          /\ mem'.completed = mem.completed /\ mem'.pending = mem.pending
      BY <3>3
    <3>6. QED
      BY <2>1, <3>4, <3>5 DEF l
<1>5. Working'
  BY <1>4 DEF Working
<1>6. UNCHANGED <<ledgerVars, flushed, tested, Workspace, Outside>>
  BY DEF EndRemediate
<1>7. saved'.attempt >= saved.attempt
  BY <1>1, <1>3, <1>4
<1>8. /\ saved'.completed = saved.completed /\ saved'.pending = saved.pending
      /\ saved.laps \subseteq saved'.laps /\ mem' = saved' /\ saved' \in PhaseState
      /\ pc \notin {"idle", "done"} /\ pc' \in {"loop", "write", "test", "finalize"}
      /\ pc' # "finalize" /\ saved'.action # "ship"
  BY <1>1, <1>4
<1>9. QED
  BY <1>5, <1>6, <1>7, <1>8, SaveKeeps

LEMMA BlockKeeps ==
  ASSUME IInv, Block
  PROVE  IInv'
<1>1. mem = saved /\ mem \in PhaseState /\ pc = "loop"
  BY DEF IInv, TypeOK, Stored, Block, Deciding
<1>2. /\ mem' \in PhaseState /\ saved' = mem' /\ pc' = "loop"
      /\ mem'.laps = mem.laps /\ mem'.attempt = mem.attempt /\ mem'.action = "blocked"
      /\ mem'.completed = mem.completed /\ mem'.pending = mem.pending
  <2>1. mem' = [mem EXCEPT !.status = "blocked", !.action = "blocked"]
        /\ saved' = mem' /\ pc' = "loop"
    BY DEF Block, Save, Go
  <2>2. mem' = [attempt |-> mem.attempt, status |-> "blocked", action |-> "blocked",
                laps |-> mem.laps, completed |-> mem.completed, pending |-> mem.pending]
    BY <1>1, <2>1 DEF PhaseState
  <2>3. QED
    BY <1>1, <2>1, <2>2 DEF PhaseState
<1>3. Working'
  BY <1>2 DEF Working
<1>4. UNCHANGED <<ledgerVars, flushed, tested, Workspace, Outside>>
  BY DEF Block
<1>5. saved'.attempt >= saved.attempt
  BY <1>1, <1>2, RunnerAssumption DEF PhaseState, Attempts
<1>6. /\ saved'.completed = saved.completed /\ saved'.pending = saved.pending
      /\ saved.laps \subseteq saved'.laps /\ mem' = saved' /\ saved' \in PhaseState
      /\ pc \notin {"idle", "done"} /\ pc' \in {"loop", "write", "test", "finalize"}
      /\ pc' # "finalize" /\ saved'.action # "ship"
  BY <1>1, <1>2
<1>7. QED
  BY <1>3, <1>4, <1>5, <1>6, SaveKeeps

LEMMA QuiesceKeeps ==
  ASSUME IInv, Quiesce
  PROVE  IInv'
<1>1. mem = saved /\ mem \in PhaseState /\ pc = "loop" /\ pc' = "finalize" /\ Quiet
  BY DEF IInv, TypeOK, Stored, Quiesce, Go
<1>2. /\ mem' \in PhaseState /\ saved' = mem'
      /\ mem'.laps = mem.laps /\ mem'.attempt = mem.attempt /\ mem'.status = mem.status
      /\ mem'.completed = mem.completed /\ mem'.pending = mem.pending
      /\ mem'.action = "ship" \/ mem' = mem
  <2>1. CASE mem.status = "blocked"
    BY <1>1, <2>1 DEF Quiesce
  <2>2. CASE mem.status # "blocked"
    <3>1. mem' = [mem EXCEPT !.action = "ship"] /\ saved' = mem'
      BY <2>2 DEF Quiesce, Save
    <3>2. mem' \in PhaseState
      BY <1>1, <3>1, Setting
    <3>3. QED
      BY <1>1, <3>1, <3>2 DEF PhaseState
  <2>3. QED
    BY <2>1, <2>2
<1>3. saved'.status # "blocked" => saved'.completed = Phases
  <2>1. ASSUME mem.status # "blocked" PROVE mem.completed = Phases
    <3>1. mem.completed \subseteq Phases
      BY <1>1 DEF PhaseState
    <3>2. mem.action = "ship" => mem.completed = Phases
      BY <1>1 DEF IInv, Stored
    <3>3. QED
      BY <1>1, <2>1, <3>1, <3>2 DEF Quiet, Remaining
  <2>2. QED
    BY <1>2, <2>1
<1>4. saved'.action = "ship" => saved'.completed = Phases
  <2>1. CASE mem.status = "blocked"
    BY <1>1, <2>1 DEF Quiesce, IInv, Stored
  <2>2. CASE mem.status # "blocked"
    BY <1>2, <1>3, <2>2
  <2>3. QED
    BY <2>1, <2>2
<1>5. Working'
  BY <1>1 DEF Working
<1>6. UNCHANGED <<ledgerVars, flushed, tested, Workspace, Outside>>
  BY DEF Quiesce
<1>7. saved'.attempt >= saved.attempt
  BY <1>1, <1>2, RunnerAssumption DEF PhaseState, Attempts
<1>8. /\ saved'.completed = saved.completed /\ saved'.pending = saved.pending
      /\ saved.laps \subseteq saved'.laps /\ mem' = saved' /\ saved' \in PhaseState
      /\ pc \notin {"idle", "done"} /\ pc' \in {"loop", "write", "test", "finalize"}
  BY <1>1, <1>2
<1>9. QED
  BY <1>3, <1>4, <1>5, <1>6, <1>7, <1>8, SaveKeeps
-----------------------------------------------------------------------------
(* Writing the source, testing it, and the verdict.                        *)

\* What is written next: broken only while the forced failure has not begun, and the forced
\* phase is never written correct before.
LEMMA ContentFacts ==
  ASSUME IInv, pc \in {"write", "log"}
  PROVE  /\ Current \in Phases /\ Content \in {"broken", "correct"}
         /\ mem = saved /\ mem.attempt \in Attempts
         /\ Content = "broken" => Current = Forced /\ ~Begun
         /\ Content = "correct" /\ Current = Forced => Begun
<1>1. mem = saved /\ Current \in Phases /\ mem \in PhaseState
  BY CurrentIs DEF IInv, TypeOK, Stored, Working
<1>2. mem.attempt \in Nat /\ mem.attempt >= 1 /\ mem.attempt \in Attempts
  BY <1>1, RunnerAssumption DEF PhaseState, Attempts
<1>3. \/ mem.status = "implementing" /\ ~HasLap("implement")
      \/ mem.status = "remediating" /\ HasLap("implement")
  BY DEF IInv, Working
<1>4. ASSUME Content = "broken" PROVE Current = Forced /\ ~Begun
  <2>1. mem.status = "implementing" /\ Current = Forced /\ mem.attempt = 1
    BY <1>4 DEF Content
  <2>2. ~HasLap("implement")
    BY <1>3, <2>1
  <2>3. QED
    BY <1>1, <2>1, <2>2 DEF Begun, HasLap
<1>5. ASSUME Content = "correct", Current = Forced PROVE Begun
  <2>1. mem.status # "implementing" \/ mem.attempt # 1
    BY <1>5 DEF Content
  <2>2. CASE mem.attempt # 1
    BY <1>1, <1>2, <2>2 DEF Begun
  <2>3. CASE mem.attempt = 1
    <3>1. HasLap("implement")
      BY <1>3, <2>1, <2>3
    <3>2. QED
      BY <1>1, <1>5, <2>3, <3>1 DEF Begun, HasLap
  <2>4. QED
    BY <2>2, <2>3
<1>6. Content \in {"broken", "correct"}
  BY DEF Content
<1>7. QED
  BY <1>1, <1>2, <1>4, <1>5, <1>6

LEMMA WriteSourceKeeps ==
  ASSUME IInv, WriteSource
  PROVE  IInv'
<1>1. /\ pc = "write" /\ pc' = "log" /\ source' = [source EXCEPT ![Current] = Content]
      /\ UNCHANGED <<rows, stamp, saved, mem, logged, flushed, tested, result, shipped,
                     crashes, verdicts>>
  BY DEF WriteSource, Go, ledgerVars, Outside
<1>2. /\ Current \in Phases /\ Content \in {"broken", "correct"} /\ mem = saved
      /\ Content = "broken" => Current = Forced /\ ~Begun
      /\ Content = "correct" /\ Current = Forced => Begun
  BY <1>1, ContentFacts
<1>3. source \in [Phases -> Sources] /\ source' \in [Phases -> Sources]
  BY <1>1, <1>2 DEF IInv, TypeOK, Sources
<1>4. TypeOK'
  BY <1>1, <1>3 DEF IInv, TypeOK, LedgerTypeOK
<1>5. Stored' /\ Judged' /\ Superseding' /\ Flushing'
  <2>1. Stored'
    BY <1>1, <1>2 DEF IInv, Stored
  <2>2. Judged' /\ Superseding' /\ Flushing'
    BY <1>1, JudgedStays, SupersedingStays, FlushingStays
  <2>3. QED
    BY <2>1, <2>2
<1>6. Remaining' = Remaining /\ Current' = Current /\ Content' = Content /\ Begun' = Begun
      /\ (HasLap("implement")' <=> HasLap("implement"))
  BY <1>1 DEF Remaining, Current, Content, Begun, HasLap
<1>7. Working'
  BY <1>1, <1>6 DEF IInv, Working
<1>8. Written'
  <2>1. ASSUME NEW p \in Phases, NEW a \in Attempts, <<p, a, "correct">> \in logged
        PROVE  source'[p] \in Good /\ (p = Forced => Begun)
    <3>1. source[p] \in Good /\ (p = Forced => Begun)
      BY <2>1 DEF IInv, Written
    <3>2. QED
      BY <1>1, <1>2, <1>3, <3>1 DEF Good
  <2>2. ASSUME NEW p \in Phases, NEW a \in Attempts, <<p, a, "broken">> \in logged
        PROVE  p = Forced /\ (Begun \/ source'[p] \in {"broken", "changed"})
    <3>1. p = Forced /\ (Begun \/ source[p] \in {"broken", "changed"})
      BY <2>2 DEF IInv, Written
    <3>2. QED
      BY <1>1, <1>2, <1>3, <3>1
  <2>3. source'[Current] = Content
    BY <1>1, <1>2, <1>3
  <2>4. QED
    BY <1>1, <1>6, <2>1, <2>2, <2>3 DEF Written
<1>9. QED
  BY <1>4, <1>5, <1>7, <1>8 DEF IInv

LEMMA LogWriteKeeps ==
  ASSUME IInv, LogWrite
  PROVE  IInv'
<1>1. /\ pc = "log" /\ pc' = "lap" /\ logged' = logged \cup {Key}
      /\ UNCHANGED <<rows, stamp, saved, mem, source, flushed, tested, result, shipped,
                     crashes, verdicts>>
  BY DEF LogWrite, Go, ledgerVars, Outside
<1>2. /\ Current \in Phases /\ Content \in {"broken", "correct"} /\ mem = saved
      /\ mem.attempt \in Attempts
      /\ Content = "broken" => Current = Forced /\ ~Begun
      /\ Content = "correct" /\ Current = Forced => Begun
  BY <1>1, ContentFacts
<1>3. source[Current] \in {Content, "changed"}
  BY <1>1 DEF IInv, Written
<1>4. TypeOK'
  <2>1. Key \in Phases \X Attempts \X Sources
    BY <1>2 DEF Key, Sources
  <2>2. QED
    BY <1>1, <2>1 DEF IInv, TypeOK, LedgerTypeOK
<1>5. Stored' /\ Judged' /\ Superseding' /\ Flushing'
  <2>1. Stored'
    BY <1>1, <1>2 DEF IInv, Stored
  <2>2. Judged' /\ Superseding' /\ Flushing'
    BY <1>1, JudgedStays, SupersedingStays, FlushingStays
  <2>3. QED
    BY <2>1, <2>2
<1>6. Remaining' = Remaining /\ Current' = Current /\ Content' = Content /\ Begun' = Begun
      /\ (HasLap("implement")' <=> HasLap("implement"))
  BY <1>1 DEF Remaining, Current, Content, Begun, HasLap
<1>7. Working'
  BY <1>1, <1>6 DEF IInv, Working
<1>8. Written'
  <2>1. ASSUME NEW p \in Phases, NEW a \in Attempts, <<p, a, "correct">> \in logged'
        PROVE  source[p] \in Good /\ (p = Forced => Begun)
    <3>1. CASE <<p, a, "correct">> \in logged
      BY <3>1 DEF IInv, Written
    <3>2. CASE p = Current /\ Content = "correct"
      BY <1>2, <1>3, <3>2 DEF Good
    <3>3. QED
      BY <1>1, <2>1, <3>1, <3>2 DEF Key
  <2>2. ASSUME NEW p \in Phases, NEW a \in Attempts, <<p, a, "broken">> \in logged'
        PROVE  p = Forced /\ (Begun \/ source[p] \in {"broken", "changed"})
    <3>1. CASE <<p, a, "broken">> \in logged
      BY <3>1 DEF IInv, Written
    <3>2. CASE p = Current /\ Content = "broken"
      BY <1>2, <1>3, <3>2
    <3>3. QED
      BY <1>1, <2>2, <3>1, <3>2 DEF Key
  <2>3. QED
    BY <1>1, <1>3, <1>6, <2>1, <2>2 DEF Written
<1>9. QED
  BY <1>4, <1>5, <1>7, <1>8 DEF IInv

LEMMA SkipWriteKeeps ==
  ASSUME IInv, SkipWrite
  PROVE  IInv'
<1>1. /\ pc = "write" /\ pc' = "lap" /\ Key \in logged
      /\ UNCHANGED <<rows, stamp, saved, mem, source, logged, flushed, tested, result,
                     shipped, crashes, verdicts>>
  BY DEF SkipWrite, Go, ledgerVars, Outside, Workspace
<1>2. /\ Current \in Phases /\ Content \in {"broken", "correct"} /\ mem = saved
      /\ mem.attempt \in Attempts
      /\ Content = "broken" => Current = Forced /\ ~Begun
  BY <1>1, ContentFacts
<1>3. source[Current] \in {Content, "changed"}
  <2>1. CASE Content = "correct"
    BY <1>1, <1>2, <2>1 DEF IInv, Written, Key, Good
  <2>2. CASE Content = "broken"
    BY <1>1, <1>2, <2>2 DEF IInv, Written, Key
  <2>3. QED
    BY <1>2, <2>1, <2>2
<1>4. TypeOK'
  BY <1>1 DEF IInv, TypeOK, LedgerTypeOK
<1>5. Stored' /\ Judged' /\ Superseding' /\ Flushing'
  <2>1. Stored'
    BY <1>1, <1>2 DEF IInv, Stored
  <2>2. Judged' /\ Superseding' /\ Flushing'
    BY <1>1, JudgedStays, SupersedingStays, FlushingStays
  <2>3. QED
    BY <2>1, <2>2
<1>6. Remaining' = Remaining /\ Current' = Current /\ Content' = Content /\ Begun' = Begun
      /\ (HasLap("implement")' <=> HasLap("implement"))
  BY <1>1 DEF Remaining, Current, Content, Begun, HasLap
<1>7. Working'
  BY <1>1, <1>6 DEF IInv, Working
<1>8. Written'
  BY <1>1, <1>3, <1>6 DEF IInv, Written
<1>9. QED
  BY <1>4, <1>5, <1>7, <1>8 DEF IInv

\* The tests passed or failed: only the current phase's last test changes, and no verdict is
\* about that phase yet.
LEMMA AssessKeeps ==
  ASSUME IInv, NEW passed \in BOOLEAN, Assess(passed)
  PROVE  IInv'
<1>1. mem = saved /\ mem \in PhaseState /\ pc = "test" /\ Remaining # {}
  BY DEF IInv, TypeOK, Stored, Working, Assess
<1>2. Current \in Phases /\ Current \notin saved.completed
  BY <1>1, CurrentIs DEF IInv
<1>3. /\ UNCHANGED <<rows, stamp, flushed, source, logged, result, shipped, crashes, verdicts>>
      /\ pc' = IF passed THEN "verify" ELSE "loop"
      /\ tested' = IF passed THEN [tested EXCEPT ![Current] = source[Current]] ELSE tested
      /\ passed => source[Current] \in Good
  BY DEF Assess, Go, ledgerVars, Workspace, Outside, Good
<1>4. /\ mem' \in PhaseState /\ saved' = mem'
      /\ mem.laps \subseteq mem'.laps /\ mem'.attempt = mem.attempt
      /\ mem'.action = mem.action /\ mem'.status = mem.status
      /\ mem'.completed = mem.completed /\ mem'.pending = mem.pending
  <2>1. NewLap("assess", passed) \in Lap
    BY <1>1, NewLapType
  <2>2. mem' = [mem EXCEPT !.laps = @ \cup {NewLap("assess", passed)}] /\ saved' = mem'
    BY DEF Assess, Save
  <2>3. ASSUME NEW l \in Lap, NEW t, t = [mem EXCEPT !.laps = @ \cup {l}]
        PROVE  /\ t \in PhaseState
               /\ t.laps = mem.laps \cup {l} /\ t.attempt = mem.attempt
               /\ t.status = mem.status /\ t.action = mem.action
               /\ t.completed = mem.completed /\ t.pending = mem.pending
    BY <1>1, <2>3, Lapped
  <2>4. QED
    BY <2>1, <2>2, <2>3
<1>5. /\ tested' \in [Phases -> Sources]
      /\ \A p \in Phases : p # Current => tested'[p] = tested[p]
      /\ passed => tested'[Current] = source[Current]
  BY <1>2, <1>3 DEF IInv, TypeOK
<1>6. TypeOK'
  BY <1>3, <1>4, <1>5 DEF IInv, TypeOK, LedgerTypeOK
<1>7. Stored'
  BY <1>1, <1>3, <1>4 DEF IInv, Stored
<1>8. Remaining' = Remaining /\ Current' = Current
  BY <1>4 DEF Remaining, Current
<1>9. Working'
  BY <1>1, <1>3, <1>8 DEF Working
<1>10. Written'
  <2>1. saved'.attempt >= saved.attempt
    BY <1>1, <1>4, RunnerAssumption DEF PhaseState, Attempts
  <2>2. QED
    BY <1>1, <1>3, <1>4, <2>1, WrittenStays
<1>11. Judged'
  <2>1. ASSUME NEW p \in saved.completed PROVE p \in Phases /\ tested'[p] = tested[p]
    BY <1>1, <1>2, <1>5 DEF PhaseState
  <2>2. saved'.completed = saved.completed /\ saved'.pending = saved.pending
    BY <1>1, <1>4
  <2>3. \A k \in 1 .. Len(saved'.pending) :
          /\ saved'.pending[k].phase \in saved'.completed
          /\ saved'.pending[k].digest = tested'[saved'.pending[k].phase]
    BY <2>1, <2>2 DEF IInv, Judged
  <2>4. \A p \in saved'.completed :
          tested'[p] \in Good /\ \E k \in 1 .. Len(saved'.pending) : saved'.pending[k].phase = p
    BY <2>1, <2>2 DEF IInv, Judged
  <2>5. \A i \in 1 .. Len(rows), p \in Phases :
          rows[i].claim = PhaseClaim(p) =>
            p \in saved'.completed /\ rows[i].verdict = "VERIFIED" /\ rows[i].digest = tested'[p]
    BY <2>1, <2>2 DEF IInv, Judged
  <2>6. pc' = "verify" => source[Current] \in Good /\ tested'[Current] = source[Current]
    BY <1>3, <1>5
  <2>7. QED
    BY <1>3, <1>8, <2>3, <2>4, <2>5, <2>6 DEF Judged
<1>12. Superseding' /\ Flushing'
  BY <1>1, <1>3, <1>4, SupersedingStays, FlushingStays
<1>13. QED
  BY <1>6, <1>7, <1>9, <1>10, <1>11, <1>12 DEF IInv

\* _verify_phase_claims(): the phase is completed together with its verdict.
LEMMA VerifyKeeps ==
  ASSUME IInv, Verify
  PROVE  IInv'
<1>1. mem = saved /\ mem \in PhaseState /\ pc = "verify" /\ Remaining # {}
  BY DEF IInv, TypeOK, Stored, Working, Verify
<1>2. /\ Current \in Phases /\ Current \notin saved.completed
      /\ source[Current] \in Good /\ tested[Current] = source[Current]
  BY <1>1, CurrentIs DEF IInv, Judged
<1> DEFINE d == [phase |-> Current, digest |-> Digest(source[Current])]
<1>3. d \in Pending /\ d.phase = Current /\ d.digest = tested[Current]
  BY <1>2 DEF Pending, Digest, Sources, Good
<1>4. /\ UNCHANGED <<rows, stamp, flushed, tested, source, logged, result, shipped,
                     crashes, verdicts>>
      /\ pc' = "loop" /\ saved' = mem'
      /\ mem' = [mem EXCEPT !.pending = Append(@, d), !.status = "passed",
                            !.action = "advance", !.completed = @ \cup {Current}]
  BY DEF Verify, Save, Go, ledgerVars, Workspace, Outside
<1> HIDE DEF d
<1>5. /\ mem' \in PhaseState /\ mem'.laps = mem.laps /\ mem'.attempt = mem.attempt
      /\ mem'.action = "advance"
      /\ mem'.completed = mem.completed \cup {Current}
      /\ mem'.pending = Append(mem.pending, d)
  <2> DEFINE done == mem.completed \cup {Current}
             waiting == Append(mem.pending, d)
  <2>1. done \in SUBSET Phases /\ waiting \in Seq(Pending) /\ mem.laps \in SUBSET Lap
        /\ mem.attempt \in Attempts
    BY <1>1, <1>2, <1>3 DEF PhaseState
  <2>2. mem' = [mem EXCEPT !.pending = waiting, !.status = "passed",
                           !.action = "advance", !.completed = done]
    BY <1>4
  <2> HIDE DEF done, waiting
  <2>3. mem' = [attempt |-> mem.attempt, status |-> "passed", action |-> "advance",
                laps |-> mem.laps, completed |-> done, pending |-> waiting]
    BY <1>1, <2>2 DEF PhaseState
  <2>4. mem' \in PhaseState
    BY <2>1, <2>3 DEF PhaseState
  <2>5. /\ mem'.laps = mem.laps /\ mem'.attempt = mem.attempt
        /\ mem'.action = "advance" /\ mem'.completed = done /\ mem'.pending = waiting
    BY <2>3
  <2>6. QED
    BY <2>4, <2>5 DEF done, waiting
<1> DEFINE n == Len(mem.pending)
<1>6. /\ n \in Nat /\ Len(mem'.pending) = n + 1 /\ mem'.pending[n + 1] = d
      /\ \A k \in 1 .. n : mem'.pending[k] = mem.pending[k]
  <2>1. mem.pending \in Seq(Pending)
    BY <1>1 DEF PhaseState
  <2>2. QED
    BY <1>3, <1>5, <2>1
<1> HIDE DEF n
<1>7. TypeOK'
  <2>1. flushed \in 0 .. n
    BY DEF IInv, TypeOK, n
  <2>2. flushed' \in 0 .. Len(mem'.pending)
    BY <1>4, <1>6, <2>1
  <2>3. QED
    BY <1>4, <1>5, <2>2 DEF IInv, TypeOK, LedgerTypeOK
<1>8. Stored' /\ Working'
  BY <1>1, <1>4, <1>5 DEF IInv, Stored, Working
<1>9. Written'
  <2>1. saved'.attempt >= saved.attempt
    BY <1>1, <1>4, <1>5, RunnerAssumption DEF PhaseState, Attempts
  <2>2. QED
    BY <1>1, <1>4, <1>5, <2>1, WrittenStays
<1>10. Judged'
  <2>1. ASSUME NEW k \in 1 .. Len(saved'.pending)
        PROVE  /\ saved'.pending[k].phase \in saved'.completed
               /\ saved'.pending[k].digest = tested[saved'.pending[k].phase]
    <3>1. CASE k \in 1 .. n
      <4>1. /\ saved.pending[k].phase \in saved.completed
            /\ saved.pending[k].digest = tested[saved.pending[k].phase]
        BY <1>1, <3>1 DEF IInv, Judged, n
      <4>2. QED
        BY <1>1, <1>4, <1>5, <1>6, <3>1, <4>1
    <3>2. CASE k = n + 1
      BY <1>3, <1>4, <1>5, <1>6, <3>2
    <3>3. QED
      BY <1>4, <1>6, <2>1, <3>1, <3>2
  <2>2. ASSUME NEW p \in saved'.completed
        PROVE  tested[p] \in Good /\ \E k \in 1 .. Len(saved'.pending) : saved'.pending[k].phase = p
    <3>1. CASE p \in saved.completed
      <4>1. tested[p] \in Good
        BY <3>1 DEF IInv, Judged
      <4>2. PICK k \in 1 .. n : mem.pending[k].phase = p
        BY <1>1, <3>1 DEF IInv, Judged, n
      <4>3. k \in 1 .. Len(saved'.pending) /\ saved'.pending[k].phase = p
        BY <1>4, <1>6, <4>2
      <4>4. QED
        BY <4>1, <4>3
    <3>2. CASE p = Current
      <4>1. n + 1 \in 1 .. Len(saved'.pending) /\ saved'.pending[n + 1].phase = p
        BY <1>3, <1>4, <1>6, <3>2
      <4>2. QED
        BY <1>2, <3>2, <4>1
    <3>3. QED
      BY <1>1, <1>4, <1>5, <2>2, <3>1, <3>2
  <2>3. \A i \in 1 .. Len(rows), p \in Phases :
          rows[i].claim = PhaseClaim(p) =>
            p \in saved'.completed /\ rows[i].verdict = "VERIFIED" /\ rows[i].digest = tested[p]
    BY <1>1, <1>4, <1>5 DEF IInv, Judged
  <2>4. QED
    BY <1>4, <2>1, <2>2, <2>3 DEF Judged
<1>11. Superseding'
  BY <1>4, SupersedingStays
<1>12. Flushing'
  <2>1. result = "none"
    BY <1>1 DEF IInv, Stored
  <2>2. QED
    BY <1>4, <2>1 DEF Flushing
<1>13. QED
  BY <1>7, <1>8, <1>9, <1>10, <1>11, <1>12 DEF IInv

\* Nobody edits the workspace inside a lap.
LEMMA EditKeeps ==
  ASSUME IInv, NEW q \in Phases, Edit(q)
  PROVE  IInv'
<1>1. /\ pc \in {"idle", "done"} /\ source' = [source EXCEPT ![q] = "changed"]
      /\ UNCHANGED <<rows, stamp, saved, mem, pc, logged, flushed, tested, result, shipped,
                     crashes, verdicts>>
  BY DEF Edit, Between, ledgerVars, Outside
<1>2. /\ source' \in [Phases -> Sources]
      /\ \A p \in Phases : source'[p] = IF p = q THEN "changed" ELSE source[p]
  BY <1>1 DEF IInv, TypeOK, Sources
<1>3. TypeOK'
  BY <1>1, <1>2 DEF IInv, TypeOK, LedgerTypeOK
<1>4. Stored'
  BY <1>1 DEF IInv, Stored
<1>5. Working'
  BY <1>1 DEF Working
<1>6. Begun' = Begun
  BY <1>1 DEF Begun
<1>7. Written'
  BY <1>1, <1>2, <1>6 DEF IInv, Written, Good
<1>8. Judged' /\ Superseding' /\ Flushing'
  BY <1>1, JudgedStays, SupersedingStays, FlushingStays
<1>9. QED
  BY <1>3, <1>4, <1>5, <1>7, <1>8 DEF IInv

\* A crash: what is saved is what is left.
LEMMA CrashKeeps ==
  ASSUME IInv, Crash
  PROVE  IInv'
<1>1. /\ pc \notin {"idle", "done"} /\ pc' = "idle" /\ mem' = Fresh /\ flushed' = 0
      /\ crashes < MaxCrashes /\ crashes' = crashes + 1
      /\ UNCHANGED <<rows, stamp, saved, tested, source, logged, result, shipped, verdicts>>
  BY DEF Crash, Go, ledgerVars, Workspace
<1>2. Fresh \in PhaseState /\ 0 \in 0 .. Len(Fresh.pending)
  BY RunnerAssumption DEF Fresh, PhaseState, Attempts
<1>3. TypeOK'
  BY <1>1, <1>2, RunnerAssumption DEF IInv, TypeOK, LedgerTypeOK
<1>4. Stored' /\ Working'
  BY <1>1 DEF IInv, Stored, Working
<1>5. Written'
  <2>1. saved \in PhaseState /\ saved.attempt >= saved.attempt
    BY RunnerAssumption DEF IInv, TypeOK, PhaseState, Attempts
  <2>2. QED
    BY <1>1, <2>1, WrittenStays
<1>6. Judged' /\ Superseding' /\ Flushing'
  BY <1>1, JudgedStays, SupersedingStays, FlushingStays
<1>7. QED
  BY <1>3, <1>4, <1>5, <1>6 DEF IInv
-----------------------------------------------------------------------------
(* The ledger's steps.                                                     *)

\* A new row keeps what is known of the old ones.
LEMMA RecordKeeps ==
  ASSUME IInv, NEW claim \in Claims, NEW verdict \in {"VERIFIED", "REFUTED", "DEFERRED"},
         NEW digest \in Sources \cup {NoDigest}, Record(claim, verdict, digest),
         \A p \in Phases : claim = PhaseClaim(p) =>
           p \in saved.completed /\ verdict = "VERIFIED" /\ digest = tested[p],
         UNCHANGED <<saved, tested>>, pc' # "verify"
  PROVE  /\ LedgerTypeOK' /\ Superseding' /\ Judged'
         /\ stamp' = stamp /\ Len(rows) \in Nat /\ stamp \in 0 .. Len(rows)
         /\ Len(rows') = Len(rows) + 1 /\ rows'[Len(rows) + 1].claim = claim
         /\ \A i \in 1 .. Len(rows) : rows'[i] = rows[i]
         /\ \A c : RowsOf(c) # {} => RowsOf(c)' # {}
<1>1. TypeOK /\ Superseding /\ rows' = Append(rows, Entry(claim, verdict, digest)) /\ stamp' = stamp
  BY DEF IInv, Record
<1>2. /\ rows' \in Seq(Row) /\ Len(rows') = Len(rows) + 1
      /\ \A i \in 1 .. Len(rows) : rows'[i] = rows[i]
      /\ rows'[Len(rows) + 1].claim = claim
      /\ rows'[Len(rows) + 1].verdict = verdict
      /\ rows'[Len(rows) + 1].digest = digest
      /\ Superseding'
  BY <1>1, Appended
<1>3. Len(rows) \in Nat /\ stamp \in 0 .. Len(rows)
  BY <1>1 DEF TypeOK, LedgerTypeOK
<1>4. LedgerTypeOK'
  BY <1>1, <1>2, <1>3 DEF LedgerTypeOK
<1>5. Judged'
  <2>1. ASSUME NEW i \in 1 .. Len(rows'), NEW p \in Phases, rows'[i].claim = PhaseClaim(p)
        PROVE  p \in saved.completed /\ rows'[i].verdict = "VERIFIED" /\ rows'[i].digest = tested[p]
    <3>1. CASE i \in 1 .. Len(rows)
      BY <1>2, <2>1, <3>1 DEF IInv, Judged
    <3>2. CASE i = Len(rows) + 1
      BY <1>2, <2>1, <3>2
    <3>3. QED
      BY <1>2, <1>3, <3>1, <3>2
  <2>2. QED
    BY <2>1 DEF IInv, Judged
<1>6. ASSUME NEW c, RowsOf(c) # {} PROVE RowsOf(c)' # {}
  <2>1. PICK i \in 1 .. Len(rows) : rows[i].claim = c
    BY <1>6 DEF RowsOf
  <2>2. i \in 1 .. Len(rows') /\ rows'[i].claim = c
    BY <1>2, <1>3, <2>1
  <2>3. QED
    BY <2>2 DEF RowsOf
<1>7. QED
  BY <1>1, <1>2, <1>3, <1>4, <1>5, <1>6

LEMMA ClaimsDiffer ==
  /\ Meta \in Claims /\ Deferred \in Claims /\ \A p \in Phases : PhaseClaim(p) \in Claims
  /\ \A p \in Phases : PhaseClaim(p) # Meta /\ PhaseClaim(p) # Deferred
  /\ \A p, q \in Phases : PhaseClaim(p) = PhaseClaim(q) => p = q
  BY DEF Meta, Deferred, PhaseClaim, Claims

\* seed_deferred() adds at most one row, of no phase.
LEMMA SeedKeeps ==
  ASSUME IInv, SeedDeferred, UNCHANGED <<saved, tested>>, pc' # "verify"
  PROVE  /\ LedgerTypeOK' /\ Superseding' /\ Judged'
         /\ \A c : RowsOf(c) # {} => RowsOf(c)' # {}
<1>1. CASE RowsOf(Deferred) = {}
  <2>1. Record(Deferred, "DEFERRED", NoDigest)
    BY <1>1 DEF SeedDeferred, Record
  <2>2. QED
    BY <2>1, ClaimsDiffer, RecordKeeps
<1>2. CASE RowsOf(Deferred) # {}
  <2>1. UNCHANGED <<rows, stamp>>
    BY <1>2 DEF SeedDeferred
  <2>2. LedgerTypeOK' /\ Superseding' /\ Judged'
    BY <2>1, SupersedingStays, JudgedStays DEF IInv, TypeOK, LedgerTypeOK
  <2>3. QED
    BY <2>1, <2>2 DEF RowsOf
<1>3. QED
  BY <1>1, <1>2

LEMMA LoadKeeps ==
  ASSUME IInv, Load
  PROVE  IInv'
<1>1. /\ pc = "idle" /\ pc' = "loop" /\ mem' = saved /\ result = "none" /\ flushed = 0
      /\ saved \in PhaseState /\ SeedDeferred
      /\ UNCHANGED <<saved, flushed, tested, source, logged, result, shipped, crashes, verdicts>>
  BY DEF Load, Go, Workspace, Outside, IInv, TypeOK, Stored
<1>2. LedgerTypeOK' /\ Superseding' /\ Judged'
  BY <1>1, SeedKeeps
<1>3. TypeOK'
  <2>1. Len(saved.pending) \in Nat
    BY <1>1 DEF PhaseState
  <2>2. flushed' \in 0 .. Len(mem'.pending)
    BY <1>1, <2>1
  <2>3. QED
    BY <1>1, <1>2, <2>2 DEF IInv, TypeOK
<1>4. Stored' /\ Working' /\ Flushing'
  BY <1>1 DEF IInv, Stored, Working, Flushing
<1>5. Written'
  <2>1. saved.attempt >= saved.attempt
    BY <1>1, RunnerAssumption DEF PhaseState, Attempts
  <2>2. QED
    BY <1>1, <2>1, WrittenStays
<1>6. QED
  BY <1>2, <1>3, <1>4, <1>5 DEF IInv

LEMMA FinalizeKeeps ==
  ASSUME IInv, Finalize
  PROVE  IInv'
<1>1. /\ pc = "finalize" /\ pc' = "flush" /\ mem = saved /\ saved \in PhaseState
      /\ result = "none" /\ Len(saved.pending) \in Nat
      /\ UNCHANGED <<rows, saved, mem, tested, source, logged, result, shipped, crashes, verdicts>>
      /\ \/ flushed' = Len(saved.pending) /\ stamp' = stamp
              /\ (saved.status = "blocked" \/ saved.pending = <<>>)
         \/ flushed' = 0 /\ stamp' = Len(rows)
  BY DEF Finalize, FinalizeBuild, Go, ledgerVars, Workspace, Outside, IInv, TypeOK, Stored,
         PhaseState
<1>2. LedgerTypeOK' /\ TypeOK'
  <2>1. Len(rows) \in Nat
    BY DEF IInv, TypeOK, LedgerTypeOK
  <2>2. QED
    BY <1>1, <2>1 DEF IInv, TypeOK, LedgerTypeOK
<1>3. Stored' /\ Working'
  BY <1>1 DEF IInv, Stored, Working
<1>4. Flushing'
  <2>1. saved.status # "blocked" => flushed' = 0
    <3>1. saved.pending = <<>> => Len(saved.pending) = 0
      OBVIOUS
    <3>2. QED
      BY <1>1, <3>1
  <2>2. QED
    BY <1>1, <2>1 DEF Flushing
<1>5. Written'
  <2>1. saved.attempt >= saved.attempt
    BY <1>1, RunnerAssumption DEF PhaseState, Attempts
  <2>2. QED
    BY <1>1, <2>1, WrittenStays
<1>6. Judged' /\ Superseding'
  BY <1>1, JudgedStays, SupersedingStays
<1>7. QED
  BY <1>2, <1>3, <1>4, <1>5, <1>6 DEF IInv

LEMMA FlushKeeps ==
  ASSUME IInv, Flush
  PROVE  IInv'
<1> DEFINE n == flushed + 1
           p == saved.pending[n].phase
           g == saved.pending[n].digest
<1>1. /\ pc = "flush" /\ mem = saved /\ saved \in PhaseState /\ result = "none"
      /\ flushed \in 0 .. Len(saved.pending) /\ flushed < Len(saved.pending)
      /\ saved.pending \in Seq(Pending)
  BY DEF Flush, IInv, TypeOK, Stored, PhaseState
<1>2. /\ Record(PhaseClaim(p), "VERIFIED", g) /\ flushed' = n
      /\ UNCHANGED <<saved, mem, pc, tested, source, logged, result, shipped, crashes, verdicts>>
  BY <1>1 DEF Flush, Workspace, Outside
<1>3. n \in 1 .. Len(saved.pending) /\ flushed \in Nat /\ Len(saved.pending) \in Nat
  BY <1>1
<1>4. saved.pending[n] \in Pending
  BY <1>1, <1>3
<1>5. p \in Phases /\ g \in Sources \cup {NoDigest} /\ p \in saved.completed /\ g = tested[p]
  BY <1>3, <1>4 DEF Pending, IInv, Judged
<1> HIDE DEF n, p, g
<1>6. /\ LedgerTypeOK' /\ Superseding' /\ Judged'
      /\ stamp' = stamp /\ Len(rows) \in Nat /\ stamp \in 0 .. Len(rows)
      /\ Len(rows') = Len(rows) + 1 /\ rows'[Len(rows) + 1].claim = PhaseClaim(p)
      /\ \A i \in 1 .. Len(rows) : rows'[i] = rows[i]
  <2>1. PhaseClaim(p) \in Claims /\ pc' # "verify"
    BY <1>1, <1>2, <1>5, ClaimsDiffer
  <2>2. \A q \in Phases : PhaseClaim(p) = PhaseClaim(q) =>
          q \in saved.completed /\ "VERIFIED" = "VERIFIED" /\ g = tested[q]
    BY <1>5, ClaimsDiffer
  <2>3. QED
    BY <1>2, <1>5, <2>1, <2>2, RecordKeeps
<1>7. TypeOK'
  BY <1>1, <1>2, <1>3, <1>6 DEF IInv, TypeOK
<1>8. Stored' /\ Working'
  BY <1>1, <1>2 DEF IInv, Stored, Working
<1>9. Written'
  <2>1. saved.attempt >= saved.attempt
    BY <1>1, RunnerAssumption DEF PhaseState, Attempts
  <2>2. QED
    BY <1>1, <1>2, <2>1, WrittenStays
<1>10. Flushing'
  <2>1. ASSUME saved.status # "blocked", NEW k \in 1 .. n
        PROVE  \E i \in 1 .. Len(rows') :
                 i > stamp /\ rows'[i].claim = PhaseClaim(saved.pending[k].phase)
    <3>1. CASE k \in 1 .. flushed
      <4>1. PICK i \in 1 .. Len(rows) :
              i > stamp /\ rows[i].claim = PhaseClaim(saved.pending[k].phase)
        BY <1>1, <2>1, <3>1 DEF IInv, Flushing
      <4>2. i \in 1 .. Len(rows') /\ rows'[i] = rows[i]
        BY <1>6, <4>1
      <4>3. QED
        BY <4>1, <4>2
    <3>2. CASE k = n
      <4>1. Len(rows) + 1 \in 1 .. Len(rows') /\ Len(rows) + 1 > stamp
        BY <1>6
      <4>2. QED
        BY <1>6, <3>2, <4>1 DEF p
    <3>3. QED
      BY <1>3, <2>1, <3>1, <3>2 DEF n
  <2>2. QED
    BY <1>1, <1>2, <1>6, <2>1 DEF Flushing
<1>11. QED
  BY <1>6, <1>7, <1>8, <1>9, <1>10 DEF IInv

\* When the step returns complete, every phase has a verdict younger than the build.
LEMMA ReturnFacts ==
  ASSUME IInv, Return, result' = "complete"
  PROVE  /\ saved.completed = Phases
         /\ \A p \in Phases : \E i \in 1 .. Len(rows) : i > stamp /\ rows[i].claim = PhaseClaim(p)
<1>1. /\ pc = "flush" /\ mem = saved /\ flushed = Len(saved.pending)
      /\ saved.status # "blocked"
  BY DEF IInv, Stored, Return
<1>2. saved.completed = Phases
  BY <1>1 DEF IInv, Stored
<1>3. ASSUME NEW p \in Phases
      PROVE  \E i \in 1 .. Len(rows) : i > stamp /\ rows[i].claim = PhaseClaim(p)
  <2>1. PICK k \in 1 .. Len(saved.pending) : saved.pending[k].phase = p
    BY <1>2 DEF IInv, Judged
  <2>2. QED
    BY <1>1, <2>1 DEF IInv, Flushing
<1>4. QED
  BY <1>2, <1>3

LEMMA ReturnKeeps ==
  ASSUME IInv, Return
  PROVE  IInv'
<1>1. /\ pc = "flush" /\ pc' = "done" /\ mem = saved /\ saved \in PhaseState /\ flushed' = 0
      /\ result' \in {"blocked", "complete"}
      /\ UNCHANGED <<rows, stamp, saved, tested, source, logged, shipped, crashes, verdicts>>
      /\ mem' = mem \/ mem' = [mem EXCEPT !.pending = <<>>]
  BY DEF Return, Go, ledgerVars, Workspace, IInv, TypeOK, Stored
<1>2. mem' \in PhaseState
  <2>1. <<>> \in Seq(Pending)
    OBVIOUS
  <2>2. [mem EXCEPT !.pending = <<>>] \in PhaseState
    BY <1>1, <2>1, Setting
  <2>3. QED
    BY <1>1, <2>2
<1>3. TypeOK'
  <2>1. Len(mem'.pending) \in Nat
    BY <1>2 DEF PhaseState
  <2>2. flushed' \in 0 .. Len(mem'.pending)
    BY <1>1, <2>1
  <2>3. QED
    BY <1>1, <1>2, <2>2 DEF IInv, TypeOK, LedgerTypeOK
<1>4. Stored' /\ Working'
  BY <1>1 DEF IInv, Stored, Working
<1>5. Written'
  <2>1. saved.attempt >= saved.attempt
    BY <1>1, RunnerAssumption DEF PhaseState, Attempts
  <2>2. QED
    BY <1>1, <2>1, WrittenStays
<1>6. Judged' /\ Superseding'
  BY <1>1, JudgedStays, SupersedingStays
<1>7. Flushing'
  <2>1. ASSUME result' = "complete"
        PROVE  saved.completed = Phases /\ \A p \in Phases : RowsOf(PhaseClaim(p)) # {}
    BY <2>1, ReturnFacts DEF RowsOf
  <2>2. \A c : RowsOf(c)' = RowsOf(c)
    BY <1>1 DEF RowsOf
  <2>3. QED
    BY <1>1, <2>1, <2>2 DEF Flushing
<1>8. QED
  BY <1>3, <1>4, <1>5, <1>6, <1>7 DEF IInv

\* A step outside the runner: memory, saved state and workspace stay.
LEMMA OutsideKeeps ==
  ASSUME IInv, pc \in {"idle", "done"},
         LedgerTypeOK', Superseding', Judged', \A c : RowsOf(c) # {} => RowsOf(c)' # {},
         shipped' \in BOOLEAN, verdicts' \in 0 .. MaxVerdicts,
         UNCHANGED <<saved, mem, pc, source, logged, flushed, tested, result, crashes>>
  PROVE  IInv'
<1>1. TypeOK'
  BY DEF IInv, TypeOK
<1>2. Stored' /\ Working'
  BY DEF IInv, Stored, Working
<1>3. Begun' = Begun
  BY DEF Begun
<1>4. Written'
  BY <1>3 DEF IInv, Written
<1>5. Flushing'
  BY DEF IInv, Flushing
<1>6. QED
  BY <1>1, <1>2, <1>4, <1>5 DEF IInv

LEMMA ShipKeeps ==
  ASSUME IInv, Ship
  PROVE  IInv'
<1>1. /\ pc = "done" /\ SeedDeferred /\ shipped' = TRUE
      /\ UNCHANGED <<saved, mem, pc, flushed, tested, source, logged, result, crashes, verdicts>>
  BY DEF Ship, Workspace, IInv, Stored
<1>2. LedgerTypeOK' /\ Superseding' /\ Judged' /\ \A c : RowsOf(c) # {} => RowsOf(c)' # {}
  BY <1>1, SeedKeeps
<1>3. verdicts' \in 0 .. MaxVerdicts /\ shipped' \in BOOLEAN
  BY <1>1 DEF IInv, TypeOK
<1>4. QED
  BY <1>1, <1>2, <1>3, OutsideKeeps

LEMMA MetaKeeps ==
  ASSUME IInv, MetaFinalize \/ \E verdict \in {"VERIFIED", "REFUTED"} : MetaRecord(verdict)
  PROVE  IInv'
<1>1. CASE MetaFinalize
  <2>1. /\ pc \in {"idle", "done"} /\ stamp' = Len(rows) /\ rows' = rows
        /\ UNCHANGED <<saved, mem, pc, source, logged, flushed, tested, result, shipped,
                       crashes, verdicts>>
    BY <1>1 DEF MetaFinalize, Between, FinalizeBuild, runVars
  <2>2. Len(rows) \in Nat
    BY DEF IInv, TypeOK, LedgerTypeOK
  <2>3. LedgerTypeOK'
    BY <2>1, <2>2 DEF IInv, TypeOK, LedgerTypeOK
  <2>4. Superseding' /\ Judged'
    BY <2>1, SupersedingStays, JudgedStays
  <2>5. \A c : RowsOf(c) # {} => RowsOf(c)' # {}
    BY <2>1 DEF RowsOf
  <2>6. shipped' \in BOOLEAN /\ verdicts' \in 0 .. MaxVerdicts
    BY <2>1 DEF IInv, TypeOK
  <2>7. QED
    BY <2>1, <2>3, <2>4, <2>5, <2>6, OutsideKeeps
<1>2. ASSUME NEW verdict \in {"VERIFIED", "REFUTED"}, MetaRecord(verdict) PROVE IInv'
  <2>1. /\ pc \in {"idle", "done"} /\ Record(Meta, verdict, NoDigest)
        /\ verdicts < MaxVerdicts /\ verdicts' = verdicts + 1
        /\ UNCHANGED <<saved, mem, pc, source, logged, flushed, tested, result, shipped, crashes>>
    BY <1>2 DEF MetaRecord, Between, Workspace
  <2>2. LedgerTypeOK' /\ Superseding' /\ Judged' /\ \A c : RowsOf(c) # {} => RowsOf(c)' # {}
    <3>1. Meta \in Claims /\ \A p \in Phases : PhaseClaim(p) # Meta
      BY ClaimsDiffer
    <3>2. verdict \in {"VERIFIED", "REFUTED", "DEFERRED"} /\ pc' # "verify"
      BY <2>1
    <3>3. QED
      BY <2>1, <3>1, <3>2, RecordKeeps
  <2>3. shipped' \in BOOLEAN /\ verdicts' \in 0 .. MaxVerdicts
    BY <2>1, RunnerAssumption DEF IInv, TypeOK
  <2>4. QED
    BY <2>1, <2>2, <2>3, OutsideKeeps
<1>3. QED
  BY <1>1, <1>2

LEMMA StutterKeeps == ASSUME IInv, UNCHANGED vars PROVE IInv'
<1>1. UNCHANGED <<rows, stamp, saved, source, logged, result, shipped, pc, mem, flushed,
                  tested, crashes, verdicts>>
  BY DEF vars, ledgerVars, runVars
<1>2. TypeOK' /\ Stored'
  BY <1>1 DEF IInv, TypeOK, LedgerTypeOK, Stored
<1>3. Remaining' = Remaining /\ Current' = Current /\ Content' = Content /\ Begun' = Begun
      /\ (HasLap("implement")' <=> HasLap("implement")) /\ \A c : RowsOf(c)' = RowsOf(c)
  BY <1>1 DEF Remaining, Current, Content, Begun, HasLap, RowsOf
<1>4. Working' /\ Written'
  BY <1>1, <1>3 DEF IInv, Working, Written
<1>5. Judged' /\ Superseding' /\ Flushing'
  BY <1>1, <1>3 DEF IInv, Judged, Superseding, Flushing
<1>6. QED
  BY <1>2, <1>4, <1>5 DEF IInv

LEMMA Starts == Init => IInv
<1> SUFFICES ASSUME Init PROVE IInv
  OBVIOUS
<1>1. /\ rows = <<>> /\ stamp = 0 /\ saved = Fresh /\ mem = Fresh /\ logged = {}
      /\ source = [p \in Phases |-> "absent"] /\ tested = source
      /\ result = "none" /\ shipped = FALSE /\ pc = "idle" /\ flushed = 0
      /\ crashes = 0 /\ verdicts = 0
  BY DEF Init, LedgerInit
<1>2. /\ Fresh \in PhaseState /\ Fresh.pending = <<>> /\ Fresh.completed = {}
      /\ Fresh.action = "none" /\ Len(Fresh.pending) = 0
  BY RunnerAssumption DEF Fresh, PhaseState, Attempts
<1>3. LedgerTypeOK /\ Len(rows) = 0
  BY <1>1 DEF LedgerTypeOK
<1>4. TypeOK
  <2>1. source \in [Phases -> Sources] /\ tested \in [Phases -> Sources]
    BY <1>1 DEF Sources
  <2>2. flushed \in 0 .. Len(mem.pending) /\ logged \subseteq Phases \X Attempts \X Sources
    BY <1>1, <1>2
  <2>3. crashes \in 0 .. MaxCrashes /\ verdicts \in 0 .. MaxVerdicts
    BY <1>1, RunnerAssumption
  <2>4. QED
    BY <1>1, <1>2, <1>3, <2>1, <2>2, <2>3 DEF TypeOK
<1>5. Stored /\ Working /\ Written
  BY <1>1, <1>2 DEF Stored, Working, Written
<1>6. Judged /\ Superseding /\ Flushing
  BY <1>1, <1>2, <1>3 DEF Judged, Superseding, Flushing
<1>7. QED
  BY <1>4, <1>5, <1>6 DEF IInv

LEMMA StepKeeps == IInv /\ [Next]_vars => IInv'
<1> SUFFICES ASSUME IInv, [Next]_vars PROVE IInv'
  OBVIOUS
<1>1. CASE Load
  BY <1>1, LoadKeeps
<1>2. CASE StartImplement \/ StartAssess \/ StartRemediate
  BY <1>2, StartsKeep
<1>3. CASE WriteSource
  BY <1>3, WriteSourceKeeps
<1>4. CASE LogWrite
  BY <1>4, LogWriteKeeps
<1>5. CASE SkipWrite
  BY <1>5, SkipWriteKeeps
<1>6. CASE EndImplement
  BY <1>6, EndImplementKeeps
<1>7. CASE EndRemediate
  BY <1>7, EndRemediateKeeps
<1>8. ASSUME NEW passed \in BOOLEAN, Assess(passed) PROVE IInv'
  BY <1>8, AssessKeeps
<1>9. CASE Verify
  BY <1>9, VerifyKeeps
<1>10. CASE Block
  BY <1>10, BlockKeeps
<1>11. CASE Quiesce
  BY <1>11, QuiesceKeeps
<1>12. CASE Finalize
  BY <1>12, FinalizeKeeps
<1>13. CASE Flush
  BY <1>13, FlushKeeps
<1>14. CASE Return
  BY <1>14, ReturnKeeps
<1>15. CASE Ship
  BY <1>15, ShipKeeps
<1>16. CASE Crash
  BY <1>16, CrashKeeps
<1>17. CASE MetaFinalize \/ \E verdict \in {"VERIFIED", "REFUTED"} : MetaRecord(verdict)
  BY <1>17, MetaKeeps
<1>18. ASSUME NEW p \in Phases, Edit(p) PROVE IInv'
  BY <1>18, EditKeeps
<1>19. CASE UNCHANGED vars
  BY <1>19, StutterKeeps
<1>20. QED
  BY <1>1, <1>2, <1>3, <1>4, <1>5, <1>6, <1>7, <1>8, <1>9, <1>10, <1>11, <1>12, <1>13,
     <1>14, <1>15, <1>16, <1>17, <1>18, <1>19 DEF Next, Runner

LEMMA ClearInvariant == Spec => []IInv
  BY Starts, StepKeeps, PTL DEF Spec

\* No build goes past its attempt limit, and every variable keeps its type.
THEOREM RunnerTypes == Spec => []TypeOK
<1>1. IInv => TypeOK
  BY DEF IInv
<1>2. QED
  BY <1>1, ClearInvariant, PTL

\* A write that is skipped left its content on disk: a key in the log is of a content that
\* only the content which follows it may replace (Workspace.write_file, Written).
THEOREM SourcesLeft == Spec => []LapsLeaveTheirSource
<1>1. IInv => LapsLeaveTheirSource
  BY DEF IInv, Written, LapsLeaveTheirSource
<1>2. QED
  BY <1>1, ClearInvariant, PTL
-----------------------------------------------------------------------------
(* What completes and what ships.                                          *)

\* Only a return of the step gives a result, and only the ship step ships.
LEMMA WhoMoves ==
  ASSUME IInv, [Next]_vars
  PROVE  /\ result' # result => Return
         /\ shipped' # shipped => Ship
<1>1. CASE Load \/ StartImplement \/ StartAssess \/ StartRemediate
  BY <1>1 DEF Load, StartImplement, StartAssess, StartRemediate, Start, Outside
<1>2. CASE WriteSource \/ LogWrite \/ SkipWrite \/ EndImplement \/ EndRemediate
  BY <1>2 DEF WriteSource, LogWrite, SkipWrite, EndImplement, EndRemediate, Outside
<1>3. CASE (\E passed \in BOOLEAN : Assess(passed)) \/ Verify \/ Block \/ Quiesce
  BY <1>3 DEF Assess, Verify, Block, Quiesce, Outside
<1>4. CASE Finalize \/ Flush
  BY <1>4 DEF Finalize, Flush, Outside
<1>5. CASE Return
  BY <1>5 DEF Return
<1>6. CASE Ship \/ Crash
  BY <1>6 DEF Ship, Crash
<1>7. CASE MetaFinalize \/ \E verdict \in {"VERIFIED", "REFUTED"} : MetaRecord(verdict)
  BY <1>7 DEF MetaFinalize, MetaRecord, runVars
<1>8. CASE \E p \in Phases : Edit(p)
  BY <1>8 DEF Edit, Outside
<1>9. CASE UNCHANGED vars
  BY <1>9 DEF vars, runVars
<1>10. QED
  BY <1>1, <1>2, <1>3, <1>4, <1>5, <1>6, <1>7, <1>8, <1>9 DEF Next, Runner

\* A result that says complete finds a VERIFIED verdict for every phase, younger than the
\* build (_finalize_and_flush_verifications, ReturnFacts).
THEOREM CompleteIsVerified == Spec => CompletesVerified
<1>1. ASSUME IInv, [Next]_vars, result = "none", result' = "complete", NEW p \in Phases
      PROVE  Verified(PhaseClaim(p))'
  <2> DEFINE c == PhaseClaim(p)
  <2>1. Return
    BY <1>1, WhoMoves
  <2>2. PICK i \in 1 .. Len(rows) : i > stamp /\ rows[i].claim = c
    BY <1>1, <2>1, ReturnFacts
  <2>3. RowsOf(c) # {} /\ i \in RowsOf(c)
    BY <2>2 DEF RowsOf
  <2>4. /\ Candidates(c) # {} /\ LatestRow(c) \in RowsOf(c)
        /\ \A u \in RowsOf(c) : LatestRow(c) >= u
    BY <1>1, <2>3, NewestIsLatest DEF IInv, TypeOK, LedgerTypeOK
  <2>5. LatestRow(c) \in 1 .. Len(rows) /\ rows[LatestRow(c)].claim = c
    BY <2>4 DEF RowsOf
  <2>6. rows[LatestRow(c)].verdict = "VERIFIED"
    BY <1>1, <2>5 DEF IInv, Judged
  <2>7. LatestRow(c) > stamp
    <3>1. LatestRow(c) >= i
      BY <2>3, <2>4
    <3>2. stamp \in Nat /\ Len(rows) \in Nat
      BY <1>1 DEF IInv, TypeOK, LedgerTypeOK
    <3>3. QED
      BY <2>2, <2>5, <3>1, <3>2
  <2>8. Verified(c)
    BY <2>4, <2>6, <2>7 DEF Verified
  <2>9. UNCHANGED <<rows, stamp>>
    BY <2>1 DEF Return, ledgerVars
  <2>10. QED
    BY <2>8, <2>9 DEF Verified, LatestRow, Candidates, RowsOf
<1>2. IInv /\ [Next]_vars =>
        [result = "none" /\ result' = "complete" => \A p \in Phases : Verified(PhaseClaim(p))']_vars
  BY <1>1
<1>3. QED
  BY <1>2, ClearInvariant, PTL DEF Spec, CompletesVerified

\* What ships is what was tested: every verdict of a phase carries the source its tests last
\* passed on, so that the oldest, which the integrity check reads, does too (Judged).
THEOREM ShippedAsTested == Spec => ShipsWhatWasTested
<1>1. ASSUME IInv, [Next]_vars, ~shipped, shipped', NEW p \in Phases
      PROVE  source[p] = tested[p]
  <2>1. Ship
    BY <1>1, WhoMoves
  <2>2. saved.completed = Phases /\ RowsOf(PhaseClaim(p)) # {}
    BY <1>1, <2>1 DEF Ship, IInv, Flushing
  <2>3. tested[p] \in Good
    BY <1>1, <2>2 DEF IInv, Judged
  <2>4. ASSUME NEW i \in RowsOf(PhaseClaim(p))
        PROVE  rows[i].verdict = "VERIFIED" /\ rows[i].digest = tested[p] /\ i \in Nat
    BY <1>1, <2>4 DEF RowsOf, IInv, Judged
  <2>5. Hashed(p) = RowsOf(PhaseClaim(p))
    BY <2>3, <2>4 DEF Hashed, Good, NoDigest
  <2>6. Hashed(p) \in SUBSET Nat /\ Hashed(p) # {}
    BY <2>2, <2>4, <2>5
  <2>7. Least(Hashed(p)) \in RowsOf(PhaseClaim(p))
    BY <2>5, <2>6, LeastIs
  <2>8. source[p] = rows[Least(Hashed(p))].digest
    BY <2>1, <2>6 DEF Ship, SourcesIntact
  <2>9. QED
    BY <2>4, <2>7, <2>8
<1>2. IInv /\ [Next]_vars =>
        [~shipped /\ shipped' => \A p \in Phases : source[p] = tested[p]]_vars
  BY <1>1
<1>3. QED
  BY <1>2, ClearInvariant, PTL DEF Spec, ShipsWhatWasTested

\* The build ships on the CI's last word: each row supersedes the first of its claim only, yet
\* the newest is the one that is found (latest_row_for, NewestIsLatest).
THEOREM ShippedOnLastVerdict == Spec => ShipsOnTheLastVerdict
<1>1. ASSUME IInv, [Next]_vars, ~shipped, shipped'
      PROVE  LET i == Greatest(RowsOf(Meta))
             IN  rows[i].verdict = "VERIFIED" /\ i > stamp
  <2>1. Verified(Meta)
    BY <1>1, WhoMoves DEF Ship, GateOk
  <2>2. RowsOf(Meta) # {}
    BY <2>1 DEF Verified, Candidates
  <2>3. LatestRow(Meta) = Greatest(RowsOf(Meta))
    BY <1>1, <2>2, NewestIsLatest DEF IInv, TypeOK, LedgerTypeOK
  <2>4. QED
    BY <2>1, <2>3 DEF Verified
<1>2. IInv /\ [Next]_vars =>
        [~shipped /\ shipped' => LET i == Greatest(RowsOf(Meta))
                                 IN  rows[i].verdict = "VERIFIED" /\ i > stamp]_vars
  BY <1>1
<1>3. QED
  BY <1>2, ClearInvariant, PTL DEF Spec, ShipsOnTheLastVerdict
=============================================================================
