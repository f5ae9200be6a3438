------------------------- MODULE VerificationLedger -------------------------
(***************************************************************************)
(* The verification ledger of one build                                    *)
(* (src/factory/verification_ledger.py): the rows of ledger.json, what     *)
(* adds to them, and the two checks the ship step makes on them.  Each     *)
(* method reads the file, changes it and writes it back; the callers run   *)
(* one after the other, so a method is one step.                           *)
(*                                                                         *)
(* Time is the number of rows: a row is verified at its index, and         *)
(* build_completed_at is the number of rows there were (a file write lies  *)
(* between any two stamps, so no two are equal).  One claim for each phase *)
(* and one of each kind of the static register, a meta claim and a         *)
(* deferred one, stand for all.  Evidence files and ranks are left out:    *)
(* every caller records the claim's own minimum rank and two different     *)
(* parties.                                                                *)
(***************************************************************************)
EXTENDS Integers, Sequences

CONSTANT P      \* how many phases the plan has

ASSUME LedgerAssumption == P \in Nat \ {0}

Phases == 1 .. P
PhaseClaim(p) == <<"phase", p>>
Meta == <<"meta", 0>>
Deferred == <<"deferred", 0>>
Claims == {PhaseClaim(p) : p \in Phases} \cup {Meta, Deferred}

\* What is in a phase's feature source: what the forced failure or the
\* correct implementation writes, or something else.
Sources == {"absent", "broken", "correct", "changed"}
NoDigest == "no digest"
Digest(s) == IF s = "absent" THEN NoDigest ELSE s

VARIABLES
  rows,      \* claims: claim, verdict, source digest, index of the row it supersedes
  stamp      \* build_completed_at

ledgerVars == <<rows, stamp>>
Row == [claim : Claims, verdict : {"VERIFIED", "REFUTED", "DEFERRED"},
        digest : Sources \cup {NoDigest}, supersedes : Nat]
LedgerTypeOK == rows \in Seq(Row) /\ stamp \in 0 .. Len(rows)
LedgerInit == rows = <<>> /\ stamp = 0

RowsOf(claim) == {i \in 1 .. Len(rows) : rows[i].claim = claim}
Least(S) == CHOOSE i \in S : \A j \in S : i <= j
Greatest(S) == CHOOSE i \in S : \A j \in S : i >= j

\* record(): a new row names the FIRST row of its claim as superseded.
Entry(claim, verdict, digest) ==
  [claim |-> claim, verdict |-> verdict, digest |-> digest,
   supersedes |-> IF RowsOf(claim) = {} THEN 0 ELSE Least(RowsOf(claim))]
Record(claim, verdict, digest) ==
  rows' = Append(rows, Entry(claim, verdict, digest)) /\ UNCHANGED stamp

\* seed_deferred()
SeedDeferred ==
  /\ rows' = IF RowsOf(Deferred) = {}
             THEN Append(rows, Entry(Deferred, "DEFERRED", NoDigest)) ELSE rows
  /\ UNCHANGED stamp

\* finalize_build()
FinalizeBuild == stamp' = Len(rows) /\ UNCHANGED rows

\* latest_row_for(): the last of those nothing supersedes.
Candidates(claim) == RowsOf(claim) \ {rows[i].supersedes : i \in 1 .. Len(rows)}
SlipLatestRow(claim) == Least(Candidates(claim))
LatestRow(claim) == Greatest(Candidates(claim))

\* _effective_verdict() calls a VERIFIED row of an earlier build STALE.
Verified(claim) ==
  /\ Candidates(claim) # {}
  /\ rows[LatestRow(claim)].verdict = "VERIFIED"
  /\ LatestRow(claim) > stamp

\* evaluate_ship() walks the static register, which has no phase claims.
GateOk ==
  /\ Verified(Meta)
  /\ Candidates(Deferred) # {} /\ rows[LatestRow(Deferred)].verdict = "DEFERRED"

\* verify_source_integrity() compares what is on disk with the first
\* VERIFIED row of each phase claim that has a digest.
Hashed(p) == {i \in RowsOf(PhaseClaim(p)) : rows[i].verdict = "VERIFIED" /\ rows[i].digest # NoDigest}
SlipSourcesIntact(source) ==
  \A p \in Phases : Hashed(p) # {} => source[p] # "absent"
SourcesIntact(source) ==
  \A p \in Phases : Hashed(p) # {} => source[p] = rows[Least(Hashed(p))].digest
=============================================================================
