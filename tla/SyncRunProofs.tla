---------------------------- MODULE SyncRunProofs ----------------------------
(***************************************************************************)
(* Theorems about one sync run, for every set of attributes, files, edits  *)
(* and proposals and every max_retries, with their TLAPS proofs.           *)
(***************************************************************************)
EXTENDS SyncRun, TLAPS

-----------------------------------------------------------------------------
(* Typing. *)

LEMMA FilesOfTyped ==
  ASSUME NEW es \in Seq(Edits)
  PROVE  FilesOf(es) \in SUBSET (Files \cup {NoFile})
  BY EditsAssumption DEF FilesOf

\* The writes of a round are writes, and none of them is of an "ignore" edit.
LEMMA WrittenTyped ==
  ASSUME TypeOK, NEW c \in Changes, NEW k \in AppliedCounts(c)
  PROVE  /\ Written(c, k) \in SUBSET Writes
         /\ \A w \in Written(c, k) : w.by = c /\ w.edit.file \in Files
         /\ \A w \in Written(c, k) : \E i \in 1..k : w.edit = edits[c][i]
         /\ \A w \in Written(c, k) : w.round = attempt
  BY EditsAssumption DEF TypeOK, ResolutionOK, AppliedCounts, Written, Writes

LEMMA DoneTyped ==
  ASSUME TypeOK, NEW c \in Changes, NEW k \in AppliedCounts(c)
  PROVE  Done(c, k) \in SUBSET (Files \cup {NoFile})
  BY EditsAssumption DEF TypeOK, ResolutionOK, AppliedCounts, Done

\* patch.Apply leaves the tree and the set of differing files typed.
LEMMA WriteTyped ==
  ASSUME TypeOK, NEW c \in Changes, NEW k \in AppliedCounts(c), Write(c, k)
  PROVE  /\ todo' \in SUBSET Changes
         /\ writes' \in SUBSET Writes
         /\ uncommitted' \in SUBSET Files
         /\ fresh' \in BOOLEAN
<1>1. uncommitted' \in SUBSET Files
  <2>1. \A D \in SUBSET {w.edit.file : w \in {x \in Written(c, k) : x.edit.op = "set"}} :
          D \in SUBSET Files
    BY WrittenTyped
  <2> QED
    BY <2>1, WrittenTyped DEF Write, MayDiffer, TypeOK, TreeOK
<1>2. writes' \in SUBSET Writes /\ todo' \in SUBSET Changes
  BY WrittenTyped DEF Write, TypeOK, TreeOK, ControlOK
<1>3. fresh' \in BOOLEAN
  BY DEF Write
<1> QED
  BY <1>1, <1>2, <1>3

LEMMA NoEdits == <<>> \in Seq(Edits)
  OBVIOUS

LEMMA GiveTyped ==
  ASSUME TypeOK, NEW c \in Changes, NEW s \in Statuses, NEW n \in Notes,
         NEW es \in Seq(Edits), Give(c, s, n, es)
  PROVE  ResolutionOK'
  BY DEF Give, TypeOK, ResolutionOK

LEMMA ProposeTyped ==
  ASSUME TypeOK, NEW c \in Changes, Propose(c)
  PROVE  ResolutionOK'
<1>1. note[c] \in Notes /\ edits[c] \in Seq(Edits)
  BY DEF TypeOK, ResolutionOK
<1>2. CASE Give(c, "could-not-fix", "proposal failed", edits[c])
  BY <1>1, <1>2, GiveTyped DEF Statuses, Notes
<1>3. CASE \E p \in Proposals[c] : Give(c, "pending", note[c], edits[c] \o p)
  <2>1. PICK p \in Proposals[c] : Give(c, "pending", note[c], edits[c] \o p)
    BY <1>3
  <2>2. p \in Seq(Edits)
    BY ProposalsAssumption
  <2>3. edits[c] \o p \in Seq(Edits)
    BY <1>1, <2>2
  <2> QED
    BY <1>1, <2>1, <2>3, GiveTyped DEF Statuses
<1>4. CASE Give(c, "skipped-protected", "skipped", <<>>)
  BY <1>4, GiveTyped, NoEdits DEF Statuses, Notes
<1>5. CASE Give(c, "could-not-fix", "rejected", <<>>)
  BY <1>5, GiveTyped, NoEdits DEF Statuses, Notes
<1> QED
  BY <1>2, <1>3, <1>4, <1>5 DEF Propose

LEMMA ResolveTyped ==
  ASSUME TypeOK, NEW c \in Changes, NEW t \in AllTiers, ResolveChange(c, t)
  PROVE  ResolutionOK'
<1>1. note[c] \in Notes /\ edits[c] \in Seq(Edits)
  BY DEF TypeOK, ResolutionOK
<1>2. <<Target[c]>> \in Seq(Edits)
  BY TargetAssumption
<1>3. CASE Give(c, "pending", note[c], <<Target[c]>>)
  BY <1>1, <1>2, <1>3, GiveTyped DEF Statuses
<1>4. CASE Propose(c)
  BY <1>4, ProposeTyped
<1>5. CASE Give(c, "could-not-fix", "tier 3", edits[c])
  BY <1>1, <1>5, GiveTyped DEF Statuses, Notes
<1> QED
  BY <1>3, <1>4, <1>5 DEF ResolveChange

LEMMA ApplyFailedTyped ==
  ASSUME TypeOK, NEW c \in Changes, ApplyFailed(c)
  PROVE  ResolutionOK'
  BY GiveTyped, NoEdits DEF ApplyFailed, Statuses, Notes

\* What a step leaves alone keeps its type.
LEMMA Frame ==
  ASSUME TypeOK
  PROVE  /\ UNCHANGED <<opts, existing, live, tier>> => DecisionOK'
         /\ UNCHANGED <<status, note, edits>> => ResolutionOK'
         /\ UNCHANGED <<writes, touched, originals, byChange, uncommitted, committed>>
              => TreeOK'
         /\ UNCHANGED <<retried, dirty, residual, fresh>> => VerifyOK'
         /\ UNCHANGED <<remote, pr>> => OutcomeOK'
<1>1. UNCHANGED <<opts, existing, live, tier>> => DecisionOK'
  BY DEF TypeOK, DecisionOK
<1>2. UNCHANGED <<status, note, edits>> => ResolutionOK'
  BY DEF TypeOK, ResolutionOK
<1>3. UNCHANGED <<writes, touched, originals, byChange, uncommitted, committed>>
        => TreeOK'
  BY DEF TypeOK, TreeOK
<1>4. UNCHANGED <<retried, dirty, residual, fresh>> => VerifyOK'
  BY DEF TypeOK, VerifyOK
<1>5. UNCHANGED <<remote, pr>> => OutcomeOK'
  BY DEF TypeOK, OutcomeOK
<1> QED
  BY <1>1, <1>2, <1>3, <1>4, <1>5

\* verifyLoop's counter is a natural number.
LEMMA CounterTyped ==
  ASSUME TypeOK, [Next]_vars
  PROVE  attempt' \in Nat
<1>1. UNCHANGED attempt \/ attempt' = attempt + 1
  BY DEF Next, Step, Decide, DryRun, Apply, Verify, Finish, Detect, Report, Trust,
         ClassifyFails, Classified, Classify, DryRead, DryRestore, FmtValidate,
         Committed, ApplyTrack, ApplyPending, CommitChange, Replan, Retried, NextRound, Retry,
         Finalize, Publish, PullRequest, Kill, vars, replan
<1> QED
  BY <1>1 DEF TypeOK

\* Every variable of a run keeps its type.
THEOREM TypeCorrect == Spec => []TypeOK
<1>1. Init => TypeOK
  <2> SUFFICES ASSUME Init PROVE TypeOK
    OBVIOUS
  <2> USE DEF Init
  <2>1. ControlOK
    BY DEF ControlOK, Phases, Causes
  <2>2. DecisionOK
    BY DEF DecisionOK, AllTiers
  <2>3. ResolutionOK
    BY NoEdits DEF ResolutionOK, Statuses, Notes
  <2>4. TreeOK
    BY DEF TreeOK
  <2>5. VerifyOK
    BY DEF VerifyOK
  <2>6. OutcomeOK /\ attempt \in Nat
    BY DEF OutcomeOK
  <2> QED
    BY <2>1, <2>2, <2>3, <2>4, <2>5, <2>6 DEF TypeOK
<1>2. TypeOK /\ [Next]_vars => TypeOK'
  <2> SUFFICES ASSUME TypeOK, [Next]_vars PROVE TypeOK'
    OBVIOUS
  <2> DEFINE Typed == /\ ControlOK /\ DecisionOK /\ ResolutionOK
                      /\ TreeOK /\ VerifyOK /\ OutcomeOK
  <2> SUFFICES Typed'
    BY CounterTyped DEF TypeOK
  <2> USE DEF setup, verdicts, tree, replan, outcome
  <2>1. CASE Detect
    <3>1. ControlOK'
      BY <2>1 DEF Detect, Stop, Goto, TypeOK, ControlOK, Phases, Causes
    <3> QED
      BY <2>1, <3>1, Frame DEF Detect
  <2>2. CASE Report
    <3>1. ControlOK'
      BY <2>2 DEF Report, Stop, Goto, TypeOK, ControlOK, Phases, Causes
    <3>2. DecisionOK'
      BY <2>2 DEF Report, TypeOK, DecisionOK
    <3> QED
      BY <2>2, <3>1, <3>2, Frame DEF Report
  <2>3. CASE Trust
    <3>1. ControlOK'
      BY <2>3 DEF Trust, Stop, Goto, TypeOK, ControlOK, Phases, Causes
    <3>2. DecisionOK'
      BY <2>3 DEF Trust, TypeOK, DecisionOK
    <3> QED
      BY <2>3, <3>1, <3>2, Frame DEF Trust
  <2>4. CASE ClassifyFails
    <3>1. ControlOK'
      BY <2>4 DEF ClassifyFails, Stop, TypeOK, ControlOK, Phases, Causes
    <3> QED
      BY <2>4, <3>1, Frame DEF ClassifyFails
  <2>5. CASE Classified
    <3>1. ControlOK'
      BY <2>5 DEF Classified, Listed, Stop, Goto, TypeOK, ControlOK, Phases, Causes
    <3> QED
      BY <2>5, <3>1, Frame DEF Classified
  <2>6. ASSUME NEW c \in Changes, Classify(c) PROVE Typed'
    <3>1. ControlOK'
      BY <2>6 DEF Classify, TypeOK, ControlOK
    <3>2. DecisionOK'
      BY <2>6, TiersAssumption DEF Classify, TypeOK, DecisionOK
    <3>3. ResolutionOK'
      <4>1. CASE Give(c, "could-not-fix", "unresolved", <<>>)
        BY <4>1, GiveTyped, NoEdits DEF Statuses, Notes
      <4>2. CASE \E t \in Tiers : ResolveChange(c, t)
        BY <4>2, ResolveTyped, TiersAssumption
      <4> QED
        BY <2>6, <4>1, <4>2 DEF Classify
    <3> QED
      BY <2>6, <3>1, <3>2, <3>3, Frame DEF Classify
  <2>7. ASSUME NEW c \in Changes, ApplyTrack(c) PROVE Typed'
    <3>1. CASE edits[c] = <<>> /\ Skip(c)
      <4>1. ControlOK'
        BY <2>7, <3>1 DEF ApplyTrack, Skip, TypeOK, ControlOK
      <4> QED
        BY <2>7, <3>1, <4>1, Frame DEF ApplyTrack, Skip, LeaveAlone
    <3>2. CASE edits[c] # <<>>
      <4>1. PICK k \in AppliedCounts(c) :
              /\ Write(c, k)
              /\ touched' = touched \cup Done(c, k)
              /\ IF k = Len(edits[c])
                   THEN Give(c, "applied", note[c], edits[c])
                   ELSE ApplyFailed(c)
        BY <2>7, <3>2 DEF ApplyTrack, Skip
      <4>2. ControlOK'
        BY <2>7, <4>1, WriteTyped DEF ApplyTrack, TypeOK, ControlOK
      <4>3. ResolutionOK'
        <5>1. note[c] \in Notes /\ edits[c] \in Seq(Edits) /\ "applied" \in Statuses
          BY DEF TypeOK, ResolutionOK, Statuses
        <5> QED
          BY <4>1, <5>1, GiveTyped, ApplyFailedTyped
      <4>4. TreeOK'
        <5>1. UNCHANGED <<byChange, originals, committed>>
          BY <2>7, <3>2 DEF ApplyTrack, Skip, LeaveAlone
        <5> QED
          BY <4>1, <5>1, WriteTyped, DoneTyped DEF TypeOK, TreeOK
      <4>5. VerifyOK'
        BY <2>7, <4>1, WriteTyped DEF ApplyTrack, TypeOK, VerifyOK
      <4> QED
        BY <2>7, <4>2, <4>3, <4>4, <4>5, Frame DEF ApplyTrack
    <3> QED
      BY <2>7, <3>1, <3>2 DEF ApplyTrack
  <2>8. CASE DryRead
    <3>1. ControlOK'
      BY <2>8 DEF DryRead, Stop, Goto, TypeOK, ControlOK, Phases, Causes
    <3>2. Named \in SUBSET (Files \cup {NoFile})
      BY FilesOfTyped DEF Named, Listed, TypeOK, ResolutionOK
    <3>3. TreeOK'
      BY <2>8, <3>2 DEF DryRead, TypeOK, TreeOK
    <3> QED
      BY <2>8, <3>1, <3>3, Frame DEF DryRead
  <2>9. CASE DryRestore
    <3>1. ControlOK'
      BY <2>9 DEF DryRestore, Stop, TypeOK, ControlOK, Phases, Causes
    <3>2. TreeOK'
      BY <2>9 DEF DryRestore, TypeOK, TreeOK
    <3> QED
      BY <2>9, <3>1, <3>2, Frame DEF DryRestore
  <2>10. ASSUME NEW c \in Changes, ApplyPending(c) PROVE Typed'
    <3>1. CASE Skip(c)
      <4>1. ControlOK'
        BY <2>10, <3>1 DEF ApplyPending, Skip, TypeOK, ControlOK
      <4> QED
        BY <2>10, <3>1, <4>1, Frame DEF ApplyPending, Skip, LeaveAlone
    <3>2. CASE edits[c] # <<>> /\ status[c] # "applied"
      <4>1. PICK k \in AppliedCounts(c) :
              /\ Write(c, k)
              /\ \/ /\ byChange' = [byChange EXCEPT ![c] = FilesOf(edits[c])]
                    /\ UNCHANGED verdicts
                 \/ /\ byChange' = [byChange EXCEPT ![c] = {}]
                    /\ ApplyFailed(c)
        BY <2>10, <3>2 DEF ApplyPending, Skip
      <4>2. ControlOK'
        BY <2>10, <4>1, WriteTyped DEF ApplyPending, TypeOK, ControlOK
      <4>3. ResolutionOK'
        BY <4>1, ApplyFailedTyped, Frame
      <4>4. TreeOK'
        <5>1. FilesOf(edits[c]) \in SUBSET (Files \cup {NoFile})
          BY FilesOfTyped DEF TypeOK, ResolutionOK
        <5>2. byChange' \in [Changes -> SUBSET (Files \cup {NoFile})]
          BY <4>1, <5>1 DEF TypeOK, TreeOK
        <5>3. UNCHANGED <<touched, originals, committed>>
          BY <2>10, <3>2 DEF ApplyPending, Skip, LeaveAlone
        <5> QED
          BY <4>1, <5>2, <5>3, WriteTyped DEF TypeOK, TreeOK
      <4>5. VerifyOK'
        BY <2>10, <4>1, WriteTyped DEF ApplyPending, TypeOK, VerifyOK
      <4> QED
        BY <2>10, <4>2, <4>3, <4>4, <4>5, Frame DEF ApplyPending
    <3> QED
      BY <2>10, <3>1, <3>2 DEF ApplyPending
  <2>11. CASE FmtValidate
    <3>1. ControlOK'
      BY <2>11 DEF FmtValidate, AfterFormat, Stop, Goto, TypeOK, ControlOK, Phases, Causes
    <3>2. TreeOK'
      BY <2>11 DEF FmtValidate, TypeOK, TreeOK
    <3> QED
      BY <2>11, <3>1, <3>2, Frame DEF FmtValidate
  <2>12. ASSUME NEW c \in Changes, CommitChange(c) PROVE Typed'
    <3>1. ControlOK'
      BY <2>12 DEF CommitChange, Stop, TypeOK, ControlOK, Phases, Causes
    <3>2. ResolutionOK'
      BY <2>12 DEF CommitChange, TypeOK, ResolutionOK, Statuses
    <3>3. TreeOK'
      BY <2>12 DEF CommitChange, TypeOK, TreeOK
    <3> QED
      BY <2>12, <3>1, <3>2, <3>3, Frame DEF CommitChange
  <2>13. CASE Committed
    <3>1. ControlOK'
      BY <2>13 DEF Committed, Goto, TypeOK, ControlOK, Phases, Causes
    <3> QED
      BY <2>13, <3>1, Frame DEF Committed
  <2>14. CASE Replan
    <3>1. ControlOK'
      BY <2>14 DEF Replan, Listed, Stop, Goto, TypeOK, ControlOK, Phases, Causes
    <3>2. VerifyOK'
      BY <2>14 DEF Replan, Listed, TypeOK, VerifyOK
    <3> QED
      BY <2>14, <3>1, <3>2, Frame DEF Replan
  <2>15. ASSUME NEW c \in Changes, Retry(c) PROVE Typed'
    <3>1. ControlOK'
      BY <2>15 DEF Retry, TypeOK, ControlOK
    <3>2. ResolutionOK'
      <4>1. CASE UNCHANGED verdicts
        BY <4>1, Frame
      <4>2. CASE Give(c, "remaining", "still drifted", <<>>)
        BY <4>2, GiveTyped, NoEdits DEF Statuses, Notes
      <4>3. CASE Propose(c)
        BY <4>3, ProposeTyped
      <4> QED
        BY <2>15, <4>1, <4>2, <4>3 DEF Retry
    <3>3. VerifyOK'
      BY <2>15 DEF Retry, TypeOK, VerifyOK
    <3> QED
      BY <2>15, <3>1, <3>2, <3>3, Frame DEF Retry
  <2>16. CASE Retried
    <3>1. ControlOK'
      BY <2>16 DEF Retried, Listed, Goto, TypeOK, ControlOK, Phases, Causes
    <3>2. ResolutionOK'
      BY <2>16 DEF Retried, Marked, TypeOK, ResolutionOK, Notes
    <3>3. TreeOK'
      BY <2>16 DEF Retried, TypeOK, TreeOK
    <3> QED
      BY <2>16, <3>1, <3>2, <3>3, Frame DEF Retried, NextRound
  <2>17. CASE Finalize
    <3>1. ControlOK'
      BY <2>17 DEF Finalize, Stop, Goto, TypeOK, ControlOK, Phases, Causes
    <3>2. ResolutionOK'
      BY <2>17 DEF Finalize, FinalStatus, NoteStatus, TypeOK, ResolutionOK, Statuses
    <3> QED
      BY <2>17, <3>1, <3>2, Frame DEF Finalize
  <2>18. CASE Publish
    <3>1. ControlOK'
      BY <2>18 DEF Publish, Stop, Goto, TypeOK, ControlOK, Phases, Causes
    <3>2. OutcomeOK'
      BY <2>18 DEF Publish, TypeOK, OutcomeOK, TreeOK
    <3> QED
      BY <2>18, <3>1, <3>2, Frame DEF Publish
  <2>19. CASE PullRequest
    <3>1. ControlOK'
      BY <2>19 DEF PullRequest, PrFailed, Stop, TypeOK, ControlOK, Phases, Causes
    <3>2. OutcomeOK'
      BY <2>19 DEF PullRequest, TypeOK, OutcomeOK
    <3> QED
      BY <2>19, <3>1, <3>2, Frame DEF PullRequest
  <2>20. CASE Kill
    <3>1. ControlOK'
      BY <2>20 DEF Kill, TypeOK, ControlOK, Phases
    <3> QED
      BY <2>20, <3>1, Frame DEF Kill
  <2>21. CASE UNCHANGED vars
    <3>1. ControlOK'
      BY <2>21 DEF vars, TypeOK, ControlOK
    <3> QED
      BY <2>21, <3>1, Frame DEF vars
  <2> QED
    BY <2>1, <2>2, <2>3, <2>4, <2>5, <2>6, <2>7, <2>8, <2>9, <2>10, <2>11,
       <2>12, <2>13, <2>14, <2>15, <2>16, <2>17, <2>18, <2>19, <2>20, <2>21
       DEF Next, Step, Decide, DryRun, Apply, Verify, Finish
<1> QED
  BY <1>1, <1>2, PTL DEF Spec

-----------------------------------------------------------------------------
(* Only admissible edits reach the tree.  The invariant that carries the      *)
(* argument speaks of c.Edits as well: what the tree receives later is what   *)
(* resolveChange put there, and tier and live do not change once it did.      *)

Early == {"start", "report", "trust"}
GuardInv ==
  /\ pc \in Early => \A c \in Changes : edits[c] = <<>>
  /\ pc \in Early \cup {"classify"} => writes = {}
  /\ pc = "classify" => \A c \in todo : edits[c] = <<>> /\ ResourceOf[c] \in live
  /\ \A c \in Changes : \A i \in 1..Len(edits[c]) : Admissible(c, edits[c][i])
  /\ \A w \in writes : Admissible(w.by, w.edit)

\* resolveChange leaves a change with admissible edits only, if it had only
\* such edits before and its resource is trusted live.
LEMMA ProposeAdmissible ==
  ASSUME TypeOK, NEW c \in Changes, ResourceOf[c] \in live, tier'[c] = "tier2",
         UNCHANGED live,
         edits[c] = <<>> \/ UNCHANGED tier,
         \A i \in 1..Len(edits[c]) : Admissible(c, edits[c][i]),
         Propose(c)
  PROVE  /\ (\A i \in 1..Len(edits[c]) : Admissible(c, edits[c][i]))'
         /\ \A d \in Changes \ {c} : edits'[d] = edits[d]
<1>1. \A d \in Changes \ {c} : edits'[d] = edits[d]
  BY DEF Propose, Give, TypeOK, ResolutionOK
<1>2. edits[c] \in Seq(Edits)
  BY DEF TypeOK, ResolutionOK
<1>3. ASSUME NEW e, \E i \in 1..Len(edits[c]) : e = edits[c][i]
      PROVE  Admissible(c, e)'
  BY <1>2, <1>3 DEF Admissible
<1>4. CASE edits'[c] = edits[c]
  BY <1>1, <1>3, <1>4
<1>5. CASE edits'[c] = <<>>
  BY <1>1, <1>5
<1>6. CASE \E p \in Proposals[c] : /\ \A i \in 1..Len(p) : Passes(p[i])
                                  /\ edits'[c] = edits[c] \o p
  <2>1. PICK p \in Proposals[c] : /\ \A i \in 1..Len(p) : Passes(p[i])
                                  /\ edits'[c] = edits[c] \o p
    BY <1>6
  <2>2. p \in Seq(Edits)
    BY ProposalsAssumption
  <2>3. ASSUME NEW i \in 1..Len(edits'[c]) PROVE Admissible(c, edits[c][i])'
    <3>1. CASE i \in 1..Len(edits[c])
      <4>1. edits'[c][i] = edits[c][i]
        BY <1>2, <2>1, <2>2, <3>1
      <4> QED
        BY <1>3, <3>1, <4>1
    <3>2. CASE i \notin 1..Len(edits[c])
      <4>1. /\ i - Len(edits[c]) \in 1..Len(p)
            /\ edits'[c][i] = p[i - Len(edits[c])]
        BY <1>2, <2>1, <2>2, <2>3, <3>2
      <4>2. edits'[c][i].verdict = "ok"
        BY <2>1, <4>1 DEF Passes
      <4> QED
        BY <4>2 DEF Admissible
    <3> QED
      BY <3>1, <3>2
  <2> QED
    BY <1>1, <2>3
<1>7. edits'[c] = edits[c] \/ edits'[c] = <<>>
      \/ \E p \in Proposals[c] : /\ \A i \in 1..Len(p) : Passes(p[i])
                                 /\ edits'[c] = edits[c] \o p
  BY DEF Propose, Give, TypeOK, ResolutionOK
<1> QED
  BY <1>4, <1>5, <1>6, <1>7

\* A step past classification that writes nothing and resolves nothing keeps
\* the invariant.
LEMMA GuardFrame ==
  ASSUME GuardInv, UNCHANGED <<live, tier, edits>>, writes' \in SUBSET writes,
         pc' \notin Early \cup {"classify"}
  PROVE  GuardInv'
  BY DEF GuardInv, Admissible

\* Applying the edits of one change keeps the invariant.
LEMMA GuardWrite ==
  ASSUME TypeOK, GuardInv, NEW c \in Changes, NEW k \in AppliedCounts(c), Write(c, k),
         UNCHANGED <<pc, live, tier>>, pc \notin Early \cup {"classify"},
         \/ UNCHANGED edits
         \/ ApplyFailed(c)
  PROVE  GuardInv'
<1>1. edits[c] \in Seq(Edits)
  BY DEF TypeOK, ResolutionOK
<1>2. \A w \in Written(c, k) : Admissible(w.by, w.edit)
  <2>1. k \in 0..Len(edits[c])
    BY DEF AppliedCounts
  <2> QED
    BY <1>1, <2>1, WrittenTyped DEF GuardInv
<1>3. (\A w \in writes : Admissible(w.by, w.edit))'
  BY <1>2 DEF Write, GuardInv, Admissible
<1>4. ASSUME NEW d \in Changes, NEW i \in 1..Len(edits'[d])
      PROVE  Admissible(d, edits[d][i])'
  <2>1. edits'[d] = edits[d] \/ edits'[d] = <<>>
    BY DEF ApplyFailed, Give, TypeOK, ResolutionOK
  <2>2. edits'[d] = edits[d]
    BY <1>4, <2>1
  <2> QED
    BY <1>4, <2>2 DEF GuardInv, Admissible
<1> QED
  BY <1>3, <1>4 DEF GuardInv

LEMMA GuardAlways == Spec => []GuardInv
<1>1. Init => GuardInv
  BY DEF Init, GuardInv, Early
<1>2. TypeOK /\ GuardInv /\ [Next]_vars => GuardInv'
  <2> SUFFICES ASSUME TypeOK, GuardInv, [Next]_vars PROVE GuardInv'
    OBVIOUS
  <2> USE DEF setup, verdicts, tree, replan, outcome, Early
  <2>1. CASE Detect
    BY <2>1 DEF Detect, Stop, Goto, GuardInv, Admissible
  <2>2. CASE Report
    BY <2>2 DEF Report, Stop, Goto, GuardInv, Admissible
  <2>3. CASE Trust
    <3>1. edits' = edits /\ writes' = {} /\ \A c \in Changes : edits[c] = <<>>
      BY <2>3 DEF Trust, GuardInv
    <3>2. pc' = "classify" => \A c \in todo' : ResourceOf[c] \in live' /\ c \in Changes
      BY <2>3 DEF Trust, Stop, Goto
    <3> QED
      BY <3>1, <3>2 DEF GuardInv
  <2>4. CASE ClassifyFails
    BY <2>4, GuardFrame DEF ClassifyFails, Stop
  <2>5. CASE Classified
    BY <2>5, GuardFrame DEF Classified, Stop, Goto
  <2>6. ASSUME NEW c \in Changes, Classify(c) PROVE GuardInv'
    <3>1. /\ c \in todo /\ pc = "classify" /\ writes = {} /\ writes' = {}
          /\ edits[c] = <<>> /\ ResourceOf[c] \in live /\ live' = live /\ pc' = pc
          /\ todo' = todo \ {c}
      BY <2>6 DEF Classify, GuardInv
    <3>2. /\ \A d \in Changes \ {c} : edits'[d] = edits[d] /\ tier'[d] = tier[d]
          /\ (\A i \in 1..Len(edits[c]) : Admissible(c, edits[c][i]))'
      <4>1. CASE Give(c, "could-not-fix", "unresolved", <<>>) /\ UNCHANGED tier
        BY <4>1 DEF Give, TypeOK, ResolutionOK
      <4>2. CASE \E t \in Tiers : /\ tier' = [tier EXCEPT ![c] = t]
                                  /\ ResolveChange(c, t)
        <5>1. PICK t \in Tiers : tier' = [tier EXCEPT ![c] = t] /\ ResolveChange(c, t)
          BY <4>2
        <5>2. tier'[c] = t /\ \A d \in Changes \ {c} : tier'[d] = tier[d]
          BY <5>1 DEF TypeOK, DecisionOK
        <5>3. CASE t \in Deterministic /\ Give(c, "pending", note[c], <<Target[c]>>)
          <6>1. edits'[c] = <<Target[c]>> /\ \A d \in Changes \ {c} : edits'[d] = edits[d]
            BY <5>3 DEF Give, TypeOK, ResolutionOK
          <6>2. ASSUME NEW i \in 1..Len(edits'[c]) PROVE edits'[c][i] = Target[c]
            BY <6>1, <6>2
          <6>3. tier'[c] # "tier2"
            BY <5>2, <5>3 DEF Deterministic
          <6>4. ASSUME NEW i \in 1..Len(edits'[c]) PROVE Admissible(c, edits[c][i])'
            BY <3>1, <6>2, <6>3, <6>4 DEF Admissible
          <6>5. (\A i \in 1..Len(edits[c]) : Admissible(c, edits[c][i]))'
            BY <6>4
          <6> QED
            BY <5>2, <6>1, <6>5
        <5>4. CASE t = "tier2" /\ Propose(c)
          BY <3>1, <5>2, <5>4, ProposeAdmissible
        <5>5. CASE Give(c, "could-not-fix", "tier 3", edits[c])
          <6>1. edits'[c] = <<>> /\ \A d \in Changes \ {c} : edits'[d] = edits[d]
            BY <3>1, <5>5 DEF Give, TypeOK, ResolutionOK
          <6> QED
            BY <5>2, <6>1
        <5> QED
          BY <5>1, <5>3, <5>4, <5>5 DEF ResolveChange
      <4> QED
        BY <2>6, <4>1, <4>2 DEF Classify
    <3>3. ASSUME NEW d \in Changes \ {c}, NEW i \in 1..Len(edits'[d])
          PROVE  Admissible(d, edits[d][i])'
      <4>1. edits'[d] = edits[d] /\ tier'[d] = tier[d]
        BY <3>2
      <4>2. Admissible(d, edits[d][i])
        BY <3>3, <4>1 DEF GuardInv
      <4> QED
        BY <3>1, <4>1, <4>2 DEF Admissible
    <3>4. \A d \in todo' : edits'[d] = <<>> /\ ResourceOf[d] \in live'
      BY <3>1, <3>2 DEF GuardInv, TypeOK, ControlOK
    <3> QED
      BY <3>1, <3>2, <3>3, <3>4 DEF GuardInv
  <2>7. ASSUME NEW c \in Changes, ApplyTrack(c) PROVE GuardInv'
    <3>1. CASE Skip(c)
      BY <2>7, <3>1, GuardFrame DEF ApplyTrack, Skip, LeaveAlone
    <3>2. CASE \E k \in AppliedCounts(c) :
                 /\ Write(c, k)
                 /\ \/ Give(c, "applied", note[c], edits[c])
                    \/ ApplyFailed(c)
      <4>1. Give(c, "applied", note[c], edits[c]) => UNCHANGED edits
        BY DEF Give, TypeOK, ResolutionOK
      <4> QED
        BY <2>7, <3>2, <4>1, GuardWrite DEF ApplyTrack
    <3> QED
      BY <2>7, <3>1, <3>2 DEF ApplyTrack
  <2>8. CASE DryRead
    BY <2>8, GuardFrame DEF DryRead, Stop, Goto
  <2>9. CASE DryRestore
    BY <2>9, GuardFrame DEF DryRestore, Stop
  <2>10. ASSUME NEW c \in Changes, ApplyPending(c) PROVE GuardInv'
    <3>1. CASE Skip(c)
      BY <2>10, <3>1, GuardFrame DEF ApplyPending, Skip, LeaveAlone
    <3>2. CASE \E k \in AppliedCounts(c) :
                 Write(c, k) /\ (UNCHANGED verdicts \/ ApplyFailed(c))
      BY <2>10, <3>2, GuardWrite DEF ApplyPending
    <3> QED
      BY <2>10, <3>1, <3>2 DEF ApplyPending
  <2>11. CASE FmtValidate
    BY <2>11, GuardFrame DEF FmtValidate, AfterFormat, Stop, Goto
  <2>12. ASSUME NEW c \in Changes, CommitChange(c) PROVE GuardInv'
    BY <2>12, GuardFrame DEF CommitChange, Stop
  <2>13. CASE Committed
    BY <2>13, GuardFrame DEF Committed, Goto
  <2>14. CASE Replan
    BY <2>14, GuardFrame DEF Replan, Stop, Goto
  <2>15. ASSUME NEW c \in Changes, Retry(c) PROVE GuardInv'
    <3>1. CASE UNCHANGED verdicts
      BY <2>15, <3>1, GuardFrame DEF Retry
    <3>2. CASE Give(c, "remaining", "still drifted", <<>>)
      <4>1. ASSUME NEW d \in Changes, NEW i \in 1..Len(edits'[d])
            PROVE  Admissible(d, edits[d][i])'
        <5>1. edits'[c] = <<>> /\ \A x \in Changes \ {c} : edits'[x] = edits[x]
          BY <3>2 DEF Give, TypeOK, ResolutionOK
        <5>2. d # c
          BY <4>1, <5>1
        <5> QED
          BY <2>15, <4>1, <5>1, <5>2 DEF Retry, GuardInv, Admissible
      <4>2. (\A w \in writes : Admissible(w.by, w.edit))'
        BY <2>15 DEF Retry, GuardInv, Admissible
      <4> QED
        BY <2>15, <4>1, <4>2 DEF Retry, GuardInv
    <3>3. CASE Retriable(c) /\ Propose(c)
      <4>1. tier'[c] = "tier2" /\ UNCHANGED <<live, tier, writes, pc>> /\ pc = "retry"
        BY <2>15, <3>3 DEF Retry, Retriable
      <4>2. 1 \in 1..Len(edits[c])
        BY <3>3 DEF Retriable, TypeOK, ResolutionOK
      <4>3. ResourceOf[c] \in live /\ \A i \in 1..Len(edits[c]) : Admissible(c, edits[c][i])
        BY <4>2 DEF GuardInv, Admissible
      <4>4. /\ (\A i \in 1..Len(edits[c]) : Admissible(c, edits[c][i]))'
            /\ \A d \in Changes \ {c} : edits'[d] = edits[d]
        BY <3>3, <4>1, <4>3, ProposeAdmissible
      <4>5. ASSUME NEW d \in Changes \ {c}, NEW i \in 1..Len(edits'[d])
            PROVE  Admissible(d, edits[d][i])'
        <5>1. edits'[d] = edits[d]
          BY <4>4
        <5> QED
          BY <4>1, <4>5, <5>1 DEF GuardInv, Admissible
      <4>6. (\A w \in writes : Admissible(w.by, w.edit))'
        BY <4>1 DEF GuardInv, Admissible
      <4> QED
        BY <4>1, <4>4, <4>5, <4>6 DEF GuardInv
    <3> QED
      BY <2>15, <3>1, <3>2, <3>3 DEF Retry
  <2>16. CASE Retried
    BY <2>16, GuardFrame DEF Retried, Goto
  <2>17. CASE Finalize
    BY <2>17, GuardFrame DEF Finalize, Stop, Goto
  <2>18. CASE Publish
    BY <2>18, GuardFrame DEF Publish, Stop, Goto
  <2>19. CASE PullRequest
    BY <2>19, GuardFrame DEF PullRequest, PrFailed, Stop
  <2>20. CASE Kill
    BY <2>20, GuardFrame DEF Kill
  <2>21. CASE UNCHANGED vars
    BY <2>21 DEF vars, GuardInv, Admissible
  <2> QED
    BY <2>1, <2>2, <2>3, <2>4, <2>5, <2>6, <2>7, <2>8, <2>9, <2>10, <2>11,
       <2>12, <2>13, <2>14, <2>15, <2>16, <2>17, <2>18, <2>19, <2>20, <2>21
       DEF Next, Step, Decide, DryRun, Apply, Verify, Finish
<1> QED
  BY <1>1, <1>2, TypeCorrect, PTL DEF Spec

\* Every edit that ever reaches the working tree is for a resource the operator
\* trusts live, and is the attribute's deterministic edit or passed both guards.
THEOREM OnlyGuardedWrites == Spec => []GuardedWrites
<1>1. GuardInv => GuardedWrites
  BY DEF GuardInv, GuardedWrites
<1> QED
  BY <1>1, GuardAlways, PTL

-----------------------------------------------------------------------------
(* What "fixed" stands for.  A change that is still in play (it has edits, or *)
(* is provisionally applied) carries no note but the one of a failed retry,   *)
(* so markDirty reaches every other one, and finalizeStatuses reads the mark. *)

Detecting == Early \cup {"classify", "dryRead", "dryApply"}
After     == {"publish", "pr", "done", "killed"}
InPlay(c) == c \in Listed /\ note[c] \in {"none", "proposal failed"}
Vouched(c) ==
  \/ ResourceOf[c] \notin dirty
  \/ note[c] \in {"proposal failed", "re-plan dirty", "still drifted"}

NotFixedYet == pc \notin After => \A c \in Changes : status[c] # "fixed"
Untouched ==
  /\ pc \in Early => \A c \in Changes : /\ edits[c] = <<>> /\ status[c] = "none"
                                         /\ note[c] = "none"
  /\ pc = "classify" =>
       \A c \in todo : note[c] = "none" /\ edits[c] = <<>> /\ c \in Listed
  /\ pc \in Detecting => \A c \in Changes : byChange[c] = {}
PlayInv ==
  /\ pc \notin After \cup {"finalize"} =>
       \A c \in Changes : (status[c] = "applied" \/ edits[c] # <<>>) => InPlay(c)
  /\ pc \in {"apply", "commit"} => \A c \in Changes : byChange[c] # {} => InPlay(c)
  /\ pc = "commit" => \A c \in todo : byChange[c] # {}
  /\ opts.push = "api" => \A c \in Changes : byChange[c] = {}
FreshInv ==
  /\ pc \in {"retry", "finalize", "publish", "pr"} => fresh
  /\ pc \notin After => remote = {}
  /\ PublishedIsVerified
VouchInv ==
  /\ pc = "finalize" => \A c \in Changes : status[c] = "applied" => Vouched(c)
  /\ FixedIsVerified
VerifyInv == NotFixedYet /\ Untouched /\ PlayInv /\ FreshInv /\ VouchInv

\* A return, or a kill, keeps the invariant: it changes no status.
LEMMA VerifyStop ==
  ASSUME VerifyInv, pc' \in {"done", "killed"},
         UNCHANGED <<status, note, dirty, fresh, remote, opts, byChange>>
  PROVE  VerifyInv'
  BY DEF VerifyInv, NotFixedYet, Untouched, PlayInv, FreshInv, VouchInv, Early, Detecting,
         After, PublishedIsVerified, FixedIsVerified

\* A step of a loop over the changes that alters one change at most, and that
\* only in a way that keeps it in play or ends it.
LEMMA VerifyLoopStep ==
  ASSUME TypeOK, VerifyInv, NEW c \in Changes,
         pc \in {"classify", "dryApply", "apply", "retry"},
         UNCHANGED <<pc, live, dirty, remote, opts>>, c \in todo, todo' = todo \ {c},
         \A d \in Changes \ {c} : /\ status'[d] = status[d] /\ note'[d] = note[d]
                                  /\ edits'[d] = edits[d]
                                  /\ byChange'[d] = byChange[d],
         status'[c] # "fixed",
         (status'[c] = "applied" \/ edits'[c] # <<>>) =>
            c \in Listed /\ note'[c] \in {"none", "proposal failed"},
         pc # "retry" =>
            (byChange'[c] # {} =>
               /\ c \in Listed /\ note'[c] \in {"none", "proposal failed"}
               /\ pc = "apply"),
         byChange'[c] # {} => opts.push = "git",
         pc = "retry" => UNCHANGED fresh
  PROVE  VerifyInv'
<1> USE DEF VerifyInv, Early, Detecting, After
<1>1. NotFixedYet'
  BY DEF NotFixedYet
<1>2. Untouched'
  BY DEF Untouched, Listed
<1>3. PlayInv'
  BY DEF PlayInv, InPlay, Listed
<1>4. FreshInv'
  BY DEF FreshInv, PublishedIsVerified
<1>5. VouchInv'
  <2>1. \A d \in Changes : status'[d] # "fixed"
    BY <1>1 DEF NotFixedYet
  <2> QED
    BY <2>1 DEF VouchInv, FixedIsVerified
<1> QED
  BY <1>1, <1>2, <1>3, <1>4, <1>5

\* Give changes the verdict on one change only.
LEMMA GiveOne ==
  ASSUME TypeOK, NEW c \in Changes, NEW s, NEW n, NEW es, Give(c, s, n, es)
  PROVE  /\ status'[c] = s /\ note'[c] = n /\ edits'[c] = es
         /\ \A d \in Changes \ {c} : /\ status'[d] = status[d] /\ note'[d] = note[d]
                                     /\ edits'[d] = edits[d]
  BY DEF Give, TypeOK, ResolutionOK

\* resolveChange ends with a change that is in play or has no edits.
LEMMA ProposeOne ==
  ASSUME TypeOK, NEW c \in Changes, note[c] \in {"none", "proposal failed"}, Propose(c)
  PROVE  /\ status'[c] \in {"pending", "could-not-fix", "skipped-protected"}
         /\ edits'[c] # <<>> => note'[c] \in {"none", "proposal failed"}
         /\ \A d \in Changes \ {c} : /\ status'[d] = status[d] /\ note'[d] = note[d]
                                     /\ edits'[d] = edits[d]
  BY GiveOne DEF Propose

LEMMA VerifyInit == Init => VerifyInv
  BY DEF Init, VerifyInv, NotFixedYet, Untouched, PlayInv, FreshInv, VouchInv, Early,
         Detecting, After, PublishedIsVerified, FixedIsVerified

LEMMA VerifyNext == TypeOK /\ VerifyInv /\ [Next]_vars => VerifyInv'
<1> SUFFICES ASSUME TypeOK, VerifyInv, [Next]_vars PROVE VerifyInv'
  OBVIOUS
<1> USE DEF setup, verdicts, tree, replan, outcome
<1> DEFINE Parts == /\ NotFixedYet /\ Untouched /\ PlayInv /\ FreshInv /\ VouchInv
<1>0. Parts
  BY DEF VerifyInv
<1>1. CASE Detect
  <2>1. CASE Goto("report")
    BY <1>0, <1>1, <2>1 DEF Detect, Goto, VerifyInv, NotFixedYet, Untouched, PlayInv,
       FreshInv, VouchInv, Early, Detecting, After, PublishedIsVerified, FixedIsVerified
  <2> QED
    BY <1>1, <2>1, VerifyStop DEF Detect, Stop
<1>2. CASE Report
  <2>1. CASE Goto("trust")
    BY <1>0, <1>2, <2>1 DEF Report, Goto, VerifyInv, NotFixedYet, Untouched, PlayInv,
       FreshInv, VouchInv, Early, Detecting, After, PublishedIsVerified, FixedIsVerified
  <2> QED
    BY <1>2, <2>1, VerifyStop DEF Report, Stop
<1>3. CASE Trust
  <2>1. CASE Goto("classify")
    <3>1. pc' = "classify" /\ pc = "trust"
      BY <1>3, <2>1 DEF Trust, Goto
    <3>2. todo' = Listed'
      BY <1>3, <2>1 DEF Trust, Goto, Stop, Listed
    <3>3. UNCHANGED <<verdicts, byChange, dirty, fresh, remote>>
      BY <1>3 DEF Trust
    <3> QED
      BY <1>0, <3>1, <3>2, <3>3 DEF VerifyInv, NotFixedYet, Untouched, PlayInv, FreshInv,
         VouchInv, Early, Detecting, After, PublishedIsVerified, FixedIsVerified, Listed
  <2> QED
    BY <1>3, <2>1, VerifyStop DEF Trust, Stop
<1>4. CASE ClassifyFails
  BY <1>4, VerifyStop DEF ClassifyFails, Stop
<1>5. CASE Classified
  <2>1. CASE Stop(2, "none") \/ Stop(1, "branch")
    BY <1>5, <2>1, VerifyStop DEF Classified, Stop
  <2>2. CASE pc' \in {"dryRead", "apply"}
    BY <1>0, <1>5, <2>2 DEF Classified, VerifyInv, NotFixedYet, Untouched, PlayInv,
       InPlay, Listed, FreshInv, VouchInv, Early, Detecting, After, PublishedIsVerified,
       FixedIsVerified
  <2> QED
    BY <1>5, <2>1, <2>2 DEF Classified, Goto
<1>6. ASSUME NEW c \in Changes, Classify(c) PROVE VerifyInv'
  <2>1. /\ pc = "classify" /\ c \in todo /\ todo' = todo \ {c} /\ note[c] = "none"
        /\ edits[c] = <<>> /\ c \in Listed
        /\ \A d \in Changes : byChange'[d] = {} /\ byChange[d] = {}
        /\ UNCHANGED <<pc, live, dirty, remote, fresh, byChange, opts>>
    BY <1>0, <1>6 DEF Classify, Untouched, Detecting, Early
  <2>2. CASE Give(c, "could-not-fix", "unresolved", <<>>)
    <3>1. /\ status'[c] = "could-not-fix" /\ note'[c] = "unresolved" /\ edits'[c] = <<>>
          /\ \A d \in Changes \ {c} : /\ status'[d] = status[d] /\ note'[d] = note[d]
                                      /\ edits'[d] = edits[d]
      BY <2>2, GiveOne
    <3> QED
      BY <2>1, <3>1, VerifyLoopStep
  <2>3. CASE \E t \in Tiers : ResolveChange(c, t)
    <3>1. CASE Propose(c)
      BY <2>1, <3>1, ProposeOne, VerifyLoopStep
    <3>2. CASE Give(c, "pending", note[c], <<Target[c]>>)
      <4>1. /\ status'[c] = "pending" /\ note'[c] = note[c] /\ edits'[c] = <<Target[c]>>
            /\ \A d \in Changes \ {c} : /\ status'[d] = status[d] /\ note'[d] = note[d]
                                        /\ edits'[d] = edits[d]
        BY <3>2, GiveOne
      <4> QED
        BY <2>1, <4>1, VerifyLoopStep
    <3>3. CASE Give(c, "could-not-fix", "tier 3", edits[c])
      <4>1. /\ status'[c] = "could-not-fix" /\ note'[c] = "tier 3" /\ edits'[c] = edits[c]
            /\ \A d \in Changes \ {c} : /\ status'[d] = status[d] /\ note'[d] = note[d]
                                        /\ edits'[d] = edits[d]
        BY <3>3, GiveOne
      <4> QED
        BY <2>1, <4>1, VerifyLoopStep
    <3> QED
      BY <2>3, <3>1, <3>2, <3>3 DEF ResolveChange
  <2> QED
    BY <1>6, <2>2, <2>3 DEF Classify
<1>7. ASSUME NEW c \in Changes, ApplyTrack(c) PROVE VerifyInv'
  <2>1. /\ pc \in {"dryApply", "apply"} /\ c \in todo /\ todo' = todo \ {c}
        /\ UNCHANGED <<pc, live, dirty, remote, byChange, opts>>
    BY <1>7 DEF ApplyTrack, Skip, LeaveAlone, Write
  <2>2. /\ status[c] # "fixed"
        /\ status[c] = "applied" \/ edits[c] # <<>> => InPlay(c)
        /\ byChange[c] = {}
    BY <1>0, <1>7, <2>1 DEF ApplyTrack, NotFixedYet, PlayInv, Untouched, After, Detecting
  <2>3. CASE Skip(c)
    BY <2>1, <2>2, <2>3, VerifyLoopStep DEF Skip, LeaveAlone, InPlay
  <2>4. CASE edits[c] # <<>> /\ Give(c, "applied", note[c], edits[c])
    <3>1. /\ status'[c] = "applied" /\ note'[c] = note[c] /\ edits'[c] = edits[c]
          /\ \A d \in Changes \ {c} : /\ status'[d] = status[d] /\ note'[d] = note[d]
                                      /\ edits'[d] = edits[d]
      BY <2>4, GiveOne
    <3> QED
      BY <2>1, <2>2, <2>4, <3>1, VerifyLoopStep DEF InPlay
  <2>5. CASE ApplyFailed(c)
    <3>1. /\ status'[c] = "could-not-fix" /\ note'[c] = "apply failed" /\ edits'[c] = <<>>
          /\ \A d \in Changes \ {c} : /\ status'[d] = status[d] /\ note'[d] = note[d]
                                      /\ edits'[d] = edits[d]
      BY <2>5, GiveOne DEF ApplyFailed
    <3> QED
      BY <2>1, <2>2, <3>1, VerifyLoopStep
  <2> QED
    BY <1>7, <2>3, <2>4, <2>5 DEF ApplyTrack
<1>8. CASE DryRead
  <2>1. CASE Goto("dryApply")
    BY <1>0, <1>8, <2>1 DEF DryRead, Goto, VerifyInv, NotFixedYet, Untouched, PlayInv,
       InPlay, Listed, FreshInv, VouchInv, Early, Detecting, After, PublishedIsVerified,
       FixedIsVerified
  <2> QED
    BY <1>8, <2>1, VerifyStop DEF DryRead, Stop
<1>9. CASE DryRestore
  BY <1>9, VerifyStop DEF DryRestore, Stop
<1>10. ASSUME NEW c \in Changes, ApplyPending(c) PROVE VerifyInv'
  <2>1. /\ pc = "apply" /\ opts.push = "git" /\ c \in todo /\ todo' = todo \ {c}
        /\ UNCHANGED <<pc, live, dirty, remote, opts>>
    BY <1>10 DEF ApplyPending, Skip, LeaveAlone, Write
  <2>2. /\ status[c] # "fixed"
        /\ status[c] = "applied" \/ edits[c] # <<>> => InPlay(c)
        /\ byChange[c] # {} => InPlay(c)
    BY <1>0, <2>1 DEF NotFixedYet, PlayInv, After
  <2>3. CASE Skip(c)
    BY <2>1, <2>2, <2>3, VerifyLoopStep DEF Skip, LeaveAlone, InPlay
  <2>4. CASE /\ edits[c] # <<>> /\ UNCHANGED verdicts
             /\ byChange' = [byChange EXCEPT ![c] = FilesOf(edits[c])]
    <3>1. \A d \in Changes \ {c} : byChange'[d] = byChange[d]
      BY <2>4 DEF TypeOK, TreeOK
    <3> QED
      BY <2>1, <2>2, <2>4, <3>1, VerifyLoopStep DEF InPlay
  <2>5. CASE ApplyFailed(c) /\ byChange' = [byChange EXCEPT ![c] = {}]
    <3>1. byChange'[c] = {} /\ \A d \in Changes \ {c} : byChange'[d] = byChange[d]
      BY <2>5 DEF TypeOK, TreeOK
    <3>2. /\ status'[c] = "could-not-fix" /\ note'[c] = "apply failed" /\ edits'[c] = <<>>
          /\ \A d \in Changes \ {c} : /\ status'[d] = status[d] /\ note'[d] = note[d]
                                      /\ edits'[d] = edits[d]
      BY <2>5, GiveOne DEF ApplyFailed
    <3> QED
      BY <2>1, <2>2, <3>1, <3>2, VerifyLoopStep
  <2> QED
    BY <1>10, <2>3, <2>4, <2>5 DEF ApplyPending
<1>11. CASE FmtValidate
  <2>1. /\ pc = "apply"
        /\ UNCHANGED <<opts, live, status, note, edits, byChange, dirty, fresh, remote>>
    BY <1>11 DEF FmtValidate
  <2>2. CASE pc' = "done"
    BY <2>1, <2>2, VerifyStop
  <2>3. CASE pc' = "replan"
    BY <1>0, <2>1, <2>3 DEF VerifyInv, NotFixedYet, Untouched, PlayInv, InPlay, Listed,
       FreshInv, VouchInv, Early, Detecting, After, PublishedIsVerified, FixedIsVerified
  <2>4. CASE pc' = "commit"
    <3>1. todo' = {c \in Changes : byChange[c] # {}}
      BY <1>11, <2>4 DEF FmtValidate, Goto, Stop
    <3> QED
      BY <1>0, <2>1, <2>4, <3>1 DEF VerifyInv, NotFixedYet, Untouched, PlayInv, InPlay,
         Listed, FreshInv, VouchInv, Early, Detecting, After, PublishedIsVerified,
         FixedIsVerified
  <2> QED
    BY <1>11, <2>2, <2>3, <2>4 DEF FmtValidate, Goto, Stop, AfterFormat
<1>12. ASSUME NEW c \in Changes, CommitChange(c) PROVE VerifyInv'
  <2>1. /\ pc = "commit" /\ c \in todo
        /\ UNCHANGED <<opts, live, note, edits, byChange, dirty, fresh, remote>>
    BY <1>12 DEF CommitChange
  <2>2. CASE pc' = "done"
    BY <1>12, <2>1, <2>2, VerifyStop DEF CommitChange, Stop
  <2>3. CASE /\ UNCHANGED pc /\ todo' = todo \ {c}
             /\ status' = [status EXCEPT ![c] = "applied"]
    <3>1. status'[c] = "applied" /\ \A d \in Changes \ {c} : status'[d] = status[d]
      BY <2>3 DEF TypeOK, ResolutionOK
    <3>2. InPlay(c)
      BY <1>0, <2>1 DEF PlayInv
    <3>3. NotFixedYet'
      BY <1>0, <2>1, <2>3, <3>1 DEF NotFixedYet, After
    <3>4. PlayInv'
      BY <1>0, <2>1, <2>3, <3>1, <3>2 DEF PlayInv, InPlay, Listed, After
    <3>5. VouchInv' /\ Untouched' /\ FreshInv'
      BY <1>0, <2>1, <2>3, <3>3 DEF NotFixedYet, VouchInv, FixedIsVerified, Untouched,
         FreshInv, PublishedIsVerified, Early, Detecting, After
    <3> QED
      BY <3>3, <3>4, <3>5 DEF VerifyInv
  <2> QED
    BY <1>12, <2>2, <2>3 DEF CommitChange, Stop
<1>13. CASE Committed
  BY <1>0, <1>13 DEF Committed, Goto, VerifyInv, NotFixedYet, Untouched, PlayInv, InPlay,
     Listed, FreshInv, VouchInv, Early, Detecting, After, PublishedIsVerified,
     FixedIsVerified
<1>14. CASE Replan
  <2>1. /\ pc = "replan"
        /\ UNCHANGED <<opts, live, status, note, edits, byChange, remote>>
    BY <1>14 DEF Replan
  <2>2. CASE pc' = "done"
    BY <1>14, <2>1, <2>2, VerifyStop DEF Replan, Goto
  <2>3. CASE pc' \in {"finalize", "retry"}
    <3>1. fresh' = TRUE /\ (pc' = "finalize" => dirty' = {})
      BY <1>14, <2>3 DEF Replan, Goto, Stop
    <3>2. NotFixedYet' /\ Untouched' /\ PlayInv' /\ FreshInv'
      BY <1>0, <2>1, <2>3, <3>1 DEF NotFixedYet, Untouched, PlayInv, InPlay, Listed,
         FreshInv, PublishedIsVerified, Early, Detecting, After
    <3>3. VouchInv'
      BY <2>3, <3>1, <3>2 DEF NotFixedYet, VouchInv, FixedIsVerified, Vouched, After
    <3> QED
      BY <3>2, <3>3 DEF VerifyInv
  <2> QED
    BY <1>14, <2>2, <2>3 DEF Replan, Goto, Stop
<1>15. ASSUME NEW c \in Changes, Retry(c) PROVE VerifyInv'
  <2>1. /\ pc = "retry" /\ c \in todo /\ todo' = todo \ {c}
        /\ UNCHANGED <<pc, live, dirty, remote, opts, fresh, byChange>>
    BY <1>15 DEF Retry
  <2>2. /\ status[c] # "fixed"
        /\ status[c] = "applied" \/ edits[c] # <<>> => InPlay(c)
        /\ byChange[c] # {} => opts.push = "git"
    BY <1>0, <2>1 DEF NotFixedYet, PlayInv, After, TypeOK, DecisionOK
  <2>3. CASE UNCHANGED verdicts
    BY <2>1, <2>2, <2>3, VerifyLoopStep DEF InPlay
  <2>4. CASE Give(c, "remaining", "still drifted", <<>>)
    <3>1. /\ status'[c] = "remaining" /\ note'[c] = "still drifted" /\ edits'[c] = <<>>
          /\ \A d \in Changes \ {c} : /\ status'[d] = status[d] /\ note'[d] = note[d]
                                      /\ edits'[d] = edits[d]
      BY <2>4, GiveOne
    <3> QED
      BY <2>1, <2>2, <3>1, VerifyLoopStep
  <2>5. CASE Retriable(c) /\ Propose(c)
    BY <2>1, <2>2, <2>5, ProposeOne, VerifyLoopStep DEF InPlay, Retriable
  <2> QED
    BY <1>15, <2>3, <2>4, <2>5 DEF Retry
<1>16. CASE Retried
  <2>1. /\ pc = "retry"
        /\ UNCHANGED <<opts, live, status, edits, dirty, fresh, remote>>
    BY <1>16 DEF Retried
  <2>2. CASE pc' = "apply"
    <3>1. UNCHANGED note /\ \A c \in Changes : byChange'[c] = {}
      BY <1>16, <2>2 DEF Retried, Goto
    <3> QED
      BY <1>0, <2>1, <2>2, <3>1 DEF VerifyInv, NotFixedYet, Untouched, PlayInv, InPlay,
         Listed, FreshInv, VouchInv, Early, Detecting, After, PublishedIsVerified,
         FixedIsVerified
  <2>3. CASE pc' = "finalize"
    <3>1. UNCHANGED byChange /\ \A c \in Changes : note'[c] = Marked(c)
      BY <1>16, <2>3 DEF Retried, Goto
    <3>2. NotFixedYet' /\ Untouched' /\ PlayInv' /\ FreshInv'
      BY <1>0, <2>1, <2>3, <3>1 DEF NotFixedYet, Untouched, PlayInv, FreshInv,
         PublishedIsVerified, Early, Detecting, After
    <3>3. ASSUME NEW c \in Changes, status[c] = "applied" PROVE Vouched(c)'
      <4>1. InPlay(c)
        BY <1>0, <2>1, <3>3 DEF PlayInv, After
      <4> QED
        BY <2>1, <3>1, <4>1 DEF InPlay, Marked, Vouched
    <3>4. VouchInv'
      BY <2>1, <2>3, <3>2, <3>3 DEF NotFixedYet, VouchInv, FixedIsVerified, After
    <3> QED
      BY <3>2, <3>4 DEF VerifyInv
  <2> QED
    BY <1>16, <2>2, <2>3 DEF Retried, Goto
<1>17. CASE Finalize
  <2>1. /\ pc = "finalize" /\ pc' \in {"done", "publish"}
        /\ \A c \in Changes : status'[c] = FinalStatus(c)
        /\ UNCHANGED <<opts, live, note, edits, byChange, dirty, fresh, remote>>
    BY <1>17 DEF Finalize, Stop, Goto
  <2>2. fresh /\ remote = {}
    BY <1>0, <2>1 DEF FreshInv, After
  <2>3. ASSUME NEW c \in Changes, status'[c] = "fixed"
        PROVE  ResourceOf[c] \notin dirty \/ note[c] = "proposal failed"
    <3>1. status[c] # "fixed"
      BY <1>0, <2>1 DEF NotFixedYet, After
    <3>2. status[c] = "applied" /\ note[c] \notin {"re-plan dirty", "still drifted"}
      BY <2>1, <2>3, <3>1 DEF FinalStatus, NoteStatus
    <3> QED
      BY <1>0, <2>1, <3>2 DEF VouchInv, Vouched
  <2>4. NotFixedYet' /\ Untouched' /\ FreshInv'
    BY <1>0, <2>1, <2>2 DEF NotFixedYet, Untouched, FreshInv, PublishedIsVerified, Early,
       Detecting, After
  <2>5. PlayInv'
    BY <1>0, <2>1 DEF PlayInv, After
  <2>6. VouchInv'
    BY <2>1, <2>2, <2>3 DEF VouchInv, FixedIsVerified
  <2> QED
    BY <2>4, <2>5, <2>6 DEF VerifyInv
<1>18. CASE Publish
  <2>1. /\ pc = "publish" /\ pc' \in {"done", "pr"} /\ fresh
        /\ UNCHANGED <<opts, live, status, note, edits, byChange, dirty, fresh>>
    BY <1>0, <1>18 DEF Publish, Stop, Goto, FreshInv
  <2> QED
    BY <1>0, <2>1 DEF VerifyInv, NotFixedYet, Untouched, PlayInv, FreshInv, VouchInv,
       Early, Detecting, After, PublishedIsVerified, FixedIsVerified
<1>19. CASE PullRequest
  BY <1>19, VerifyStop DEF PullRequest, PrFailed, Stop
<1>20. CASE Kill
  BY <1>20, VerifyStop DEF Kill
<1>21. CASE UNCHANGED vars
  BY <1>0, <1>21 DEF vars, VerifyInv, NotFixedYet, Untouched, PlayInv, InPlay, Listed,
     FreshInv, VouchInv, Early, Detecting, After, PublishedIsVerified, FixedIsVerified,
     Vouched
<1> QED
  BY <1>1, <1>2, <1>3, <1>4, <1>5, <1>6, <1>7, <1>8, <1>9, <1>10, <1>11, <1>12, <1>13,
     <1>14, <1>15, <1>16, <1>17, <1>18, <1>19, <1>20, <1>21
     DEF Next, Step, Decide, DryRun, Apply, Verify, Finish

\* Every state a run can reach satisfies the strengthening: the two properties
\* below are its conjuncts.
LEMMA VerifyAlways == Spec => []VerifyInv
<1>1. TypeOK /\ VerifyInv /\ TypeOK' /\ [Next]_vars => VerifyInv'
  BY VerifyNext
<1> QED
  BY <1>1, VerifyInit, TypeCorrect, PTL DEF Spec

\* A change is called fixed only on the word of a re-plan that follows the last
\* write (verifyLoop, markDirty and finalizeStatuses), but for the change whose
\* retry got no proposal.
THEOREM FixedOnlyVerified == Spec => []FixedIsVerified
<1>1. VerifyInv => FixedIsVerified
  BY DEF VerifyInv, VouchInv
<1> QED
  BY <1>1, VerifyAlways, PTL

\* No write is newer than the last re-plan once a branch has been published.
THEOREM PublishedOnlyVerified == Spec => []PublishedIsVerified
<1>1. VerifyInv => PublishedIsVerified
  BY DEF VerifyInv, FreshInv
<1> QED
  BY <1>1, VerifyAlways, PTL
=============================================================================
