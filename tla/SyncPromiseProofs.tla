--------------------------- MODULE SyncPromiseProofs ---------------------------
(***************************************************************************)
(* What one sync run promises to the outside, with TLAPS proofs: the retry *)
(* budget, the dry run, the exit codes, the published branch, and that     *)
(* SyncRun implements Reconcile.                                           *)
(***************************************************************************)
EXTENDS SyncRunProofs

-----------------------------------------------------------------------------
(* The retry budget. *)

RetryInv ==
  /\ attempt <= MaxRetries
  /\ pc = "retry" /\ retried => attempt < MaxRetries
  /\ \A w \in writes : w.round <= MaxRetries

LEMMA RetryWrite ==
  ASSUME TypeOK, RetryInv, NEW c \in Changes, NEW k \in AppliedCounts(c), Write(c, k),
         UNCHANGED <<pc, attempt, retried>>
  PROVE  RetryInv'
  BY WrittenTyped DEF RetryInv, Write

LEMMA RetryNext == TypeOK /\ RetryInv /\ [Next]_vars => RetryInv'
<1> SUFFICES ASSUME TypeOK, RetryInv, [Next]_vars PROVE RetryInv'
  OBVIOUS
<1> USE DEF setup, verdicts, tree, replan, outcome
<1>1. ASSUME NEW c \in Changes, ApplyTrack(c) \/ ApplyPending(c) PROVE RetryInv'
  <2>1. CASE Skip(c)
    BY <1>1, <2>1 DEF ApplyTrack, ApplyPending, Skip, LeaveAlone, RetryInv
  <2>2. CASE \E k \in AppliedCounts(c) : Write(c, k)
    BY <1>1, <2>2, RetryWrite DEF ApplyTrack, ApplyPending
  <2>3. ApplyTrack(c) => Skip(c) \/ \E k \in AppliedCounts(c) : Write(c, k)
    BY DEF ApplyTrack
  <2>4. ApplyPending(c) => Skip(c) \/ \E k \in AppliedCounts(c) : Write(c, k)
    BY DEF ApplyPending
  <2> QED
    BY <1>1, <2>1, <2>2, <2>3, <2>4
<1>2. CASE Replan
  BY <1>2 DEF Replan, Stop, Goto, RetryInv
<1>3. ASSUME NEW c \in Changes, Retry(c) PROVE RetryInv'
  <2>1. /\ UNCHANGED <<pc, attempt, writes>>
        /\ UNCHANGED retried \/ ~OutOfRetries
    BY <1>3 DEF Retry
  <2>2. ~OutOfRetries => attempt < MaxRetries
    BY MaxRetriesAssumption DEF OutOfRetries, TypeOK
  <2> QED
    BY <2>1, <2>2 DEF RetryInv
<1>4. CASE Retried
  BY <1>4, MaxRetriesAssumption DEF Retried, NextRound, Goto, RetryInv, TypeOK
<1>5. CASE DryRestore
  BY <1>5 DEF DryRestore, Stop, RetryInv
<1>6. CASE UNCHANGED <<attempt, retried, writes>> /\ (pc' # "retry" \/ UNCHANGED pc)
  BY <1>6 DEF RetryInv
<1>7. ASSUME NEW c \in Changes, Classify(c) \/ CommitChange(c)
      PROVE  UNCHANGED <<attempt, retried, writes>> /\ (pc' # "retry" \/ UNCHANGED pc)
  BY <1>7 DEF Classify, CommitChange, Stop
<1>8. ASSUME Detect \/ Report \/ Trust \/ ClassifyFails \/ Classified \/ DryRead
               \/ FmtValidate \/ Committed \/ Finalize \/ Publish \/ PullRequest \/ Kill
      PROVE  UNCHANGED <<attempt, retried, writes>> /\ pc' # "retry"
  BY <1>8 DEF Detect, Report, Trust, ClassifyFails, Classified, DryRead, FmtValidate,
     AfterFormat, Committed, Finalize, Publish, PullRequest, PrFailed, Kill, Stop, Goto
<1>9. CASE UNCHANGED vars
  BY <1>9 DEF vars, RetryInv
<1> QED
  BY <1>1, <1>2, <1>3, <1>4, <1>5, <1>6, <1>7, <1>8, <1>9
     DEF Next, Step, Decide, DryRun, Apply, Verify, Finish

\* However long the re-plan stays dirty, no edit is applied in a round beyond
\* max_retries: verifyLoop asks the server again only while attempts are left.
THEOREM RetriesBounded == Spec => []RetryBudget
<1>1. Init => RetryInv
  BY MaxRetriesAssumption DEF Init, RetryInv
<1>2. TypeOK /\ TypeOK' /\ RetryInv /\ [Next]_vars => RetryInv'
  BY RetryNext
<1>3. RetryInv => RetryBudget
  BY DEF RetryInv, RetryBudget
<1> QED
  BY <1>1, <1>2, <1>3, TypeCorrect, PTL DEF Spec

-----------------------------------------------------------------------------
(* The dry run and the exit codes.  The files a dry run may write are those   *)
(* it has saved, because a change has edits only if the slice holds it.       *)

Decided == Early \cup {"classify", "dryRead"}
Saved ==
  /\ uncommitted \subseteq originals
  /\ \A w \in writes : w.edit.file \in originals
  /\ \A c \in Changes : FilesOf(edits[c]) \subseteq originals
TidyInv ==
  /\ pc \in Early => live = {}
  /\ pc \in Decided => writes = {} /\ uncommitted = {}
  /\ pc \in Detecting => committed = {}
  /\ pc \notin {"done", "killed"} => pr = "none"
  /\ pc \in {"dryRead", "dryApply"} => opts.dryRun
  /\ opts.dryRun => pc \in Detecting \cup {"done", "killed"}
  /\ pc = "dryApply" => Saved
  /\ DryRunRestores
  /\ ExitCodes

\* Before anything is written.
LEMMA TidyEarly ==
  ASSUME TidyInv, FreshInv, pc \in Early \cup {"classify"},
         UNCHANGED <<opts, writes, uncommitted, committed, remote, pr>>,
         pc' \in Early => live' = {},
         pc' \in Decided \cup {"apply", "done"},
         pc' = "dryRead" => opts.dryRun, pc' = "apply" => ~opts.dryRun
  PROVE  TidyInv'
  BY DEF TidyInv, FreshInv, Decided, Early, Detecting, After, DryRunRestores, ExitCodes

\* In a run that is not a dry run.
LEMMA TidyReal ==
  ASSUME TidyInv, ~opts.dryRun, UNCHANGED opts, pc' \notin Detecting,
         pc' \notin {"done", "killed"} => pr' = "none",
         pc' = "done" => exit' = 1 \/ (exit' = 2 /\ (~opts.openPR \/ pr' # "none"))
  PROVE  TidyInv'
  BY DEF TidyInv, Decided, Early, Detecting, DryRunRestores, ExitCodes

\* patch.Apply in a dry run stays within the saved files.
LEMMA SavedWrite ==
  ASSUME TypeOK, Saved, NEW c \in Changes, NEW k \in AppliedCounts(c), Write(c, k),
         UNCHANGED originals, UNCHANGED edits \/ ApplyFailed(c)
  PROVE  Saved'
<1>1. edits[c] \in Seq(Edits) /\ k \in 0..Len(edits[c])
  BY DEF TypeOK, ResolutionOK, AppliedCounts
<1>2. \A w \in Written(c, k) : w.edit.file \in originals
  BY <1>1, WrittenTyped DEF Saved, FilesOf
<1>3. \A w \in writes' : w.edit.file \in originals
  BY <1>2 DEF Write, Saved
<1>4. uncommitted' \subseteq originals
  <2>1. \A D \in SUBSET {w.edit.file : w \in {x \in Written(c, k) : x.edit.op = "set"}} :
          D \subseteq originals
    BY <1>2
  <2> QED
    BY <1>2, <2>1 DEF Write, MayDiffer, Saved
<1>5. \A d \in Changes : edits'[d] = edits[d] \/ edits'[d] = <<>>
  BY DEF ApplyFailed, Give, TypeOK, ResolutionOK
<1>6. \A d \in Changes : FilesOf(edits[d])' \subseteq originals
  BY <1>5 DEF FilesOf, Saved
<1> QED
  BY <1>3, <1>4, <1>6 DEF Saved

LEMMA TidyNext ==
  TypeOK /\ VerifyInv /\ TidyInv /\ [Next]_vars => TidyInv'
<1> SUFFICES ASSUME TypeOK, VerifyInv, TidyInv, [Next]_vars PROVE TidyInv'
  OBVIOUS
<1> USE DEF setup, verdicts, tree, replan, outcome
<1>0. FreshInv /\ PlayInv /\ opts.dryRun \in BOOLEAN /\ opts.openPR \in BOOLEAN
  BY DEF VerifyInv, TypeOK, DecisionOK
<1>r. pc \notin Detecting \cup {"done", "killed"} => ~opts.dryRun /\ pr = "none"
  BY DEF TidyInv, Detecting, Early
<1>1. ASSUME Detect \/ Report \/ Trust \/ ClassifyFails \/ Classified
      PROVE  TidyInv'
  <2>1. /\ pc \in Early \cup {"classify"}
        /\ UNCHANGED <<opts, writes, uncommitted, committed, remote, pr>>
    BY <1>1 DEF Detect, Report, Trust, ClassifyFails, Classified, Early
  <2>2. /\ pc' \in {"report", "trust", "classify", "dryRead", "apply", "done"}
        /\ pc' \in Early => live' = live
        /\ pc = "classify" => pc' \notin Early
        /\ pc' = "dryRead" => opts.dryRun
        /\ pc' = "apply" => ~opts.dryRun
    BY <1>1 DEF Detect, Report, Trust, ClassifyFails, Classified, Early, Stop, Goto
  <2>3. pc' \in Early => live' = {}
    BY <2>1, <2>2 DEF TidyInv
  <2> QED
    BY <1>0, <2>1, <2>2, <2>3, TidyEarly DEF Decided, Early
<1>2. ASSUME NEW c \in Changes, Classify(c) PROVE TidyInv'
  BY <1>0, <1>2, TidyEarly DEF Classify, Decided, Early
<1>3. CASE DryRead
  <2>1. /\ pc = "dryRead" /\ writes' = {} /\ uncommitted' = {} /\ committed' = {}
        /\ opts.dryRun /\ UNCHANGED <<opts, edits, live, remote, pr>>
        /\ remote = {} /\ pr = "none"
    BY <1>0, <1>3 DEF DryRead, TidyInv, Decided, Detecting, Early, FreshInv, After
  <2>2. CASE pc' = "done"
    BY <1>3, <2>1, <2>2 DEF DryRead, Stop, Goto, TidyInv, Decided, Detecting, Early,
       DryRunRestores, ExitCodes
  <2>3. CASE pc' = "dryApply"
    <3>1. originals' = Named
      BY <1>3, <2>3 DEF DryRead, Stop
    <3>2. ASSUME NEW c \in Changes PROVE FilesOf(edits[c]) \subseteq Named
      <4>1. CASE edits[c] = <<>>
        BY <4>1 DEF FilesOf
      <4>2. CASE c \in Listed
        BY <4>2 DEF Named
      <4> QED
        BY <1>0, <2>1, <4>1, <4>2 DEF PlayInv, InPlay, After
    <3>3. Saved'
      BY <2>1, <3>1, <3>2 DEF Saved, FilesOf
    <3> QED
      BY <2>1, <2>3, <3>3 DEF TidyInv, Decided, Detecting, Early, DryRunRestores, ExitCodes
  <2> QED
    BY <1>3, <2>2, <2>3 DEF DryRead, Stop, Goto
<1>4. ASSUME NEW c \in Changes, ApplyTrack(c) PROVE TidyInv'
  <2>1. UNCHANGED <<pc, opts, live, originals, committed, remote, pr, exit>>
    BY <1>4 DEF ApplyTrack
  <2>2. CASE pc = "apply"
    BY <1>r, <2>1, <2>2, TidyReal DEF Detecting, Early
  <2>3. CASE pc = "dryApply"
    <3>1. CASE Skip(c)
      BY <2>1, <2>3, <3>1 DEF Skip, LeaveAlone, TidyInv, Saved, FilesOf, Decided,
         Detecting, Early, DryRunRestores, ExitCodes
    <3>2. CASE \E k \in AppliedCounts(c) :
                 /\ Write(c, k)
                 /\ Give(c, "applied", note[c], edits[c]) \/ ApplyFailed(c)
      <4>1. Give(c, "applied", note[c], edits[c]) => UNCHANGED edits
        BY DEF Give, TypeOK, ResolutionOK
      <4>2. Saved
        BY <2>3 DEF TidyInv
      <4>3. Saved'
        BY <2>1, <3>2, <4>1, <4>2, SavedWrite
      <4> QED
        BY <2>1, <2>3, <4>3 DEF TidyInv, Decided, Detecting, Early, DryRunRestores,
           ExitCodes
    <3> QED
      BY <1>4, <3>1, <3>2 DEF ApplyTrack
  <2> QED
    BY <1>4, <2>2, <2>3 DEF ApplyTrack
<1>5. CASE DryRestore
  <2>1. /\ pc' = "done" /\ exit' \in {1, 2} /\ writes' = {} /\ uncommitted' = {}
        /\ UNCHANGED <<opts, committed, remote, pr>>
    BY <1>5 DEF DryRestore, Stop, TidyInv, Saved
  <2>2. committed = {} /\ remote = {} /\ pr = "none"
    BY <1>0, <1>5 DEF DryRestore, TidyInv, FreshInv, Detecting, After
  <2> QED
    BY <2>1, <2>2 DEF TidyInv, Decided, Detecting, Early, DryRunRestores, ExitCodes
<1>6. ASSUME NEW c \in Changes, ApplyPending(c) \/ CommitChange(c) \/ Retry(c)
      PROVE  TidyInv'
  <2>1. /\ pc \in {"apply", "commit", "retry"}
        /\ UNCHANGED <<opts, pr>>
        /\ UNCHANGED pc \/ (pc' = "done" /\ exit' = 1)
    BY <1>6 DEF ApplyPending, CommitChange, Retry, Stop
  <2> QED
    BY <1>r, <2>1, TidyReal DEF Detecting, Early
<1>7. ASSUME FmtValidate \/ Committed \/ Replan \/ Retried PROVE TidyInv'
  <2>1. /\ pc \in {"apply", "commit", "replan", "retry"}
        /\ UNCHANGED <<opts, pr>>
        /\ pc' \in {"replan", "commit", "retry", "apply", "finalize"}
           \/ (pc' = "done" /\ exit' = 1)
    BY <1>7 DEF FmtValidate, AfterFormat, Committed, Replan, Retried, Stop, Goto
  <2> QED
    BY <1>r, <2>1, TidyReal DEF Detecting, Early
<1>8. ASSUME Finalize \/ Publish \/ PullRequest PROVE TidyInv'
  <2>1. /\ pc \in {"finalize", "publish", "pr"} /\ UNCHANGED opts
        /\ pc' \in {"publish", "pr"} => pr' = pr
        /\ \/ pc' \in {"publish", "pr"}
           \/ /\ pc' = "done"
              /\ exit' = 1 \/ (exit' = 2 /\ (~opts.openPR \/ pr' # "none"))
    BY <1>8 DEF Finalize, Publish, PullRequest, PrFailed, Stop, Goto
  <2> QED
    BY <1>r, <2>1, TidyReal DEF Detecting, Early
<1>9. CASE Kill
  <2>1. pc' = "killed" /\ UNCHANGED <<opts, committed, remote, pr>>
    BY <1>9 DEF Kill
  <2> QED
    BY <2>1 DEF TidyInv, Decided, Detecting, Early, DryRunRestores, ExitCodes
<1>10. CASE UNCHANGED vars
  BY <1>10 DEF vars, TidyInv, Saved, FilesOf, Decided, Detecting, Early, DryRunRestores,
     ExitCodes
<1> QED
  BY <1>1, <1>2, <1>3, <1>4, <1>5, <1>6, <1>7, <1>8, <1>9, <1>10
     DEF Next, Step, Decide, DryRun, Apply, Verify, Finish

LEMMA TidyAlways == Spec => []TidyInv
<1>1. Init => TidyInv
  BY DEF Init, TidyInv, Decided, Detecting, Early, DryRunRestores, ExitCodes
<1> QED
  BY <1>1, TidyNext, TypeCorrect, VerifyAlways, PTL DEF Spec

\* A dry run that returns has taken back every byte it wrote, whichever of its
\* calls failed: dryRunApply has saved every file that an edit names.
THEOREM DryRunLeavesNothing == Spec => []DryRunRestores
<1>1. TidyInv => DryRunRestores
  BY DEF TidyInv
<1> QED
  BY <1>1, TidyAlways, PTL

\* The exit code tells a scheduler the truth about the tree and the pull request.
THEOREM ExitCodesTellTruth == Spec => []ExitCodes
<1>1. TidyInv => ExitCodes
  BY DEF TidyInv
<1> QED
  BY <1>1, TidyAlways, PTL

-----------------------------------------------------------------------------
(* What the published branch holds.  In git mode a write is committed, or due *)
(* for the commit of its change in the current round, or stranded: its change *)
(* has lost its edits and is never called fixed.                              *)

Stranded(c) == edits[c] = <<>> /\ status[c] \notin {"applied", "fixed"}
Due(w) ==
  /\ pc = "apply" \/ (pc = "commit" /\ w.by \in todo)
  /\ w.edit.file \in byChange[w.by]
Committing == {"apply", "commit", "replan", "retry", "finalize", "publish"}
Accounted(w) == w \in committed \/ Stranded(w.by) \/ Due(w)
TraceInv ==
  /\ committed \subseteq writes
  /\ pc \notin After => \A c \in Changes : status[c] = "applied" => c \in Listed
  /\ opts.push = "api" => \A w \in writes : w.edit.file \in touched
  /\ opts.push = "git" /\ pc = "apply" => \A c \in todo : byChange[c] = {}
  /\ opts.push = "git" /\ pc \in {"apply", "commit"} =>
       \A c \in Changes : byChange[c] # {} => edits[c] # <<>>
  /\ opts.push = "git" /\ pc \in Committing => \A w \in writes : Accounted(w)
  /\ pc = "pr" => \A w \in writes : status[w.by] = "fixed" => w \in remote
  /\ FixedIsPublished

\* A step that ends the run, or leaves the tree and the verdicts as they are.
LEMMA TraceEnd ==
  ASSUME TraceInv, pc' \in {"done", "killed"},
         UNCHANGED <<opts, writes, touched, committed, status, remote>>,
         UNCHANGED pr \/ pc = "pr"
  PROVE  TraceInv'
  BY DEF TraceInv, Committing, After, FixedIsPublished

\* One iteration of the loops over c that write nothing.
LEMMA TraceLoop ==
  ASSUME TypeOK, TraceInv, NEW c \in Changes,
         pc \in {"classify", "dryApply", "apply", "retry"},
         pc = "apply" => UNCHANGED edits,
         UNCHANGED <<pc, opts, live, writes, touched, committed, byChange, remote, pr>>,
         pr = "none", todo' = todo \ {c},
         \A d \in Changes \ {c} : status'[d] = status[d] /\ edits'[d] = edits[d],
         \/ status'[c] = status[c] /\ edits'[c] = edits[c]
         \/ status'[c] # "applied"
            /\ (edits[c] # <<>> \/ writes = {} \/ (edits'[c] = <<>> /\ status'[c] # "fixed"))
  PROVE  TraceInv'
<1>1. (\A d \in Changes : status[d] = "applied" => d \in Listed)'
  BY DEF TraceInv, Listed, After
<1>2. (opts.push = "git" /\ pc \in Committing => \A w \in writes : Accounted(w))'
  <2> SUFFICES ASSUME opts.push = "git", pc \in Committing, NEW w \in writes
               PROVE  Accounted(w)'
    OBVIOUS
  <2>1. Accounted(w) /\ w.by \in Changes
    BY DEF TraceInv, TypeOK, TreeOK, Writes
  <2>2. CASE w \in committed
    BY <2>2 DEF Accounted
  <2>3. CASE Due(w)
    BY <2>3 DEF Accounted, Due
  <2>4. CASE Stranded(w.by)
    BY <2>1, <2>4 DEF Accounted, Stranded
  <2> QED
    BY <2>1, <2>2, <2>3, <2>4 DEF Accounted
<1> QED
  BY <1>1, <1>2 DEF TraceInv, FixedIsPublished

\* The tree after patch.Apply has written the first k edits of c.
LEMMA TraceWrite ==
  ASSUME TypeOK, TraceInv, NEW c \in Changes, NEW k \in AppliedCounts(c), Write(c, k),
         pc \in {"dryApply", "apply"}, pr = "none",
         UNCHANGED <<pc, opts, live, committed, remote, pr>>, c \in Listed, c \in todo,
         \A d \in Changes \ {c} : /\ status'[d] = status[d] /\ edits'[d] = edits[d]
                                  /\ byChange'[d] = byChange[d],
         opts.push = "api" => touched' = touched \cup Done(c, k),
         opts.push = "git" /\ pc = "apply" =>
            /\ edits[c] # <<>>
            /\ \/ (edits'[c] = <<>> /\ status'[c] \notin {"applied", "fixed"})
                  /\ byChange'[c] = {}
               \/ UNCHANGED edits /\ byChange'[c] = FilesOf(edits[c])
  PROVE  TraceInv'
<1>1. edits[c] \in Seq(Edits) /\ k \in 0..Len(edits[c])
  BY DEF TypeOK, ResolutionOK, AppliedCounts
<1>2. \A w \in Written(c, k) : /\ w.by = c /\ w.edit.file \in FilesOf(edits[c])
                               /\ w.edit.file \in Done(c, k)
  BY <1>1, WrittenTyped DEF FilesOf, Done
<1>3. (\A d \in Changes : status[d] = "applied" => d \in Listed)'
  BY DEF TraceInv, Listed, After
<1>4. (opts.push = "api" => \A w \in writes : w.edit.file \in touched)'
  BY <1>2 DEF TraceInv, Write
<1>5. (opts.push = "git" /\ pc = "apply" => \A d \in todo : byChange[d] = {})'
  BY DEF TraceInv, Write, TypeOK, ControlOK
<1>6. (opts.push = "git" /\ pc \in Committing => \A w \in writes : Accounted(w))'
  <2> SUFFICES ASSUME opts.push = "git", pc = "apply", NEW w \in writes'
               PROVE  Accounted(w)'
    BY DEF Committing
  <2>1. CASE w \in Written(c, k)
    BY <1>2, <2>1 DEF Accounted, Stranded, Due
  <2>2. CASE w \in writes
    <3>1. Accounted(w) /\ w.by \in Changes
      BY <2>2 DEF TraceInv, Committing, TypeOK, TreeOK, Writes
    <3>2. CASE w.by # c
      BY <3>1, <3>2 DEF Accounted, Stranded, Due
    <3>3. CASE w.by = c
      <4>1. byChange[c] = {}
        BY DEF TraceInv
      <4>2. w \in committed
        BY <3>1, <3>3, <4>1 DEF Accounted, Stranded, Due
      <4> QED
        BY <4>2 DEF Accounted
    <3> QED
      BY <3>2, <3>3
  <2> QED
    BY <2>1, <2>2 DEF Write
<1>7. (committed \subseteq writes)'
  BY DEF TraceInv, Write
<1>8. (opts.push = "git" /\ pc \in {"apply", "commit"} =>
         \A d \in Changes : byChange[d] # {} => edits[d] # <<>>)'
  BY DEF TraceInv
<1> QED
  BY <1>3, <1>4, <1>5, <1>6, <1>7, <1>8 DEF TraceInv, FixedIsPublished

LEMMA TraceNext ==
  TypeOK /\ VerifyInv /\ TidyInv /\ TraceInv /\ [Next]_vars => TraceInv'
<1> SUFFICES ASSUME TypeOK, VerifyInv, TidyInv, TraceInv, [Next]_vars PROVE TraceInv'
  OBVIOUS
<1> USE DEF setup, verdicts, tree, replan, outcome
<1>0. /\ PlayInv /\ Untouched /\ opts.push \in {"api", "git"}
      /\ pc \notin {"done", "killed"} => pr = "none"
  BY DEF VerifyInv, TidyInv, TypeOK, DecisionOK
<1>1. ASSUME Detect \/ Report \/ Trust \/ ClassifyFails \/ Classified \/ DryRead
      PROVE  TraceInv'
  <2>1. /\ pc \in Decided /\ writes = {} /\ committed = {} /\ pr = "none"
        /\ UNCHANGED <<opts, writes, committed, status, touched, byChange, remote, pr>>
    BY <1>0, <1>1 DEF Detect, Report, Trust, ClassifyFails, Classified, DryRead, TidyInv,
       TraceInv, Decided, Early
  <2>2. CASE pc' = "done"
    BY <2>1, <2>2, TraceEnd
  <2>3. CASE pc' \in {"report", "trust", "classify", "dryRead", "dryApply", "apply"}
    <3>1. \A c \in Changes : byChange'[c] = {}
      BY <1>0, <2>1 DEF Untouched, Decided, Detecting
    <3>2. (\A c \in Changes : status[c] = "applied" => c \in Listed)'
      <4>1. CASE pc \in Early
        BY <1>0, <2>1, <4>1 DEF Untouched
      <4>2. CASE pc \notin Early /\ UNCHANGED live
        BY <2>1, <4>2 DEF TraceInv, Listed, Decided, After
      <4> QED
        BY <1>1, <4>1, <4>2 DEF Detect, Report, Trust, ClassifyFails, Classified, DryRead,
           Early
    <3>3. todo' \subseteq Changes
      BY <1>1 DEF Detect, Report, Trust, ClassifyFails, Classified, DryRead, TypeOK,
         ControlOK, Listed
    <3> QED
      BY <2>1, <2>3, <3>1, <3>2, <3>3 DEF TraceInv, FixedIsPublished
  <2> QED
    BY <1>1, <2>2, <2>3 DEF Detect, Report, Trust, ClassifyFails, Classified, DryRead,
       Stop, Goto
<1>2. ASSUME NEW c \in Changes, Classify(c) PROVE TraceInv'
  <2>1. /\ pc = "classify" /\ writes = {} /\ pr = "none" /\ todo' = todo \ {c}
        /\ note[c] \in {"none", "proposal failed"}
        /\ UNCHANGED <<pc, opts, live, writes, touched, committed, byChange, remote, pr>>
    BY <1>0, <1>2 DEF Classify, TidyInv, Decided, Untouched
  <2>2. /\ status'[c] # "applied"
        /\ \A d \in Changes \ {c} : status'[d] = status[d] /\ edits'[d] = edits[d]
    <3>1. CASE Propose(c)
      BY <2>1, <3>1, ProposeOne
    <3>2. CASE \E n, es : Give(c, "could-not-fix", n, es) \/ Give(c, "pending", n, es)
      BY <3>2, GiveOne
    <3> QED
      BY <1>2, <3>1, <3>2 DEF Classify, ResolveChange
  <2> QED
    BY <2>1, <2>2, TraceLoop
<1>3. ASSUME NEW c \in Changes, ApplyTrack(c) PROVE TraceInv'
  <2>1. /\ pc \in {"dryApply", "apply"} /\ c \in todo /\ pr = "none"
        /\ pc = "apply" => opts.push # "git"
        /\ UNCHANGED <<pc, opts, live, byChange, committed, remote, pr>>
    BY <1>0, <1>3 DEF ApplyTrack, Skip, LeaveAlone
  <2>2. CASE Skip(c)
    BY <2>1, <2>2, TraceLoop DEF Skip, LeaveAlone
  <2>3. ASSUME edits[c] # <<>>,
               NEW k \in AppliedCounts(c), Write(c, k), touched' = touched \cup Done(c, k),
               Give(c, "applied", note[c], edits[c]) \/ ApplyFailed(c)
        PROVE  TraceInv'
    <3>1. c \in Listed
      BY <1>0, <2>1, <2>3 DEF PlayInv, InPlay, After
    <3>2. \A d \in Changes \ {c} : status'[d] = status[d] /\ edits'[d] = edits[d]
      BY <2>3, GiveOne DEF ApplyFailed
    <3> QED
      BY <2>1, <2>3, <3>1, <3>2, TraceWrite
  <2> QED
    BY <1>3, <2>2, <2>3 DEF ApplyTrack
<1>4. CASE DryRestore
  <2>1. /\ pc' = "done" /\ pr' = "none" /\ writes' = {} /\ committed' = {}
    BY <1>0, <1>4 DEF DryRestore, Stop, TidyInv, Saved, Detecting
  <2> QED
    BY <2>1 DEF TraceInv, Committing, After, FixedIsPublished
<1>5. ASSUME NEW c \in Changes, ApplyPending(c) PROVE TraceInv'
  <2>1. /\ pc = "apply" /\ opts.push = "git" /\ c \in todo /\ pr = "none"
        /\ UNCHANGED <<pc, opts, live, committed, remote, pr>>
    BY <1>0, <1>5 DEF ApplyPending, Skip, LeaveAlone
  <2>2. CASE Skip(c)
    BY <2>1, <2>2, TraceLoop DEF Skip, LeaveAlone
  <2>3. ASSUME edits[c] # <<>>,
               NEW k \in AppliedCounts(c), Write(c, k),
               \/ /\ byChange' = [byChange EXCEPT ![c] = FilesOf(edits[c])]
                  /\ UNCHANGED verdicts
               \/ byChange' = [byChange EXCEPT ![c] = {}] /\ ApplyFailed(c)
        PROVE  TraceInv'
    <3>1. c \in Listed
      BY <1>0, <2>1, <2>3 DEF PlayInv, InPlay, After
    <3>2. \A d \in Changes \ {c} : byChange'[d] = byChange[d]
      BY <2>3 DEF TypeOK, TreeOK
    <3>3. \A d \in Changes \ {c} : status'[d] = status[d] /\ edits'[d] = edits[d]
      BY <2>3, GiveOne DEF ApplyFailed
    <3>4. \/ /\ edits'[c] = <<>> /\ status'[c] \notin {"applied", "fixed"}
             /\ byChange'[c] = {}
          \/ UNCHANGED edits /\ byChange'[c] = FilesOf(edits[c])
      <4>1. CASE byChange' = [byChange EXCEPT ![c] = FilesOf(edits[c])] /\ UNCHANGED verdicts
        <5>1. byChange \in [Changes -> SUBSET (Files \cup {NoFile})]
          BY DEF TypeOK, TreeOK
        <5> QED
          BY <4>1, <5>1
      <4>2. CASE byChange' = [byChange EXCEPT ![c] = {}] /\ ApplyFailed(c)
        <5>1. byChange'[c] = {}
          BY <4>2 DEF TypeOK, TreeOK
        <5>2. /\ status' = [status EXCEPT ![c] = "could-not-fix"]
              /\ edits' = [edits EXCEPT ![c] = <<>>]
          BY <4>2 DEF ApplyFailed, Give
        <5>3. status'[c] = "could-not-fix" /\ edits'[c] = <<>>
          BY <5>2 DEF TypeOK, ResolutionOK
        <5> QED
          BY <5>1, <5>3
      <4> QED
        BY <2>3, <4>1, <4>2
    <3> QED
      BY <2>1, <2>3, <3>1, <3>2, <3>3, <3>4, TraceWrite
  <2> QED
    BY <1>5, <2>2, <2>3 DEF ApplyPending
<1>6. CASE FmtValidate
  <2>1. /\ pc = "apply" /\ todo = {} /\ pr = "none"
        /\ UNCHANGED <<opts, live, status, edits, writes, touched, committed, byChange,
                       remote, pr>>
    BY <1>0, <1>6 DEF FmtValidate
  <2>2. CASE pc' = "done"
    BY <2>1, <2>2, TraceEnd
  <2>3. CASE pc' = "replan"
    <3>1. opts.push = "git" => \A c \in Changes : byChange[c] = {}
      BY <1>6, <2>3 DEF FmtValidate, AfterFormat, Stop, Goto
    <3>2. opts.push = "git" => \A w \in writes : w \in committed \/ Stranded(w.by)
      BY <2>1, <3>1 DEF TraceInv, Accounted, Due, Committing, TypeOK, TreeOK, Writes
    <3> QED
      BY <2>1, <2>3, <3>2 DEF TraceInv, Accounted, Stranded, Listed, After,
         FixedIsPublished
  <2>4. CASE pc' = "commit"
    <3>1. todo' = {c \in Changes : byChange[c] # {}}
      BY <1>6, <2>4 DEF FmtValidate, Stop, Goto
    <3>2. ASSUME opts.push = "git", NEW w \in writes PROVE Accounted(w)'
      <4>1. Accounted(w) /\ w.by \in Changes
        BY <2>1, <3>2 DEF TraceInv, Committing, TypeOK, TreeOK, Writes
      <4>2. Due(w) => Due(w)'
        BY <2>1, <2>4, <3>1, <4>1 DEF Due
      <4> QED
        BY <2>1, <4>1, <4>2 DEF Accounted, Stranded
    <3> QED
      BY <2>1, <2>4, <3>2 DEF TraceInv, Listed, After, FixedIsPublished
  <2> QED
    BY <1>6, <2>2, <2>3, <2>4 DEF FmtValidate, AfterFormat, Stop, Goto
<1>7. ASSUME NEW c \in Changes, CommitChange(c) PROVE TraceInv'
  <2>1. /\ pc = "commit" /\ c \in todo /\ pr = "none"
        /\ UNCHANGED <<opts, live, edits, writes, touched, byChange, remote, pr>>
    BY <1>0, <1>7 DEF CommitChange
  <2>2. CASE Stop(1, "git commit") \/ Stop(1, "nothing to commit")
    BY <1>7, <2>1, <2>2, TraceEnd DEF CommitChange, Stop
  <2>3. CASE /\ UNCHANGED pc /\ todo' = todo \ {c}
             /\ committed' = committed \cup {w \in writes : w.edit.file \in byChange[c]}
             /\ status' = [status EXCEPT ![c] = "applied"]
    <3>1. /\ status'[c] = "applied" /\ c \in Listed
          /\ \A d \in Changes \ {c} : status'[d] = status[d]
      BY <1>0, <2>1, <2>3 DEF PlayInv, InPlay, TypeOK, ResolutionOK
    <3>2. ASSUME opts.push = "git", NEW w \in writes PROVE Accounted(w)'
      <4>1. Accounted(w) /\ w.by \in Changes
        BY <2>1, <3>2 DEF TraceInv, Committing, TypeOK, TreeOK, Writes
      <4>2. edits[c] # <<>>
        BY <1>0, <2>1, <3>2 DEF PlayInv, TraceInv
      <4>3. CASE w \in committed
        BY <2>3, <4>3 DEF Accounted
      <4>4. CASE Stranded(w.by)
        BY <2>1, <3>1, <4>1, <4>2, <4>4 DEF Accounted, Stranded
      <4>5. CASE Due(w)
        BY <2>1, <2>3, <4>5 DEF Accounted, Due
      <4> QED
        BY <4>1, <4>3, <4>4, <4>5 DEF Accounted
    <3>3. (\A d \in Changes : status[d] = "applied" => d \in Listed)'
      BY <2>1, <3>1 DEF TraceInv, Listed, After
    <3>4. (committed \subseteq writes)'
      BY <2>1, <2>3 DEF TraceInv
    <3> QED
      BY <2>1, <2>3, <3>2, <3>3, <3>4 DEF TraceInv, FixedIsPublished
  <2> QED
    BY <1>7, <2>2, <2>3 DEF CommitChange
<1>8. ASSUME Committed \/ Replan PROVE TraceInv'
  <2>1. /\ pc \in {"commit", "replan"}
        /\ pc = "commit" => todo = {}
        /\ pc' \in {"replan", "retry", "finalize", "done"} /\ pr = "none"
        /\ UNCHANGED <<opts, live, status, edits, writes, touched, committed, byChange,
                       remote, pr>>
    BY <1>0, <1>8 DEF Committed, Replan, Stop, Goto
  <2>2. opts.push = "git" => \A w \in writes : w \in committed \/ Stranded(w.by)
    BY <2>1 DEF TraceInv, Accounted, Due, Committing
  <2>3. CASE pc' # "done"
    BY <2>1, <2>2, <2>3 DEF TraceInv, Accounted, Stranded, Listed, After, FixedIsPublished
  <2> QED
    BY <2>1, <2>3, TraceEnd
<1>9. ASSUME NEW c \in Changes, Retry(c) PROVE TraceInv'
  <2>1. /\ pc = "retry" /\ c \in todo /\ pr = "none" /\ todo' = todo \ {c}
        /\ UNCHANGED <<pc, opts, live, writes, touched, committed, byChange, remote, pr>>
    BY <1>0, <1>9 DEF Retry
  <2>2. CASE UNCHANGED verdicts
    BY <2>1, <2>2, TraceLoop
  <2>3. CASE Retriable(c) /\ Give(c, "remaining", "still drifted", <<>>)
    BY <2>1, <2>3, GiveOne, TraceLoop DEF Retriable
  <2>4. CASE Retriable(c) /\ Propose(c)
    <3>1. note[c] \in {"none", "proposal failed"} /\ edits[c] # <<>>
      BY <1>0, <2>1, <2>4 DEF PlayInv, InPlay, After, Retriable
    <3> QED
      BY <2>1, <2>4, <3>1, ProposeOne, TraceLoop
  <2> QED
    BY <1>9, <2>2, <2>3, <2>4 DEF Retry
<1>10. CASE Retried
  <2>1. /\ pc = "retry" /\ pr = "none" /\ pc' \in {"apply", "finalize"}
        /\ pc' = "apply" => \A c \in Changes : byChange'[c] = {}
        /\ todo' \in SUBSET Changes
        /\ UNCHANGED <<opts, live, status, edits, writes, touched, committed, remote, pr>>
    BY <1>0, <1>10 DEF Retried, Goto, Listed, TypeOK, ControlOK
  <2>2. opts.push = "git" => \A w \in writes : w \in committed \/ Stranded(w.by)
    BY <2>1 DEF TraceInv, Accounted, Due, Committing
  <2> QED
    BY <2>1, <2>2 DEF TraceInv, Accounted, Stranded, Listed, After, FixedIsPublished
<1>11. CASE Finalize
  <2>1. /\ pc = "finalize" /\ pc' \in {"done", "publish"} /\ pr' = "none"
        /\ \A c \in Changes : status'[c] = FinalStatus(c)
        /\ UNCHANGED <<opts, edits, writes, touched, committed, remote>>
    BY <1>0, <1>11 DEF Finalize, Stop, Goto
  <2>2. ASSUME opts.push = "git", NEW w \in writes PROVE Accounted(w)'
    <3>1. w.by \in Changes /\ (w \in committed \/ Stranded(w.by))
      BY <2>1, <2>2 DEF TraceInv, Accounted, Due, Committing, TypeOK, TreeOK, Writes
    <3> QED
      BY <2>1, <3>1 DEF Accounted, Stranded, FinalStatus
  <2>3. (committed \subseteq writes)' /\ FixedIsPublished'
    BY <2>1 DEF TraceInv, FixedIsPublished
  <2> QED
    BY <2>1, <2>2, <2>3 DEF TraceInv, Committing, After
<1>12. CASE Publish
  <2>1. /\ pc = "publish" /\ pc' \in {"done", "pr"} /\ pr = "none"
        /\ UNCHANGED <<opts, status, edits, writes, touched, committed, pr>>
    BY <1>0, <1>12 DEF Publish, Stop, Goto
  <2>2. CASE pc' = "done"
    BY <2>1, <2>2 DEF TraceInv, Committing, After, FixedIsPublished
  <2>3. CASE pc' = "pr" /\ opts.push = "api"
    <3>1. remote' = {w \in writes : w.edit.file \in touched}
      BY <1>12, <2>3 DEF Publish, Stop
    <3> QED
      BY <2>1, <2>3, <3>1 DEF TraceInv, After, FixedIsPublished
  <2>4. CASE pc' = "pr" /\ opts.push = "git"
    <3>1. remote' = committed
      BY <1>12, <2>4 DEF Publish, Stop
    <3>2. \A w \in writes : w \in committed \/ Stranded(w.by)
      BY <2>1, <2>4 DEF TraceInv, Accounted, Due, Committing
    <3> QED
      BY <2>1, <2>4, <3>1, <3>2 DEF TraceInv, Stranded, Committing, After, FixedIsPublished
  <2> QED
    BY <1>0, <2>1, <2>2, <2>3, <2>4
<1>13. CASE PullRequest
  BY <1>13, TraceEnd DEF PullRequest, PrFailed, Stop
<1>14. CASE Kill
  BY <1>14, TraceEnd DEF Kill
<1>15. CASE UNCHANGED vars
  BY <1>15 DEF vars, TraceInv, Accounted, Stranded, Due, Listed, FixedIsPublished
<1> QED
  BY <1>1, <1>2, <1>3, <1>4, <1>5, <1>6, <1>7, <1>8, <1>9, <1>10, <1>11, <1>12, <1>13,
     <1>14, <1>15 DEF Next, Step, Decide, DryRun, Apply, Verify, Finish

LEMMA TraceAlways == Spec => []TraceInv
<1>1. Init => TraceInv
  BY DEF Init, TraceInv, FixedIsPublished
<1> QED
  BY <1>1, TraceNext, TypeCorrect, VerifyAlways, TidyAlways, PTL DEF Spec

\* Every write of a change that is reported as fixed is on the published branch,
\* in api mode (the touched files) and in git mode (the commits of all rounds).
THEOREM FixedAllPublished == Spec => []FixedIsPublished
<1>1. TraceInv => FixedIsPublished
  BY DEF TraceInv
<1> QED
  BY <1>1, TraceAlways, PTL

-----------------------------------------------------------------------------
(* SyncRun implements Reconcile. *)

Ended == pc \in {"done", "killed"}
Reported == {c \in Changes : status[c] = "fixed"}
Edited == {w.by : w \in writes}
Published == {w.by : w \in remote}

\* A step that none of the variables of Reconcile sees, but for the end.
LEMMA StopsOrStutters ==
  ASSUME ~Ended, UNCHANGED <<live, writes, fresh, remote, pr>>, Reported' = Reported
  PROVE  [Promise!Next]_(Promise!vars)
<1>1. CASE Ended'
  BY <1>1 DEF Ended, Reported, Promise!Next, Promise!Stop
<1>2. CASE ~Ended'
  BY <1>2 DEF Ended, Reported, Promise!vars
<1> QED
  BY <1>1, <1>2

\* Writing some edits of a change is an Edit, or nothing when they are "ignore".
LEMMA WriteEdits ==
  ASSUME TypeOK, NEW c \in Listed, NEW k \in AppliedCounts(c), Write(c, k), ~Ended,
         Reported = {}, Reported' = {}, remote = {}, UNCHANGED <<pc, live, remote, pr>>
  PROVE  [Promise!Next]_(Promise!vars)
<1>1. c \in Changes /\ ResourceOf[c] \in live
  BY DEF Listed
<1>2. CASE Written(c, k) = {}
  <2>1. UNCHANGED <<writes, fresh>>
    BY <1>2 DEF Write, TypeOK, VerifyOK
  <2> QED
    BY <2>1, StopsOrStutters
<1>3. CASE Written(c, k) # {}
  <2>1. Edited' = Edited \cup {c} /\ ~fresh'
    BY <1>1, <1>3, WrittenTyped DEF Write, Edited
  <2> QED
    BY <1>1, <2>1 DEF Promise!Next, Promise!Edit, Promise!InTrust, Ended, Reported, Edited
<1> QED
  BY <1>2, <1>3

LEMMA RefineStep ==
  TypeOK /\ VerifyInv /\ VerifyInv' /\ TidyInv /\ TraceInv /\ [Next]_vars
    => [Promise!Next]_(Promise!vars)
<1> SUFFICES ASSUME TypeOK, VerifyInv, VerifyInv', TidyInv, TraceInv, [Next]_vars
             PROVE  [Promise!Next]_(Promise!vars)
  OBVIOUS
<1> USE DEF setup, verdicts, tree, replan, outcome
<1>0. /\ pc \notin After => Reported = {} /\ remote = {}
      /\ pc' \notin After => Reported' = {}
      /\ PlayInv
  BY DEF VerifyInv, NotFixedYet, FreshInv, Reported
<1>r. UNCHANGED status \/ (pc \notin After /\ pc' \notin After) => Reported' = Reported
  BY <1>0 DEF Reported
<1>1. ASSUME Detect \/ Report \/ ClassifyFails \/ Classified \/ DryRead \/ FmtValidate
               \/ Committed \/ (PullRequest /\ UNCHANGED pr) \/ Kill
      PROVE  [Promise!Next]_(Promise!vars)
  <2>1. ~Ended /\ UNCHANGED <<live, writes, fresh, remote, pr, status>>
    BY <1>1 DEF Ended, Detect, Report, ClassifyFails, Classified, DryRead, FmtValidate,
       Committed, PullRequest, Kill
  <2> QED
    BY <1>r, <2>1, StopsOrStutters
<1>2. ASSUME NEW c \in Changes, Classify(c) \/ CommitChange(c) \/ Retry(c)
      PROVE  [Promise!Next]_(Promise!vars)
  <2>1. /\ pc \in {"classify", "commit", "retry"}
        /\ UNCHANGED <<live, writes, fresh, remote, pr>>
        /\ UNCHANGED pc \/ UNCHANGED status
    BY <1>2 DEF Classify, CommitChange, Retry
  <2> QED
    BY <1>r, <2>1, StopsOrStutters DEF Ended, After
<1>3. CASE Trust
  <2>1. /\ pc = "trust" /\ live = {} /\ writes = {} /\ ~Ended
        /\ UNCHANGED <<writes, fresh, remote, pr, status>>
    BY <1>3 DEF Trust, TidyInv, Decided, Early, Ended
  <2>2. CASE live' = live
    BY <1>r, <2>1, <2>2, StopsOrStutters
  <2>3. CASE live' \in SUBSET Resources /\ ~Ended'
    BY <1>r, <2>1, <2>3 DEF Promise!Next, Promise!Decide, Ended, Reported, Edited
  <2>4. live' # live => live' \in SUBSET Resources /\ pc' = "classify"
    BY <1>3, <2>1 DEF Trust, Goto
  <2> QED
    BY <2>2, <2>3, <2>4 DEF Ended
<1>4. ASSUME NEW c \in Changes, ApplyTrack(c) \/ ApplyPending(c)
      PROVE  [Promise!Next]_(Promise!vars)
  <2>1. /\ pc \in {"dryApply", "apply"} /\ pc' = pc
        /\ UNCHANGED <<live, remote, pr>>
    BY <1>4 DEF ApplyTrack, ApplyPending
  <2>2. Reported = {} /\ Reported' = {} /\ remote = {} /\ ~Ended
    BY <1>0, <2>1 DEF After, Ended
  <2>3. CASE Skip(c)
    BY <2>1, <2>2, <2>3, StopsOrStutters DEF Skip, LeaveAlone
  <2>4. CASE edits[c] # <<>> /\ \E k \in AppliedCounts(c) : Write(c, k)
    <3>1. c \in Listed
      BY <1>0, <2>1, <2>4 DEF PlayInv, InPlay, After
    <3> QED
      BY <2>1, <2>2, <2>4, <3>1, WriteEdits
  <2>5. ApplyTrack(c) => Skip(c) \/ (edits[c] # <<>> /\ \E k \in AppliedCounts(c) : Write(c, k))
    BY DEF ApplyTrack
  <2>6. ApplyPending(c) => Skip(c) \/ (edits[c] # <<>> /\ \E k \in AppliedCounts(c) : Write(c, k))
    BY DEF ApplyPending
  <2> QED
    BY <1>4, <2>3, <2>4, <2>5, <2>6
<1>5. CASE DryRestore
  <2>1. /\ pc = "dryApply" /\ pc' = "done" /\ writes' \subseteq writes
        /\ UNCHANGED <<live, fresh, remote, pr, status>>
    BY <1>5 DEF DryRestore, Stop
  <2>2. Edited' \subseteq Edited /\ Reported = {} /\ remote = {} /\ Reported' = Reported
    BY <1>0, <1>r, <2>1 DEF Edited, After
  <2> QED
    BY <2>1, <2>2 DEF Promise!Next, Promise!TakeBack, Ended, Reported, Edited
<1>6. CASE Replan
  <2>1. /\ pc = "replan" /\ pc' \in {"done", "retry", "finalize"}
        /\ UNCHANGED <<live, writes, remote, pr, status>>
        /\ pc' = "done" => UNCHANGED fresh
        /\ pc' # "done" => fresh' = TRUE
    BY <1>6 DEF Replan, Stop, Goto
  <2>2. Reported = {} /\ Reported' = Reported /\ remote = {} /\ ~Ended
    BY <1>0, <1>r, <2>1 DEF After, Ended
  <2>3. CASE pc' = "done"
    BY <2>1, <2>2, <2>3, StopsOrStutters
  <2>4. CASE pc' # "done"
    BY <2>1, <2>2, <2>4 DEF Promise!Next, Promise!Check, Ended, Reported
  <2> QED
    BY <2>3, <2>4
<1>7. CASE Retried
  <2>1. ~Ended /\ UNCHANGED <<live, writes, fresh, remote, pr, status>>
    BY <1>7 DEF Ended, Retried
  <2> QED
    BY <1>r, <2>1, StopsOrStutters
<1>8. CASE Finalize
  <2>1. /\ pc = "finalize" /\ pc' \in {"done", "publish"}
        /\ \A c \in Changes : status'[c] = FinalStatus(c)
        /\ UNCHANGED <<live, writes, fresh, remote, pr>>
    BY <1>8 DEF Finalize, Stop, Goto
  <2>2. Reported = {} /\ remote = {} /\ fresh
    BY <1>0, <2>1 DEF After, VerifyInv, FreshInv
  <2>3. ASSUME NEW c \in Reported' PROVE c \in Listed
    <3>1. c \in Changes /\ status[c] # "fixed" /\ status'[c] = "fixed"
      BY <2>2, <2>3 DEF Reported
    <3>2. status[c] = "applied"
      BY <2>1, <3>1 DEF FinalStatus
    <3> QED
      BY <2>1, <3>1, <3>2 DEF TraceInv, After
  <2> QED
    BY <2>1, <2>2, <2>3 DEF Promise!Next, Promise!Report, Promise!InTrust, Listed, Ended,
       Reported
<1>9. CASE Publish
  <2>1. /\ pc = "publish" /\ pc' \in {"done", "pr"}
        /\ UNCHANGED <<live, writes, fresh, pr, status>>
        /\ pc' = "done" => UNCHANGED remote
        /\ pc' = "pr" => remote' = committed \/ remote' \subseteq writes
    BY <1>9 DEF Publish, Stop, Goto
  <2>2. CASE pc' = "done"
    BY <1>r, <2>1, <2>2, StopsOrStutters DEF Ended
  <2>3. CASE pc' = "pr"
    <3>1. Published' \subseteq Edited /\ fresh
      BY <2>1, <2>3 DEF TraceInv, Published, Edited, VerifyInv, FreshInv
    <3> QED
      BY <1>r, <2>1, <2>3, <3>1 DEF Promise!Next, Promise!Publish, Ended, Reported, Edited,
         Published
  <2> QED
    BY <2>1, <2>2, <2>3
<1>10. CASE PullRequest /\ ~UNCHANGED pr
  <2>1. /\ pc = "pr" /\ pc' = "done" /\ pr' # "none"
        /\ UNCHANGED <<live, writes, fresh, remote, status>>
    BY <1>10 DEF PullRequest, PrFailed, Stop
  <2>2. Reported \cap Edited \subseteq Published
    BY <2>1 DEF TraceInv, Reported, Edited, Published
  <2> QED
    BY <1>r, <2>1, <2>2 DEF Promise!Next, Promise!Request, Ended, Reported, Edited,
       Published
<1>11. CASE UNCHANGED vars
  BY <1>11 DEF vars, Promise!vars
<1> QED
  BY <1>1, <1>2, <1>3, <1>4, <1>5, <1>6, <1>7, <1>8, <1>9, <1>10, <1>11
     DEF Next, Step, Decide, DryRun, Apply, Verify, Finish

\* Every run of the command is a run of Reconcile: the edits concern what is
\* trusted live, reports and branches come after a check of the last edit, and a
\* review is asked for a branch that holds every edit of what is called fixed.
THEOREM SyncKeepsPromise == Spec => KeepsPromise
<1>1. Init => Promise!Init
  BY DEF Init, Promise!Init
<1> QED
  BY <1>1, RefineStep, TypeCorrect, VerifyAlways, TidyAlways, TraceAlways, PTL
     DEF Spec, KeepsPromise, Promise!Spec

-----------------------------------------------------------------------------
(* Giving up.  A change without edits is passed over by every loop: apply and *)
(* retry look at its edits, and a commit is only due for a change with edits. *)

Unresolved == pc = "classify" => \A c \in todo : status[c] = "none"

LEMMA UnresolvedNext == TypeOK /\ VerifyInv /\ Unresolved /\ [Next]_vars => Unresolved'
<1> SUFFICES ASSUME TypeOK, VerifyInv, Unresolved, [Next]_vars PROVE Unresolved'
  OBVIOUS
<1> USE DEF setup, verdicts, tree, replan, outcome
<1>1. CASE Trust
  BY <1>1 DEF Trust, Stop, Goto, Unresolved, VerifyInv, Untouched, Early
<1>2. ASSUME NEW c \in Changes, Classify(c) PROVE Unresolved'
  <2>1. /\ pc' = pc /\ todo' = todo \ {c}
        /\ \E s, n, es : Give(c, s, n, es)
    BY <1>2 DEF Classify, ResolveChange, Propose
  <2>2. \A d \in Changes \ {c} : status'[d] = status[d]
    BY <2>1 DEF Give, TypeOK, ResolutionOK
  <2> QED
    BY <2>1, <2>2 DEF Unresolved, TypeOK, ControlOK
<1>3. CASE UNCHANGED <<pc, todo, status>> \/ pc' # "classify"
  BY <1>3 DEF Unresolved
<1>4. ASSUME NEW c \in Changes, CommitChange(c) \/ ApplyTrack(c) \/ ApplyPending(c) \/ Retry(c)
      PROVE  pc' # "classify"
  BY <1>4 DEF CommitChange, ApplyTrack, ApplyPending, Retry, Stop
<1>5. ASSUME Detect \/ Report \/ ClassifyFails \/ Classified \/ DryRead \/ DryRestore
               \/ FmtValidate \/ Committed \/ Replan \/ Retried
               \/ Finalize \/ Publish \/ PullRequest \/ Kill
      PROVE  pc' # "classify"
  BY <1>5 DEF Detect, Report, ClassifyFails, Classified, DryRead, DryRestore, FmtValidate,
     AfterFormat, Committed, Replan, Retried, Finalize, Publish, PullRequest, PrFailed,
     Kill, Stop, Goto
<1> QED
  BY <1>1, <1>2, <1>3, <1>4, <1>5 DEF vars, Next, Step, Decide, DryRun, Apply, Verify, Finish

LEMMA UnresolvedAlways == Spec => []Unresolved
<1>1. Init => Unresolved
  BY DEF Init, Unresolved
<1> QED
  BY <1>1, UnresolvedNext, TypeCorrect, VerifyAlways, PTL DEF Spec

StaysUp(c) ==
  edits'[c] = <<>> /\ status'[c] = status[c] /\ \A w \in writes' \ writes : w.by # c

LEMMA GivenUpStep ==
  ASSUME TypeOK, VerifyInv, TraceInv, Unresolved, [Next]_vars,
         NEW c \in Changes, GivenUp(c)
  PROVE  StaysUp(c)
<1> USE DEF setup, verdicts, tree, replan, outcome
<1>1. edits[c] = <<>> /\ status[c] \in {"skipped-protected", "could-not-fix", "remaining"}
  BY DEF GivenUp
<1>2. CASE UNCHANGED <<edits, status>> /\ writes' \subseteq writes
  BY <1>1, <1>2 DEF StaysUp
\* Another change is given an outcome; c keeps its own.
<1>3. ASSUME NEW d \in Changes, d # c, NEW s, NEW n, NEW es, Give(d, s, n, es),
             UNCHANGED writes \/ \E k \in AppliedCounts(d) : Write(d, k)
      PROVE  StaysUp(c)
  <2>1. edits'[c] = edits[c] /\ status'[c] = status[c]
    BY <1>3 DEF Give, TypeOK, ResolutionOK
  <2>2. \A w \in writes' \ writes : w.by = d
    <3>1. ASSUME NEW k \in AppliedCounts(d), Write(d, k), NEW w \in writes' \ writes
          PROVE  w.by = d
      <4>1. w \in Written(d, k)
        BY <3>1 DEF Write
      <4> QED
        BY <4>1 DEF Written
    <3> QED
      BY <1>3, <3>1
  <2> QED
    BY <1>1, <1>3, <2>1, <2>2 DEF StaysUp
<1>4. ASSUME NEW d \in Changes, Classify(d) PROVE StaysUp(c)
  <2>1. d # c
    BY <1>1, <1>4 DEF Classify, Unresolved
  <2>2. UNCHANGED writes
    BY <1>4 DEF Classify
  <2>3. \E s, n, es : Give(d, s, n, es)
    BY <1>4 DEF Classify, ResolveChange, Propose
  <2> QED
    BY <1>3, <2>1, <2>2, <2>3
<1>5. ASSUME NEW d \in Changes, ApplyTrack(d) PROVE StaysUp(c)
  <2>1. CASE edits[d] = <<>>
    BY <1>2, <1>5, <2>1 DEF ApplyTrack, Skip, LeaveAlone
  <2>2. CASE edits[d] # <<>>
    <3>1. \E k \in AppliedCounts(d) : \E s, n, es : Write(d, k) /\ Give(d, s, n, es)
      BY <1>5, <2>2 DEF ApplyTrack, ApplyFailed
    <3> QED
      BY <1>1, <1>3, <2>2, <3>1
  <2> QED
    BY <2>1, <2>2
<1>6. ASSUME NEW d \in Changes, ApplyPending(d) PROVE StaysUp(c)
  <2>1. CASE edits[d] = <<>> \/ status[d] = "applied"
    BY <1>2, <1>6, <2>1 DEF ApplyPending, Skip, LeaveAlone
  <2>2. CASE edits[d] # <<>> /\ status[d] # "applied"
    <3>1. PICK k \in AppliedCounts(d) :
            Write(d, k) /\ (UNCHANGED verdicts \/ ApplyFailed(d))
      BY <1>6, <2>2 DEF ApplyPending
    <3>2. d # c
      BY <1>1, <2>2
    <3>3. CASE ApplyFailed(d)
      BY <1>3, <3>1, <3>2, <3>3 DEF ApplyFailed
    <3>4. CASE UNCHANGED verdicts
      BY <1>1, <3>1, <3>2, <3>4 DEF StaysUp, Write, Written
    <3> QED
      BY <3>1, <3>3, <3>4
  <2> QED
    BY <2>1, <2>2
\* A change that is committed still has its edits.
<1>7. ASSUME NEW d \in Changes, CommitChange(d) PROVE StaysUp(c)
  <2>1. pc = "commit" /\ d \in todo /\ UNCHANGED <<writes, edits>>
        /\ (UNCHANGED status \/ status' = [status EXCEPT ![d] = "applied"])
    BY <1>7 DEF CommitChange
  <2>2. byChange[d] # {}
    BY <2>1 DEF VerifyInv, PlayInv
  <2>3. opts.push = "git"
    BY <2>2 DEF VerifyInv, PlayInv, TypeOK, DecisionOK
  <2>4. d # c
    BY <1>1, <2>1, <2>2, <2>3 DEF TraceInv
  <2> QED
    BY <1>1, <2>1, <2>4 DEF StaysUp, TypeOK, ResolutionOK
<1>8. ASSUME NEW d \in Changes, Retry(d) PROVE StaysUp(c)
  <2>1. CASE UNCHANGED verdicts
    BY <1>2, <1>8, <2>1 DEF Retry
  <2>2. CASE ~UNCHANGED verdicts
    <3>1. /\ edits[d] # <<>> /\ UNCHANGED writes
          /\ \E s, n, es : Give(d, s, n, es)
      BY <1>8, <2>2 DEF Retry, Retriable, Propose
    <3> QED
      BY <1>1, <1>3, <3>1
  <2> QED
    BY <2>1, <2>2
<1>9. CASE Finalize
  BY <1>1, <1>9 DEF Finalize, FinalStatus, StaysUp
<1>10. ASSUME Detect \/ Report \/ Trust \/ ClassifyFails \/ Classified \/ DryRead \/ DryRestore
                \/ FmtValidate \/ Committed \/ Replan \/ Retried \/ Publish
                \/ PullRequest \/ Kill \/ UNCHANGED vars
       PROVE  UNCHANGED <<edits, status>> /\ writes' \subseteq writes
  BY <1>10 DEF Detect, Report, Trust, ClassifyFails, Classified, DryRead, DryRestore,
     FmtValidate, Committed, Replan, Retried, Publish, PullRequest, Kill, vars
<1> QED
  BY <1>2, <1>4, <1>5, <1>6, <1>7, <1>8, <1>9, <1>10
     DEF Next, Step, Decide, DryRun, Apply, Verify, Finish

\* A change whose edits were dropped stays given up: no later round writes for
\* it, gives it edits, or calls it fixed (applyTrack, applyAndCommit and
\* verifyLoop all pass over a change without edits).
THEOREM GiveUpIsFinal == Spec => GivenUpIsFinal
<1>1. TypeOK /\ VerifyInv /\ TraceInv /\ Unresolved /\ [Next]_vars =>
        [\A c \in Changes : GivenUp(c) =>
           /\ edits'[c] = <<>> /\ status'[c] = status[c]
           /\ \A w \in writes' \ writes : w.by # c]_vars
  BY GivenUpStep DEF StaysUp
<1> QED
  BY <1>1, TypeCorrect, VerifyAlways, TraceAlways, UnresolvedAlways, PTL
     DEF Spec, GivenUpIsFinal
=============================================================================
