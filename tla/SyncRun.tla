------------------------------- MODULE SyncRun -------------------------------
(***************************************************************************)
(* One run of `terra-drift sync` (cmd/terra-drift/sync.go): detect drift,  *)
(* decide whose version to trust, resolve one edit list per drifted        *)
(* attribute, rewrite the Terraform root, re-plan, retry the tier-2        *)
(* attributes that are still drifted, and publish the result.              *)
(*                                                                         *)
(* The command is one sequential process, so a behaviour is a walk of `pc` *)
(* through the phases of runSync.  Loops over the `changes` slice take one *)
(* change per step; `todo` holds the ones still to visit.  What terraform, *)
(* git, the model server, the forge and the operator answer is chosen      *)
(* nondeterministically.  Kill stops the process between any two steps.    *)
(***************************************************************************)
EXTENDS Integers, Sequences, FiniteSets

CONSTANTS
  Changes,      \* drifted attributes, one `change` of the slice each
  Resources,    \* resource addresses a user may trust
  ResourceOf,   \* the address of the resource an attribute belongs to
  Files,        \* the .tf and .tfvars files of the root
  NoFile,       \* the empty path, which only an "ignore" edit may carry
  Edits,        \* the structured edits: records of file, op and guard verdict
  Target,       \* the deterministic edit of an attribute (tiers 0 and 1)
  Proposals,    \* the edit lists the model server may propose per attribute
  Tiers,        \* the tiers a provenance walk may end in
  MaxRetries    \* mcp.max_retries

AllTiers == {"tier0", "tier1", "tier2", "tier3"}

ASSUME ChangesAssumption == ResourceOf \in [Changes -> Resources]
ASSUME EditsAssumption ==
  /\ NoFile \notin Files
  /\ Edits \subseteq [file: Files \cup {NoFile},
                      op: {"set", "append_to", "ignore"},
                      verdict: {"ok", "protected", "outside"}]
  /\ \A e \in Edits : e.op # "ignore" => e.file \in Files
  /\ \A e \in Edits : e.op = "ignore" => e.verdict = "ok"
ASSUME TargetAssumption ==
  Target \in [Changes -> {e \in Edits : e.op = "set"}]
ASSUME ProposalsAssumption ==
  Proposals \in [Changes -> SUBSET (Seq(Edits) \ {<<>>})]
ASSUME TiersAssumption == Tiers \subseteq AllTiers
ASSUME MaxRetriesAssumption == MaxRetries \in Nat

VARIABLES
  pc,           \* phase of runSync
  opts,         \* resolved flags and config: push mode, open PR, dry run
  existing,     \* the dedupe lookup: "none", or an open PR with "same"/"other" hash
  live,         \* resources whose live version is trusted
  todo,         \* changes the current loop has still to visit
  tier,         \* c.Prov.Tier
  status,       \* c.Status ("none": not in the slice)
  note,         \* c.Note, by the message it carries
  edits,        \* c.Edits
  attempt,      \* verifyLoop's attempt counter
  retried,      \* verifyLoop's retried flag
  dirty,        \* resources the last re-plan reports as drifted
  residual,     \* changes whose own attribute the last re-plan still reports
  writes,       \* edits written to the working tree, one record per write
  touched,      \* the touched map of api mode
  originals,    \* files whose bytes the dry run saved
  byChange,     \* filesByChange of the current applyAndCommit
  uncommitted,  \* files that differ from HEAD
  committed,    \* writes that are in a commit of the local branch
  fresh,        \* no write since the last re-plan (history variable)
  remote,       \* writes the published branch holds
  pr,           \* what happened to the pull request
  exit,         \* exit code, -1 while running
  err           \* cause of an exit code 1

setup    == <<opts, existing, live, tier>>
verdicts == <<status, note, edits>>
tree     == <<writes, touched, originals, byChange, uncommitted, committed>>
replan   == <<attempt, retried, dirty, residual, fresh>>
outcome  == <<remote, pr>>
vars == <<pc, todo, exit, err, setup, verdicts, tree, replan, outcome>>

-----------------------------------------------------------------------------
(* Derived sets and small helpers. *)

\* The `changes` slice: the drifted attributes of the resources trusted live.
Listed == {c \in Changes : ResourceOf[c] \in live}

Deterministic == {"tier0", "tier1"}

FilesOf(es) == {es[i].file : i \in 1..Len(es)}

\* The writes that the first k edits of change c make; "ignore" writes nothing.
Written(c, k) ==
  {[by |-> c, edit |-> edits[c][i], pos |-> i, round |-> attempt] :
      i \in {j \in 1..k : edits[c][j].op # "ignore"}}

\* How many of c's edits succeed before patch.Apply returns an error; an
\* "ignore" edit never fails.
AppliedCounts(c) ==
  {k \in 0..Len(edits[c]) : k < Len(edits[c]) => edits[c][k + 1].op # "ignore"}

\* Files that may differ from HEAD after the writes W: an append always
\* changes its file, a set may write the bytes that are already there.
MayDiffer(W) ==
  LET appended == {w.edit.file : w \in {x \in W : x.edit.op = "append_to"}}
      set      == {w.edit.file : w \in {x \in W : x.edit.op = "set"}}
  IN  {uncommitted \cup appended \cup D : D \in SUBSET set}

Stop(code, cause) == /\ pc' = "done" /\ exit' = code /\ err' = cause
Goto(phase) == pc' = phase /\ UNCHANGED <<exit, err>>

Init ==
  /\ pc = "start" /\ exit = -1 /\ err = "none"
  /\ opts \in [push: {"api", "git"}, openPR: BOOLEAN, dryRun: BOOLEAN]
  /\ existing = "none" /\ live = {} /\ todo = {}
  /\ tier = [c \in Changes |-> "tier0"]
  /\ status = [c \in Changes |-> "none"]
  /\ note = [c \in Changes |-> "none"]
  /\ edits = [c \in Changes |-> <<>>]
  /\ attempt = 0 /\ retried = FALSE /\ dirty = {} /\ residual = {}
  /\ writes = {} /\ touched = {} /\ originals = {}
  /\ byChange = [c \in Changes |-> {}]
  /\ uncommitted = {} /\ committed = {} /\ fresh = FALSE
  /\ remote = {} /\ pr = "none"

-----------------------------------------------------------------------------
(* Detect and decide. *)

\* The first refresh-only plan: error, clean, or drift.
Detect ==
  /\ pc = "start"
  /\ \/ Stop(1, "refresh")
     \/ Stop(0, "none")
     \/ Goto("report")
  /\ UNCHANGED <<todo, setup, verdicts, tree, replan, outcome>>

\* Parse, hash and report the plan, then look for an open drift PR.  A failed
\* lookup counts as "none"; one that carries the same hash ends the run.
Report ==
  /\ pc = "report"
  /\ \/ Stop(1, "plan json") /\ UNCHANGED existing
     \/ existing' = "none" /\ Goto("trust")
     \/ /\ opts.openPR /\ ~opts.dryRun
        /\ \/ existing' = "same"  /\ Stop(2, "none")
           \/ existing' = "other" /\ Goto("trust")
  /\ UNCHANGED <<todo, opts, live, tier, verdicts, tree, replan, outcome>>

\* trust.Resolve: an error, no decision, or the set of addresses to rewrite
\* code for ("code" is the empty set, "partial" any set of addresses).
Trust ==
  /\ pc = "trust"
  /\ \/ Stop(1, "trust mode") /\ UNCHANGED <<live, todo>>
     \/ Stop(2, "none") /\ UNCHANGED <<live, todo>>
     \/ \E L \in SUBSET Resources :
          /\ live' = L
          /\ todo' = {c \in Changes : ResourceOf[c] \in L}
          /\ IF L = {} THEN Stop(2, "none") ELSE Goto("classify")
  /\ UNCHANGED <<opts, existing, tier, verdicts, tree, replan, outcome>>

-----------------------------------------------------------------------------
(* Resolve edits. *)

Give(c, s, n, es) ==
  /\ status' = [status EXCEPT ![c] = s]
  /\ note'   = [note EXCEPT ![c] = n]
  /\ edits'  = [edits EXCEPT ![c] = es]

\* (Deviation: GuardMinimal is left out.)
Unguarded(e) == e.verdict # "protected"
\* Guard, then GuardMinimal, on one proposed edit.
Passes(e) == e.verdict = "ok"

\* resolveChange, tier 2: ask the model server, guard every proposed edit in
\* order, and append the accepted ones to c.Edits.  A failed call keeps the
\* edits the change already has.
Propose(c) ==
  \/ Give(c, "could-not-fix", "proposal failed", edits[c])
  \/ \E p \in Proposals[c] :
       \/ /\ \A i \in 1..Len(p) : Passes(p[i])
          /\ Give(c, "pending", note[c], edits[c] \o p)
       \/ \E i \in 1..Len(p) :
            /\ ~Passes(p[i]) /\ \A j \in 1..(i - 1) : Passes(p[j])
            /\ \/ /\ p[i].verdict = "protected"
                  /\ Give(c, "skipped-protected", "skipped", <<>>)
               \/ /\ p[i].verdict = "outside"
                  /\ Give(c, "could-not-fix", "rejected", <<>>)

ResolveChange(c, t) ==
  \/ t \in Deterministic /\ Give(c, "pending", note[c], <<Target[c]>>)
  \/ t = "tier2" /\ Propose(c)
  \/ t = "tier3" /\ Give(c, "could-not-fix", "tier 3", edits[c])

\* One iteration of classify: a deleted resource or a failed walk is a
\* failure of the change, anything else is resolved by its tier.
Classify(c) ==
  /\ pc = "classify" /\ c \in todo
  /\ todo' = todo \ {c}
  /\ \/ /\ Give(c, "could-not-fix", "unresolved", <<>>)
        /\ UNCHANGED tier
     \/ \E t \in Tiers :
          /\ tier' = [tier EXCEPT ![c] = t]
          /\ ResolveChange(c, t)
  /\ UNCHANGED <<pc, exit, err, opts, existing, live, tree, replan, outcome>>

\* Unreadable attributes of a drifted resource abort the run.
ClassifyFails ==
  /\ pc = "classify" /\ todo # {}
  /\ Stop(1, "attributes")
  /\ UNCHANGED <<todo, setup, verdicts, tree, replan, outcome>>

\* Nothing editable ends the run; a dry run goes its own way; git mode
\* creates and checks out a branch before the first write.
Classified ==
  /\ pc = "classify" /\ todo = {}
  /\ todo' = Listed
  /\ \/ (\A c \in Listed : edits[c] = <<>>) /\ Stop(2, "none")
     \/ /\ \E c \in Listed : edits[c] # <<>>
        /\ \/ opts.dryRun /\ Goto("dryRead")
           \/ ~opts.dryRun /\ Goto("apply")
           \/ ~opts.dryRun /\ opts.push = "git" /\ Stop(1, "branch")
  /\ UNCHANGED <<setup, verdicts, tree, replan, outcome>>

-----------------------------------------------------------------------------
(* Apply, api mode and dry run. *)

LeaveAlone == UNCHANGED <<verdicts, writes, touched, byChange, uncommitted, fresh>>
Skip(c) == todo' = todo \ {c} /\ LeaveAlone

\* patch.Apply on the first k edits of c.
Write(c, k) ==
  /\ todo' = todo \ {c}
  /\ writes' = writes \cup Written(c, k)
  /\ uncommitted' \in MayDiffer(Written(c, k))
  /\ fresh' = (fresh /\ Written(c, k) = {})

\* (Deviation: a status that the buckets do not know.)
ApplyAborted(c) == Give(c, "failed", "apply failed", <<>>)
ApplyFailed(c) == Give(c, "could-not-fix", "apply failed", <<>>)

\* (Deviation: only the first file is remembered.)
FirstOnly(c, k) == {edits[c][i].file : i \in 1..k \cap {1}}
\* The files of the k edits that went through.
Done(c, k) == {edits[c][i].file : i \in 1..k}

\* One iteration of applyTrack: every change that has edits is (re-)applied,
\* and each edit that went through marks its file as touched.
ApplyTrack(c) ==
  /\ \/ pc = "dryApply"
     \/ pc = "apply" /\ opts.push = "api"
  /\ c \in todo
  /\ \/ edits[c] = <<>> /\ Skip(c)
     \/ /\ edits[c] # <<>>
        /\ \E k \in AppliedCounts(c) :
             /\ Write(c, k)
             /\ touched' = touched \cup Done(c, k)
             /\ IF k = Len(edits[c])
                  THEN Give(c, "applied", note[c], edits[c])
                  ELSE ApplyFailed(c)
        /\ UNCHANGED byChange
  /\ UNCHANGED <<pc, exit, err, setup, originals, committed, attempt, retried,
                 dirty, residual, outcome>>

\* (Deviation: only the file of the first edit is saved.)
FirstNamed == {edits[c][1].file : c \in {x \in Listed : edits[x] # <<>>}}
\* The files the edits name.
Named == UNION {FilesOf(edits[c]) : c \in Listed}

\* dryRunApply saves the bytes of every named file before it writes.  The empty
\* path is a directory, which cannot be read.
DryRead ==
  /\ pc = "dryRead"
  /\ \/ Stop(1, "dry-run read") /\ UNCHANGED originals
     \/ /\ NoFile \notin Named
        /\ originals' = Named
        /\ Goto("dryApply")
  /\ UNCHANGED <<todo, setup, verdicts, writes, touched, byChange, uncommitted,
                 committed, replan, outcome>>

\* Show the diff, then (deferred, also when git diff fails) put the saved
\* bytes back.
DryRestore ==
  /\ pc = "dryApply" /\ todo = {}
  /\ Stop(2, "none") \/ Stop(1, "dry-run diff")
  /\ writes' = {w \in writes : w.edit.file \notin originals}
  /\ uncommitted' = uncommitted \ originals
  /\ UNCHANGED <<todo, setup, verdicts, touched, originals, byChange, committed,
                 replan, outcome>>

-----------------------------------------------------------------------------
(* Apply and commit, git mode. *)

\* One iteration of applyAndCommit's first loop: a change already applied is
\* left alone, a change that fails half-way drops out of filesByChange.
ApplyPending(c) ==
  /\ pc = "apply" /\ opts.push = "git" /\ c \in todo
  /\ \/ (edits[c] = <<>> \/ status[c] = "applied") /\ Skip(c)
     \/ /\ edits[c] # <<>> /\ status[c] # "applied"
        /\ \E k \in AppliedCounts(c) :
             /\ Write(c, k)
             /\ IF k = Len(edits[c])
                  THEN /\ byChange' = [byChange EXCEPT ![c] = FilesOf(edits[c])]
                       /\ UNCHANGED verdicts
                  ELSE /\ byChange' = [byChange EXCEPT ![c] = {}]
                       /\ ApplyFailed(c)
        /\ UNCHANGED touched
  /\ UNCHANGED <<pc, exit, err, setup, originals, committed, attempt, retried,
                 dirty, residual, outcome>>

\* (Deviation: api mode goes straight to publishing.)
Unverified == IF opts.push = "git" THEN "commit" ELSE "finalize"
\* What follows formatting: git mode commits, api mode re-plans.
AfterFormat == IF opts.push = "git" THEN "commit" ELSE "replan"

\* The loop is over.  git mode with nothing applied returns at once; otherwise
\* `terraform fmt -recursive` (which may rewrite any file) and validate run.
FmtValidate ==
  /\ pc = "apply" /\ todo = {}
  /\ LET pending == {c \in Changes : byChange[c] # {}}
     IN  \/ /\ opts.push = "git" /\ pending = {}
            /\ Goto("replan")
            /\ UNCHANGED <<todo, uncommitted>>
         \/ /\ opts.push = "api" \/ pending # {}
            /\ \/ Stop(1, "fmt or validate") /\ UNCHANGED <<todo, uncommitted>>
               \/ /\ \E F \in SUBSET Files : uncommitted' = uncommitted \cup F
                  /\ todo' = pending
                  /\ Goto(AfterFormat)
  /\ UNCHANGED <<setup, verdicts, writes, touched, originals, byChange, committed,
                 replan, outcome>>

\* Whether `git add -- files; git commit` has anything to record for c.
Committable(c) ==
  NoFile \notin byChange[c] /\ byChange[c] \cap uncommitted # {}

\* One commit of applyAndCommit's second loop (a map: any order).  git takes
\* whole files, so the writes of other changes to them go in as well.
CommitChange(c) ==
  /\ pc = "commit" /\ c \in todo
  /\ \/ /\ Committable(c)
        /\ todo' = todo \ {c}
        /\ committed' = committed \cup {w \in writes : w.edit.file \in byChange[c]}
        /\ uncommitted' = uncommitted \ byChange[c]
        /\ status' = [status EXCEPT ![c] = "applied"]
        /\ UNCHANGED <<pc, exit, err>>
     \/ /\ Stop(1, IF Committable(c) THEN "git commit" ELSE "nothing to commit")
        /\ UNCHANGED <<todo, committed, uncommitted, status>>
  /\ UNCHANGED <<setup, note, edits, writes, touched, originals, byChange,
                 replan, outcome>>

Committed ==
  /\ pc = "commit" /\ todo = {}
  /\ Goto("replan")
  /\ UNCHANGED <<todo, setup, verdicts, tree, replan, outcome>>

-----------------------------------------------------------------------------
(* verifyLoop. *)

\* The re-plan of one attempt: an error ends the run, a clean plan ends the
\* loop, and drift names the resources that are dirty and, among their
\* attributes, the changes that are still drifted themselves.
Replan ==
  /\ pc = "replan"
  /\ \/ Stop(1, "refresh") /\ UNCHANGED <<todo, replan>>
     \/ /\ dirty' = {} /\ residual' = {} /\ fresh' = TRUE
        /\ Goto("finalize")
        /\ UNCHANGED <<todo, attempt, retried>>
     \/ /\ dirty' \in SUBSET Resources
        /\ residual' \in SUBSET {c \in Listed : ResourceOf[c] \in dirty'}
        /\ fresh' = TRUE /\ retried' = FALSE /\ todo' = Listed
        /\ Goto("retry")
        /\ UNCHANGED attempt
  /\ UNCHANGED <<setup, verdicts, tree, outcome>>

Retriable(c) ==
  ResourceOf[c] \in dirty /\ tier[c] = "tier2" /\ edits[c] # <<>>

\* (Deviation: off by one.)
OneRetryMore == attempt > MaxRetries
OutOfRetries == attempt >= MaxRetries

\* One iteration of the loop over the changes: leave it, degrade it to tier 3
\* once the attempts are used up, or ask the server again for its residual.
Retry(c) ==
  /\ pc = "retry" /\ c \in todo
  /\ todo' = todo \ {c}
  /\ \/ ~Retriable(c) /\ UNCHANGED <<verdicts, retried>>
     \/ /\ Retriable(c) /\ OutOfRetries
        /\ Give(c, "remaining", "still drifted", <<>>)
        /\ UNCHANGED retried
     \/ /\ Retriable(c) /\ ~OutOfRetries /\ c \notin residual
        /\ UNCHANGED <<verdicts, retried>>
     \/ /\ Retriable(c) /\ ~OutOfRetries /\ c \in residual
        /\ Propose(c)
        /\ retried' = TRUE
  /\ UNCHANGED <<pc, exit, err, setup, tree, attempt, dirty, residual, fresh, outcome>>

\* (Deviation: nothing is marked.)
Unmarked(c) == note[c]
\* markDirty: only a change without a note gets one.
Marked(c) ==
  IF c \in Listed /\ ResourceOf[c] \in dirty /\ note[c] = "none"
    THEN "re-plan dirty" ELSE note[c]

\* (Deviation: the attempts are not counted.)
SameRound == attempt
NextRound == attempt + 1

\* After the loop: apply again and re-plan, or mark what is dirty and return.
Retried ==
  /\ pc = "retry" /\ todo = {}
  /\ \/ /\ retried
        /\ attempt' = NextRound
        /\ todo' = Listed
        /\ byChange' = [c \in Changes |-> {}]
        /\ Goto("apply")
        /\ UNCHANGED note
     \/ /\ ~retried
        /\ note' = [c \in Changes |-> Marked(c)]
        /\ Goto("finalize")
        /\ UNCHANGED <<attempt, todo, byChange>>
  /\ UNCHANGED <<setup, status, edits, writes, touched, originals, uncommitted,
                 committed, retried, dirty, residual, fresh, outcome>>

-----------------------------------------------------------------------------
(* Finalize and publish. *)

\* (As a deviation: the status of every change is taken from its note.)
NoteStatus(c) ==
  IF note[c] \in {"re-plan dirty", "still drifted"} THEN "remaining" ELSE "fixed"
\* finalizeStatuses turns the provisional "applied" into fixed or remaining.
FinalStatus(c) == IF status[c] = "applied" THEN NoteStatus(c) ELSE status[c]

\* Finalize, then stop without a PR or build the forge client.
Finalize ==
  /\ pc = "finalize"
  /\ status' = [c \in Changes |-> FinalStatus(c)]
  /\ \/ ~opts.openPR /\ Stop(2, "none")
     \/ opts.openPR /\ Stop(1, "forge")
     \/ opts.openPR /\ Goto("publish")
  /\ UNCHANGED <<todo, setup, note, edits, tree, replan, outcome>>

\* api mode posts the touched files as they are on disk (the empty path is not
\* readable and no files is an error); git mode pushes the local branch.
Publish ==
  /\ pc = "publish"
  /\ \/ Stop(1, "publish") /\ UNCHANGED remote
     \/ /\ opts.push = "api" /\ touched # {} /\ NoFile \notin touched
        /\ remote' = {w \in writes : w.edit.file \in touched}
        /\ Goto("pr")
     \/ /\ opts.push = "git"
        /\ remote' = committed
        /\ Goto("pr")
  /\ UNCHANGED <<todo, setup, verdicts, tree, replan, pr>>

\* (Deviation: a failed call does not count.)
PrSkipped == Stop(2, "none")
PrFailed == Stop(1, "pull request")

\* Update the open drift PR when the lookup found one, else open a new one.
PullRequest ==
  /\ pc = "pr"
  /\ \/ PrFailed /\ UNCHANGED pr
     \/ Stop(2, "none") /\ pr' = (IF existing = "other" THEN "updated" ELSE "opened")
  /\ UNCHANGED <<todo, setup, verdicts, tree, replan, remote>>

\* The process is killed (ctrl-C, a CI timeout): no handler, nothing undone.
Kill ==
  /\ pc \notin {"done", "killed"}
  /\ pc' = "killed"
  /\ UNCHANGED <<todo, exit, err, setup, verdicts, tree, replan, outcome>>

-----------------------------------------------------------------------------
Decide == Detect \/ Report \/ Trust \/ ClassifyFails \/ Classified
          \/ \E c \in Changes : Classify(c)
DryRun == DryRead \/ DryRestore
Apply  == FmtValidate \/ Committed
          \/ \E c \in Changes : ApplyTrack(c) \/ ApplyPending(c) \/ CommitChange(c)
Verify == Replan \/ Retried \/ \E c \in Changes : Retry(c)
Finish == Finalize \/ Publish \/ PullRequest

Step == Decide \/ DryRun \/ Apply \/ Verify \/ Finish
Next == Step \/ Kill

Spec == Init /\ [][Next]_vars

\* runSync runs to its next return: every call it makes comes back.
FairSpec == Spec /\ WF_vars(Step)
-----------------------------------------------------------------------------
(* Correctness. *)

Statuses == {"none", "pending", "applied", "fixed", "remaining",
             "skipped-protected", "could-not-fix"}
Notes == {"none", "proposal failed", "skipped", "rejected", "tier 3", "unresolved",
          "apply failed", "still drifted", "re-plan dirty"}
Phases == {"start", "report", "trust", "classify", "dryRead", "dryApply", "apply",
           "commit", "replan", "retry", "finalize", "publish", "pr", "done", "killed"}
Causes == {"none", "refresh", "plan json", "trust mode", "attributes", "branch",
           "dry-run read", "dry-run diff", "fmt or validate", "git commit",
           "nothing to commit", "forge", "publish", "pull request"}
Writes == [by: Changes, edit: Edits, pos: Nat, round: Nat]

\* Type invariant: every variable of the run stays in its type.
ControlOK ==
  /\ pc \in Phases /\ exit \in {-1, 0, 1, 2} /\ err \in Causes
  /\ todo \in SUBSET Changes
DecisionOK ==
  /\ opts \in [push: {"api", "git"}, openPR: BOOLEAN, dryRun: BOOLEAN]
  /\ existing \in {"none", "same", "other"}
  /\ live \in SUBSET Resources
  /\ tier \in [Changes -> AllTiers]
ResolutionOK ==
  /\ status \in [Changes -> Statuses]
  /\ note \in [Changes -> Notes]
  /\ edits \in [Changes -> Seq(Edits)]
TreeOK ==
  /\ writes \in SUBSET Writes /\ committed \in SUBSET Writes
  /\ touched \in SUBSET (Files \cup {NoFile})
  /\ originals \in SUBSET (Files \cup {NoFile})
  /\ byChange \in [Changes -> SUBSET (Files \cup {NoFile})]
  /\ uncommitted \in SUBSET Files
VerifyOK ==
  /\ retried \in BOOLEAN /\ fresh \in BOOLEAN
  /\ dirty \in SUBSET Resources /\ residual \in SUBSET Changes
OutcomeOK == remote \in SUBSET Writes /\ pr \in {"none", "opened", "updated"}
TypeOK ==
  /\ ControlOK /\ DecisionOK /\ ResolutionOK /\ TreeOK /\ VerifyOK /\ OutcomeOK
  /\ attempt \in Nat

\* Whatever the server proposes and however often it is asked again, the tree
\* only ever receives edits for resources the operator trusts live, each one
\* either the deterministic edit of the attribute or, for tier 2, an edit that
\* passed Guard and GuardMinimal.
Admissible(c, e) ==
  /\ ResourceOf[c] \in live
  /\ IF tier[c] = "tier2" THEN e.verdict = "ok" ELSE e = Target[c]
GuardedWrites == \A w \in writes : Admissible(w.by, w.edit)

\* A change is reported fixed only after a re-plan that follows the last write
\* of the run, and that re-plan shows its resource clean, save for a change
\* whose retry got no proposal: verifyLoop loses track of that one.
FixedIsVerified ==
  \A c \in Changes : status[c] = "fixed" =>
    /\ fresh
    /\ ResourceOf[c] \notin dirty \/ note[c] = "proposal failed"

\* Every write of a change that the pull request reports as fixed, in the first
\* round and in every retry, is on the published branch: none is left behind
\* in an uncommitted or untracked file.
FixedIsPublished ==
  pr # "none" =>
    \A w \in writes : status[w.by] = "fixed" => w \in remote

\* Nothing is published that a re-plan has not looked at: once the branch is
\* out, no write is newer than the last re-plan.
PublishedIsVerified == remote # {} => fresh

\* A dry run that returns, with or without an error, leaves no edit in the
\* tree and no commit, branch or pull request.
DryRunRestores ==
  opts.dryRun =>
    /\ committed = {} /\ remote = {} /\ pr = "none"
    /\ pc = "done" => writes = {} /\ uncommitted = {}

\* The exit code tells the scheduler what happened: 0 leaves the tree alone,
\* and 2 with edits left in the tree of a publishing run means that a pull
\* request carries them.
ExitCodes ==
  pc = "done" =>
    /\ exit = 0 => writes = {}
    /\ (exit = 2 /\ opts.openPR /\ writes # {}) => pr # "none"

\* No edit is applied in a round beyond the first one and max_retries more.
RetryBudget == \A w \in writes : w.round <= MaxRetries

\* A change that was given up on (its edits dropped) stays given up: no later
\* phase writes for it, gives it edits or reports it as fixed.
GivenUp(c) ==
  edits[c] = <<>> /\ status[c] \in {"skipped-protected", "could-not-fix", "remaining"}
GivenUpIsFinal ==
  [][\A c \in Changes : GivenUp(c) =>
       /\ edits'[c] = <<>> /\ status'[c] = status[c]
       /\ \A w \in writes' \ writes : w.by # c]_vars

\* The run ends, however often the re-plan stays dirty.
Terminates == <>(pc \in {"done", "killed"})

\* The run as seen from outside.
Promise == INSTANCE Reconcile WITH
  trusted <- live,
  edited <- {w.by : w \in writes},
  checked <- fresh,
  reported <- {c \in Changes : status[c] = "fixed"},
  published <- {w.by : w \in remote},
  requested <- (pr # "none"),
  over <- (pc \in {"done", "killed"})

\* Every run keeps the promise of Reconcile: decide, edit, check, report, publish
\* and request a review, in that order and with nothing left out.
KeepsPromise == Promise!Spec

(* What the documents say and the code does not do. *)

\* "a fresh refresh-plan must show the resource clean before it is called fixed".
FixedMeansClean ==
  \A c \in Changes : status[c] = "fixed" => ResourceOf[c] \notin dirty

\* A change reported as skipped was skipped: the branch holds no edit of it.
SkippedIsNotPublished ==
  pr # "none" => \A w \in remote : status[w.by] # "skipped-protected"
=============================================================================
