# TLA+ models of terra-drift

terra-drift detects drift between Terraform code and real infrastructure. When
the operator decides to trust the live side, it rewrites the code to match and
opens a pull request. This directory holds TLA+ modules that model the parts of
it where order, failure and concurrency matter, the TLC configurations that
check them on small instances, and proofs that TLAPS checks for all instances.
`PROJECT.json` lists the components, the runs, the source lines behind each
definition, the hazards with the properties aimed at them, and the theorems.

## 1. The system

### Components

| Component | Source | State it keeps | Operations |
|---|---|---|---|
| sync command | `cmd/terra-drift/sync.go` | the `changes` slice (tier, status, note, edits), the touched files, the attempt counter; through it the working tree and the local branch | detect, report, dedupe, trust, classify, apply, commit, verify and retry, finalize, publish, pull request |
| trust decision | `internal/trust` | none | `Resolve` and its prompts |
| terraform runner | `internal/tf` | none (runs `terraform`) | `RefreshPlan`, `Fmt`, `Validate`, `Classify` of errors |
| patch and guards | `internal/patch` | files of the root | `Apply`, `Guard`, `AllowedFor`, `GuardMinimal` |
| provenance | `internal/provenance` | parsed configuration, for one walk | `Walk`, `Locate`, `findBlock`, `findTfvarsAttr` |
| drift plan and hash | `internal/drift` | none | `ParsePlan`, `ChangedAttrs`, `Report`, `Hash`, `Summarize` |
| git and git host | `internal/gitops` | local branch; on the host branches and pull requests | `NewBranch`, `Commit`, `Push`, `PublishBranch`, `FindOpenPR`, `OpenPR`, `UpdatePR` |
| MCP client | `internal/mcpclient` | none (one session per call) | `Propose`, `Explain` |
| tool handlers | `internal/tool/tool.go` | per call: attempt, tokens, deadline | `propose_hcl_edits`, `explain_drift` |
| cache, limiter, metrics | `internal/tool/{cache,limits}.go` | entries with expiry, a fixed window, four counters, all of one process | `Get`/`Put`, `allow`, `Add` |
| server main | `cmd/terra-drift-mcp` | the process | serve over stdio or http |
| redaction | `internal/redact` | placeholder table of one call | `Redact`, `Restore` |
| model providers, prompt, schema, config, secrets, doctor/check/explain | the rest | none | read-only or request encoding |

### How they interact

`sync` is one sequential process. It calls terraform and git as subprocesses,
the model server once per tier-2 attribute and once per retry of it, and the
git host over REST. Those calls are the only places where it waits, and each may
fail. The model server is either started by the client for every call (stdio,
the default) or is one long-lived http process. There the handlers run
concurrently and share the cache, the limiter (a mutex each) and atomic
counters. Several `sync` runs (a schedule, several roots, a person and a
schedule) share nothing but the git host and the infrastructure.

### What is hard

- The status of a change is provisional until the end of a run; a *note text*
  set in one phase decides in another whether it is called fixed.
- A retry goes through the same code as the first proposal, on top of the edits
  already applied and kept.
- Edits are applied one by one and can stop half-way; git commits whole files.
- Publish and pull request are separate calls, made long after the lookup that
  decided between them; a run may die anywhere.
- The cache and the limiter are shared by handlers that interleave, and depend
  on the clock at their boundaries.
- The client edits a value on its own wherever the provenance walk says it comes
  from: a wrong frame, file or tier silently edits something else. The walk, the
  guards and the server's check decide in three places about one chain.
- Redaction works in passes over text that earlier passes have changed, and the
  way back goes through a table in map order.
- The drift hash decides whether a pull request covers what a run sees; it is
  computed from a plan JSON whose order and content vary between runs.

## 2. The modules

| Module | Models | Kind |
|---|---|---|
| `SyncRun` | one `terra-drift sync` run | state machine, 20 actions |
| `Reconcile` | what a run promises | abstract specification, implemented by `SyncRun` |
| `Provenance` | `provenance.Walk` | state machine, one action per loop iteration, with a reference semantics |
| `Resolution` | `resolveChange`, both guards, the server's check; extends `Provenance` | state machine |
| `Redaction` | one exchange with the model: redact, reply, restore, validate | algorithm as operators, and a state machine around it |
| `ModelServer` | handlers, cache, limiter and counters of `terra-drift-mcp` | concurrent calls of 6 steps each, plus arrival, clock and restart |
| `DriftPlan` | changed attributes and hash of a plan JSON | operators |
| `DriftPR` | several runs against one git host; extends `DriftPlan` | runs of 5 steps plus failure, host and infrastructure |
| `MCSyncRun`, `MCResolution`, `MCRedaction`, `MCModelServer`, `MCDriftPR` | instances for TLC | constants only |
| `SyncRunProofs`, `SyncPromiseProofs`; `ResolutionProofs`, `ProvenanceProofs`; `RedactionProofs`; `ModelServerProofs`, `ServerMemoryProofs`; `DriftPRProofs` | theorems and their proofs | |

How they fit together: `SyncRun` implements `Reconcile` and treats two things as
any answer: what the walk and the guards say of an attribute, which `Resolution`
describes, and what the server proposes, which `ModelServer` (calls, cache,
limits) and `Redaction` (texts) describe. `DriftPR` takes everything `SyncRun`
does between lookup and publish as the single step `Edit`.

Operators whose comment starts with "(Deviation: ...)" are not part of any
specification. Each one is a plausible mistake in the code line that the
definition next to it models. Each property is checked to fail when one of them
takes the place of that definition.

### SyncRun and Reconcile

`pc` walks through the phases of `runSync`. A loop over `changes` visits one
change per step, with `todo` holding the rest. That a loop may visit the changes
in any order is sound: no iteration depends on the order except through the
files, and the commit loop really ranges over a map.

- `Detect`, `Report`, `Trust`, `Classify`, `ClassifyFails`, `Classified`:
  lines 70-191 and `classify`. `Trust` allows every outcome of `trust.Resolve`.
  The tier a change gets is any of `Tiers`, its deterministic edit is `Target`.
- `Propose` is the tier-2 branch of `resolveChange`, used both by `Classify` and
  by `Retry`. Each edit carries the verdict the guards give it. Accepted edits are
  appended to the edits the change has, as in the code.
- `DryRead`, `ApplyTrack`, `DryRestore`: `dryRunApply`. `ApplyTrack` is shared
  with api mode, as in the code.
- `ApplyTrack`/`FmtValidate` (api mode) and
  `ApplyPending`/`FmtValidate`/`CommitChange`/`Committed` (git mode): the two
  appliers. `patch.Apply` may fail at any edit that is not an "ignore".
- `Replan`, `Retry`, `Retried`: `verifyLoop`, `findResidual`, `markDirty`. The
  outcome of the re-plan is external: any set of dirty resources and any set of
  changes that still have a residual.
- `Finalize`, `Publish`, `PullRequest`, and `Kill` from every phase.

`writes` records every edit put into the tree, by change, position in the edit
list and round. `fresh` is a history variable: no write since the last re-plan.
Abstracted away: file contents (a set may or may not change a file, an append
always does), addresses and messages; a note is the kind of message it carries.

`Reconcile` knows seven variables (trusted resources, edited, reported and
published changes, whether the tree was checked since the last edit, the pull
request, the end) and says: decide once, edit only for what is trusted, report
and publish only what was checked, request a review only of a branch that
carries what was reported. `SyncRun!Promise` is the instance with the refinement
mapping, `KeepsPromise` the property.

### Provenance and Resolution

The configuration of a root is a record chosen in `Init`: the module calls from
the root down to the resource (`calls[1]` is the root's), the expression of the
drifted attribute, defaults, tfvars files in directory order, environment. An
expression has the form the plan JSON shows (`constant` or references), and in
addition what only the source shows, whether a single reference is the whole
expression. `Descend` is an iteration of `resolveFrames`; `FindResource` the code
up to the loop; `NotFollowed`, `ModuleArg`, `RootVar` an iteration of the loop by
its `switch`, `TooDeep` the loop's end. `findBlock` may find nothing, which is the
empty path `NoFile`. `LoadOrder` is the order `findTfvarsAttr` goes through.

The second half of `Provenance` is independent of the walk: `Meaning(c, w)`
evaluates the attribute the way Terraform does, top down, with the literal at
place `w` overwritten by the live value. A module argument that is left out takes
the default of the module's own variable (`"module default"`), an attribute that is
left out whatever the provider chooses. The properties compare the two.

`Resolution` goes on where the walk ends: `EditTarget` (tiers 0 and 1),
`AskServer` (tier 2, with `ValidateAllowed`, `Guard` and `GuardMinimal` edit by edit),
`LeaveToHuman`. Paths are sequences of segments, so that `..` and the patterns of
`protected_paths` can be told apart as the code does; a pattern is `dir/**` or one
path (other wildcards are left out). `Protected` matches a path as it is and with all its
leading `..` trimmed (`Trimmed`).

### Redaction

A text is a sequence of fragments, cut where a pattern may begin or end: words,
separators, the prefix of an ARN, account ids, addresses, placeholders. One pass
of `Replace` per pattern works on what the pass before has left, as
`ReplaceAllStringFunc` does; `Restore` substitutes the placeholders in any order,
because the code ranges over a map. The keys and tokens among the patterns match
isolated fragments like the one for addresses and are not repeated. `Units` says,
without passes, what the sensitive values of a text are. `Proposal`, `Reject` and
`Explanation` are the two handlers' use of it. A reply copies fragments of the
prompt; that a reply invents placeholders is left out.

What is redacted is the payload as `json.Marshal` has written it, and of that encoding the
model keeps the one thing the patterns can tell: where a word boundary is. Line
breaks, tabs, `<`, `>` and `&` are written as escapes that end in a letter or digit. Such a
separator is a `Break`, and an id or address right behind it is *glued* to the escape
(`Encoded`): the patterns that begin with `\b` do not match it. `Copy` is what a
reply says that repeats a fragment: decoded, a glued value is the value again. The
system prompt is not JSON and is redacted as it is.

### ModelServer

One record per call holds its place in the handler. The memory of each server
process is indexed by process. With http there is one current process and
`Restart` starts the next one and drops the calls in flight. With stdio `Arrive`
starts a process of its own. Atomic steps are what runs under one mutex: `Gate`
(limiter), `Lookup` (`Cache.Get`), `Put` (`Cache.Put`). The counters are atomic
in the code; the model updates them together with the step that ends the call,
which nobody can tell apart except by a scrape in between. Time is a counter
`now`; `Tick` can happen at any point. `born`, `gated` and `finished` are
history variables for the properties. An explain request that names no drift is
refused on arrival with an error that has no code (`untyped`), as in the code; the error
path of `prompt.Build` is left out, because what was just decoded from JSON encodes.

### DriftPlan and DriftPR

A run plans (`Start`), looks for the open drift pull request (`Lookup`), edits
(`Edit`), publishes (`Publish`) and opens or updates (`PullRequest`); `Fail` ends
it after any step. The drift of a root is a set of items (address, attribute,
live value, which is `Null` when the attribute was cleared; or a deletion, `Gone`).
`Start` sees it through a plan JSON. `Listings` are the ways a resource may be
listed: any other values before, and an attribute that is null, before or after, as
null or not at all. `Shown` puts the resources in any order, with or without one that differs
only by a null. `ChangedAttrs` compares decoded values, for which absent and null are one
(`Decoded`), but `Lines` prints the text of the live value, for which they are two
(`Text`), and `Hash` digests the lines; SHA-256 is taken to be injective.

The run goes on by terraform's exit code, as `sync.go:82` does, not by what the plan
lists: `ExitCodes` allows 2 without any drift, for a changed output or a
quiet resource. Such a run looks for a pull request with the digest of
nothing; what keeps it from publishing is that there is nothing to edit (`Editable`).
`Hosts`
holds provider and push mode as configured; `Manager` says which hosts implement
`PRManager` (Bitbucket does, GitHub and GitLab do not), `ResolvedPushMode` which
transport is used. `Merge`, `Close` and `Change` are the world. `rivals` (which runs
were in flight at a start) and `blind` (whose lookup failed) are history
variables that let the properties say under which circumstances more than one
pull request is legitimate.

## 3. Properties and runs

All passing runs finish within three minutes with two workers.

| Run | Checks | Shows |
|---|---|---|
| `SyncRun_mixed` | `TypeOK`, `GuardedWrites`, `FixedIsVerified`, `FixedIsPublished`, `PublishedIsVerified`, `DryRunRestores`, `ExitCodes`, `RetryBudget`, `GivenUpIsFinal`, `KeepsPromise`, `Terminates` | two attributes of two resources, all tiers but 0, which the code treats like 1; proposals that set, append, ignore and get rejected; api, git and dry-run modes; that the run implements `Reconcile`, and ends |
| `Resolution_attributes` | `ResTypeOK`, `EditTakesEffect`, `TierTellsOrigin`, `ChainIsRoute`, `ProtectedOnlyAtTheTop`, `RootIndependent`, `NoHopExcluded`, `Resolves` | about 100,000 configurations with up to four calls, the loop bound included |
| `Redaction_exchange` | `TypeOK`, `PromptsAreRedacted`, `PlaceholdersTellValues`, `CopiesComeBack` | all payloads of up to four fragments and two longer ones, written as JSON, one retry |
| `ModelServer_calls` | `TypeOK`, `CountersAddUp`, `AnswersAreAllowed`, `AnswersAreFresh`, `PaidOnce`, `EveryCallReturns` | two calls of every kind, with different allowed sets, one restart |
| `ModelServer_burst` | `MinuteBudget`, `RefusalIsHonest` | five calls, two per minute |
| `DriftPR_overlapping` | `HashTellsDrift`, `TypeOK`, `OneOpenPR`, `BodyTellsBranch`, `CoveredByBranch` | three overlapping runs on both kinds of host; drift listed in every way a plan may list it |

What the main ones say:

- `GuardedWrites`: the tree only receives edits for resources trusted live, each
  either the deterministic edit or one that passed both guards, in any round.
- `FixedIsVerified`: "fixed" means a re-plan after the last write, with the
  resource clean, with one exception, which is a defect (below).
- `FixedIsPublished`: every write of a change reported as fixed is on the branch.
- `PublishedIsVerified`: nothing newer than the last re-plan is published.
- `DryRunRestores`: a dry run that returns, with or without an error, leaves the
  tree as it was.
- `GivenUpIsFinal`: a change whose edits were dropped is never written for again.
- `KeepsPromise`: every step of a run is a step of `Reconcile` or changes nothing it
  sees. `Terminates`: every run ends.
- `EditTakesEffect`: with the live value written where the walk says, Terraform
  computes the live value. `TierTellsOrigin`: the client edits alone exactly when
  the attribute is unset or its value is, unchanged, a literal that somebody set or the root
  defaults to; a value that is the default *inside* a called module, and nothing
  else, is left to a human as "not set by caller". Both for
  configurations in which nothing is hidden from the walk (`Visible`: single
  references are bare, no variables from the environment or from JSON tfvars).
- `ChainIsRoute`: the links name the variables the value passes through, each
  argument in the file of its call, up to the root.
- `ProtectedOnlyAtTheTop`: when a protected file is edited, by whomever, no place
  further up the chain is unprotected. `RootIndependent`: a file of the chain is
  protected from all roots or from none, that is, any number of `..` before its path
  changes nothing, unless a pattern itself starts with `..`. `NoHopExcluded`: server and guards together leave an edit for every
  unprotected place on the chain. `Resolves`: every attribute gets a verdict.
- `PromptsAreRedacted`: no prompt of any attempt, system prompt and payload, holds an
  account id or an address, be it part of an ARN, with two exceptions that are
  defects (section 4): the value right behind a line break of the payload, and what a
  rejection quotes. `PlaceholdersTellValues`: one fragment per unit of the
  payload as JSON writes it, equal exactly for equal units; so the same
  value behind a line break and elsewhere is not shown as the same. `CopiesComeBack`: what the reply
  copies is restored to exactly what it stood for, in any order of the table.
- `AnswersAreAllowed`: no caller is given a proposal outside the attributes it
  allows, the cache included. `PaidOnce`: within the lifetime of an entry the
  same question to the same process costs once, for a call that starts after the
  first answer (calls that overlap may both miss and both pay). `AnswersAreFresh`: a
  cached answer is one that a call of the same process *with the same drift, live value and
  allowed set* paid for, no longer ago than the lifetime. `TypeOK` includes that
  every error has one of the typed codes, but for an explain request without drift.
- `MinuteBudget`: a fixed window admits up to 2n-1 calls in a sliding minute and
  never 2n. `RefusalIsHonest`: the refusal message is true.
- `HashTellsDrift`: two runs have the same hash only if they see the same drift,
  and they have it whenever they do, unless an attribute was cleared, which one plan may list
  as null and the other not at all. `TypeOK` of `DriftPR` includes that no run
  publishes or requests a review without drift, whatever the exit code said.
- `OneOpenPR`, `BodyTellsBranch`, `CoveredByBranch`: on the host, a second pull
  request, a body that does not fit its branch, and an early stop for a branch
  without the edits come only from a failed lookup, an overlap, or a run that
  stopped between publish and pull request.

### Bounds, and why they are enough

- `SyncRun`: two changes are enough for one to interfere with the other through
  a file, a commit or the loop's early return; two files distinguish shared from
  separate; `MaxRetries` = 2, the default, gives a first round, two retries and
  the degrading round. No counter is capped: the
  run ends by itself.
- `Resolution`: two variables distinguish the right one from another. One and two
  calls take every form of expression; three and four calls take plain ones, so
  that `MaxHops` = 3 (32 in the code) is reached and exceeded. Seven settings
  combine default, tfvars files of each kind and environment. The paths of the
  chain have none or one leading `..`, and `MaxUps` = 3 puts up to three more before
  them. Two patterns cover a directory and a file; proposals of one and two edits include a stray
  file, a stray attribute and an ignore.
- `Redaction`: six fragments, the `Break` among them; four of them in a row hold a whole ARN and
  one neighbour of each kind, or a value, its break and the value again; the
  two longer payloads hold an ARN, its account and an address, alone and inside,
  twice. `MaxValue` = 2 copied fragments, `ValidateRetryMax` = 1, the default.
- `ModelServer`: two callers for each race; a third one beside them is covered by the
  theorems. `MaxTime` and `MaxProcesses` bound the clock and the restarts, `CacheTTL`,
  `Minute` and `RequestTimeout` are one or two ticks so that each boundary is
  reached and crossed. Five calls at rate 2 fill two windows and overflow.
- `DriftPR`: three runs: one to open, one to fail or overlap, one to find what
  they left. The drift sets are nothing, a resized and a deleted resource, and a
  cleared attribute: the first tell orders and deletions, the last null from
  absent. Attributes had one of two values before (`Olds`).
  `MaxBlind` = 1 failed lookup. One root: the theorems cover more of them.
- Symmetry is used over calls and runs, which are interchangeable, and only for
  invariants.

### Fairness

`SyncRun!FairSpec`: `WF_vars(Step)`, the process keeps executing. It says that the
calls to terraform, git, the server and the host return, which their own timeouts
and exit give (the client sets no deadline on subprocesses, so this is an
assumption about terraform and git). `Kill` is not fair. `Resolution`:
`WF_rvars(ResNext)`, sequential code that runs to its return. `ModelServer`: weak
fairness of each call's handler, which is the Go scheduler plus the deadline that
`RequestTimeoutS` (never 0, `serverconfig.Load` replaces it) puts on
`Model.Complete`. Arrival, the clock and replies of the model are not fair.

`CHECK_DEADLOCK FALSE` in all runs: a run really ends, and the calls of a
behaviour are finitely many.

## 4. Where code and documents disagree

Each of these is a run that TLC refutes; `findings` in `PROJECT.json` quotes the
sentence.

- `SyncRun_fixed_dirty`: `markDirty` skips a change that already has a note. A
  tier-2 change whose *retry* failed at the server keeps that note, its old edits
  are applied again, and it ends as "fixed" with its resource still dirty.
- `SyncRun_skipped_published`: a retry that hits a protected path reports the
  change as skipped while its first edits are published.
- `ModelServer_stdio`: with stdio each call has its own process, so the cache
  never answers and unchanged drift is paid for every day.
- `DriftPR_git_transport`: on Bitbucket with `push_mode: git` a run pushes a new branch
  and then updates the body, hash included, of the pull request it found, which
  has another branch. Later runs on the same drift stop for a pull request
  without the fix, and no pull request has the branch with it. This is why
  `DriftPR_overlapping`, where `CoveredByBranch` holds, takes Bitbucket with its
  default transport. The theorems about bodies and branches name that transport as
  their hypothesis (`ApiTransport`); the others on `DriftPR` hold for both.
- `Resolution_template`: `"${var.x}-suffix"` has one reference and no constant, so
  the walk follows it as if it were `var.x` (`provenance.go:238`), and the client
  writes the attribute's live value over the source of `x`. The documents leave
  transforming expressions to the server.
- `Redaction_leak`: the payload is redacted after JSON has written it, and behind the escape
  of a line break, a tab, `<`, `>` or `&` there is no word boundary: an account id, key
  or address right there matches no pattern and is sent as it is, against
  `redact.go:3` and docs/index.html:510. Two steps show it, for the payload of a `Break` and an
  `Id`. The same property fails a second way, without any `Break` among the fragments: the
  reason of a rejection quotes the restored reply and goes into the next prompt
  unredacted (`tool.go:127`; four steps: the reply names an ARN as its attribute, is
  rejected, and is asked for again). `PromptsAreRedacted` excepts these two ways
  and nothing else.

Seen while modelling, described here without a run:

- *Sync run.* A retry appends to `c.Edits` and applies the whole list again, so an
  `append_to` of the first round is appended twice (`sync.go:501`). In git mode two
  changes of one file make one commit; the second has nothing to commit and the
  run ends with an error (`sync.go:570`), and so does a failed retry, which
  re-commits unchanged files. An `ignore` edit marks the empty path as touched, so
  that `collectFiles` fails on it (`sync.go:385`). The re-plan is refresh-only: it
  compares the state with the infrastructure, and the edited code is in neither
  (`sync.go:580`).
- *Drift.* Of two plans that show one drift, the one may list a cleared attribute as null, the
  other not at all: their hashes differ, although `hash.go:10-12` says that the same drift has the
  same hash (`hash.go:24`). A run goes on by terraform's exit code (`sync.go:82`), so that changed outputs
  alone lead to a lookup with the digest of an empty drift set.
- *Pull requests.* Roots whose configurations share the branch prefix, the default,
  adopt, rewrite and update one another's pull request (`bitbucket.go:142`), and
  the hash does not name the root. The hash covers all drift, also what the operator did not trust, so a second
  run stops for a pull request that leaves that out (`sync.go:109`). Two runs of one
  second get one branch name (`gitops.go:49`); only the first 50 pull requests are
  looked at (`bitbucket.go:121`).
- *Walk and guards.* A value that is the default of a called module's variable passes through
  to a literal, tier 1 by docs/index.html:496; the walk leaves it to a human (`provenance.go:175`).
  A resource in a module with count or for_each always ends as
  "module call not found" (`provenance.go:84`). Variables set by `TF_VAR_` or
  `*.tfvars.json` are not seen, so the edit of a default or of another file has no
  effect (`locator.go:51`). An edit's block is not checked (`minimal.go:47`), while
  README.md:39 says that only the drifted attributes may change. A pattern that
  starts with `..` protects only from the root it was written for (`guard.go:35`).
  One excerpt per file is sent (`sync.go:531`), so the server may not see the place
  the prompt tells it to prefer.
- *Redaction.* An ARN without an account id, such as that of an S3 bucket, matches no
  pattern (`redact.go:14`). A value behind a line break is not recognised as the same value
  elsewhere (`redact.go:23`).
- *Server.* The refusal of an explain request without drift has no code (`tool.go:164`), while
  docs/index.html:512 promises typed errors for limits only; tokens of a
  failed completion are not counted; placeholders the model invents are not
  rejected. The cache key leaves out `drift.before` and the excerpts, so that a retry
  is answered with the proposal that has just failed (`cache.go:20-24`).

## 5. Proofs

The proof modules show, for every value of the constants that satisfies the
assumptions of the module (only `DriftPR` needs finite sets, of runs and of items
drifted at one time):

| Theorem | Statement | Argument |
|---|---|---|
| `SyncRunProofs!TypeCorrect` | `Spec => []TypeOK` | `TypeOK` is inductive; one lemma for each group of actions |
| `SyncRunProofs!OnlyGuardedWrites` | `Spec => []GuardedWrites` | `GuardInv` |
| `SyncRunProofs!FixedOnlyVerified` | `Spec => []FixedIsVerified` | `VerifyInv` |
| `SyncRunProofs!PublishedOnlyVerified` | `Spec => []PublishedIsVerified` | `VerifyInv` |
| `SyncPromiseProofs!RetriesBounded` | `Spec => []RetryBudget` | `RetryInv` |
| `SyncPromiseProofs!DryRunLeavesNothing` | `Spec => []DryRunRestores` | `TidyInv` |
| `SyncPromiseProofs!ExitCodesTellTruth` | `Spec => []ExitCodes` | `TidyInv` |
| `SyncPromiseProofs!FixedAllPublished` | `Spec => []FixedIsPublished` | `TraceInv` |
| `SyncPromiseProofs!SyncKeepsPromise` | `Spec => KeepsPromise` | step simulation under all of the above |
| `SyncPromiseProofs!GiveUpIsFinal` | `Spec => GivenUpIsFinal` (an action property) | `Unresolved` |
| `ResolutionProofs!ResTypeCorrect` | `ResSpec => []ResTypeOK` | inductive |
| `ResolutionProofs!ChainAlwaysRoute` | `ResSpec => []ChainIsRoute` | `RouteInv` |
| `ResolutionProofs!ProtectedEditedAtTheTop` | `ResSpec => []ProtectedOnlyAtTheTop` | `RouteInv`, `EndInv`, `TopInv` |
| `ResolutionProofs!RootDoesNotMatter` | `ResSpec => []RootIndependent` | types, lemma `ClimbIsTrimmed` on paths |
| `ResolutionProofs!FreeHopsStayOpen` | `ResSpec => []NoHopExcluded` | `RouteInv`, the guards on each link |
| `ProvenanceProofs!EditsTakeEffect` | `ResSpec => []EditTakesEffect` | `OriginInv` |
| `ProvenanceProofs!TiersTellOrigin` | `ResSpec => []TierTellsOrigin` | `OriginInv` |
| `RedactionProofs!ExchangeTyped` | `Spec => []TypeOK` | `Asking` |
| `RedactionProofs!SecretsStay` | `Spec => []PromptsAreRedacted` | `Masked`, lemmas `BuildMasks` and `CopySays` |
| `RedactionProofs!EqualityStaysVisible` | `Spec => []PlaceholdersTellValues` | `Meant` |
| `RedactionProofs!CopiesComeBackAlways` | `Spec => []CopiesComeBack` | `Meant`, lemma `RestoreMeans` |
| `ModelServerProofs!TypeCorrect` | `Spec => []TypeOK` | `Typed` |
| `ModelServerProofs!AllAnswersAllowed` | `Spec => []AnswersAreAllowed` | `AllowedInv` |
| `ServerMemoryProofs!BudgetKept` | `Spec => []MinuteBudget` | `LimiterInv` |
| `ServerMemoryProofs!RefusalsAreHonest` | `Spec => []RefusalIsHonest` | `LimiterInv` |
| `ServerMemoryProofs!CachedAnswersFresh` | `Spec => []AnswersAreFresh` | `CacheInv` |
| `ServerMemoryProofs!ModelPaidOnce` | `Spec => []PaidOnce` | `CacheInv` |
| `ServerMemoryProofs!CountersExact` | `Spec => []CountersAddUp` | `CountersInv` |
| `DriftPRProofs!TypeCorrect` | `Spec => []TypeOK` | `PRInv` |
| `DriftPRProofs!HashAlwaysTellsDrift` | `Spec => []HashTellsDrift` | `HashOfPlan`, lemmas `DigestTells` and `DigestIsOne` |
| `DriftPRProofs!OneOpenAlways` | `Spec => []OneOpenPR` | `PRInv` |
| `DriftPRProofs!BodyAlwaysTellsBranch` | `ApiTransport` implies `Spec => []BodyTellsBranch` | `BodyInv` |
| `DriftPRProofs!CoveredAlwaysByBranch` | `ApiTransport` implies `Spec => []CoveredByBranch` | `BodyInv`, `HashOfPlan` |

*Sync run.* `GuardInv` adds to `GuardedWrites` that the *edit lists* hold admissible
edits only, of listed changes only: writes come from them, so `GuardedWrites` alone
is not inductive. `VerifyInv` adds what is known in each phase: no status is "fixed"
before the finalize phase, nothing is written or published before its phase, the
last re-plan is fresh from the retry phase on, and a listed change on a dirty
resource carries a note that makes it "remaining", or the note "proposal failed".
`RetryInv` ties the round to the counter: a round in which something was retried
is not the last one. `TidyInv` says for each phase what may be in the tree, and that
a dry run in its apply phase has saved every file that its writes, or the edits
still to come, touch (`Saved`). `TraceInv` accounts for every write on its way to the
branch: in api mode its file is touched; in git mode it is committed, or due
in the commit of its change, or its change can no longer be called fixed.
`SyncKeepsPromise` takes the steps one by one: `RefineStep` maps each to `Decide`,
`Edit`, `Check`, `Report`, `Publish`, `Request`, `TakeBack`, `Stop` or a stutter; the
invariants supply the abstract guards (an edit is for a trusted resource, nothing
is published unchecked, what is reported is on the branch when the review is
requested). `GiveUpIsFinal` is about steps, not states: a change without edits is passed
over by every loop. It needs `Unresolved`, that a change which the first classification
has still to visit has no status yet, because that step may give edits to any
other.

*Resolution.* `RouteInv` says that while the walk follows references, the length of
the chain and the frame determine one another and the expression is the one the
last link names; `ChainIsRoute` alone does not know which expression comes next.
`EndInv`: a deterministic target lies in the file of the last link, and tier 2 has
no target. From that and `Guard` follows `TopInv`: an edit in a protected file has
only protected files above it on the chain. `FreeHopsStayOpen`: the files and names
that the server and `GuardMinimal` allow are those of the same chain, so a link
outside the protected patterns passes all three checks. `RootDoesNotMatter` has no step to
argue about, only paths: what is trimmed off a path under k more `..` is what is trimmed off the
path and the k (`ClimbIsTrimmed`), and a pattern that does not start with `..` covers a
path with leading `..` only through the trimmed one.

*Walk and meaning.* The reference semantics is a recursive function over the calls.
Induction over data is not available as a schema, so `ScopesExist` argues by the least
level that the recursion would not reach; from then on a frame's values are given
by those of its caller's, or are the default of the module. `OriginInv` relates the two directions: Terraform evaluates
from the root down, the walk goes up. While it follows references, the meaning of
the whole attribute is the value of the expression it stands at, in that
expression's frame (`SameMeaning`, for each place that might be overwritten, unless
the walk has already passed that place). Where the walk ends this becomes the two properties.

*Redaction.* `Redact` and `Restore` are folds over positions of a text and over an
order of the table. `FoldExists` turns such a fold into a run, a sequence of states
from position to position (again by a least counterexample), and invariants of runs do the
rest. The pass for ARNs has the invariant `Cut`: it has made one fragment for each unit that starts
so far, and a unit that is an ARN has become the placeholder of exactly its
fragments. The passes for addresses and account ids work in place (`InPlace`). The table only grows
and keeps distinct values, so that equal values get equal placeholders. `RestoreMeans`: after
k substitutions the text consists, unit by unit, of the value of a unit if its
placeholder is among the first k of the order, and of the placeholder otherwise
(`Half`); substitution distributes over the units (`Put`). JSON comes
before all this: `Encoded` changes single fragments only, and has the same units as the
payload but for single values behind a break (`SameUnits`), which a reply decodes
again (`CopySays`); so what comes back is measured by the units of the payload itself.
In the state machine, `Asking`
adds to the types that the request does not change and an attempt still out is
within the bound; `Masked` that the prompt in hand is plain, not only the ones already
sent, and that every glued value in it stands behind a `Break` of the payload (the exception of
the property is proved to be exact: nothing else is ever glued); `Meant` that table and prompt say what `Units` says of the request, which needs
that a request has no placeholders of its own (`Payloads`).

*Server.* `Typed` adds to `TypeOK` that a call at the cache is a propose call, so that
its key is a key. `AllowedInv` says that every entry in the cache, and every answer
not yet returned, stays inside the allowed set *of its key*, which is what the
allowed set in the key is for: with the key of the mutant, AnswersAreAllowed fails.

*Server memory.* All of `ServerMemoryProofs` first needs that only finitely many calls
have arrived (`Active`), although `Calls` may be infinite. `LimiterInv` describes the
window: it was opened by an admitted call, nobody came after its end, its
counter is the number of calls since it opened, and the calls *before* it within one minute
of its opening are fewer than the rate, because the call that opened the earlier window is
not among them. That last part is what makes the bound 2n-1 and not 2n.
`CacheInv`: an entry stems from a call that paid and returned (`FilledInv`); until the
lifetime of a paid answer is over, the entry of its key lives at least as long,
also when a second miss overwrites it (`HeldInv`); and a later call with that key that is on its
way to the model missed, so that lifetime was over (`MissedInv`). `PaidOnce` speaks of two finished
calls; `MissedInv` is what is known while the second one is still on its way.
`CountersInv`: each counter is the size of a set of calls, or a sum over one, and a
step moves at most one call into it.

*Pull requests.* `HashOfShown`: the digest of any plan that shows a drift set consists, item by
item, of one of the lines that item may have (`IsDigest`), because a plan lists each resource
once, in one of its listings (`ListsAll`), the changed attributes of a listing are
exactly the drifted ones (`LinesOfListing`), and a quiet resource has none (`QuietIsSilent`).
Lines of different items differ (`LinesApart`), so the digest tells drift sets apart
(`DigestTells`); without cleared attributes each item has one line, and the digest is unique
(`DigestIsOne`). `PRInv` adds to `TypeOK`
that the clock counts the runs that have started, that pull requests are numbered
in order and opened by started runs (`InOrder`), that any two runs in flight are
rivals (`Together`), and `NoneBefore`: for a run whose lookup found nothing, every pull
request open *now* has a rival as its opener. `OneOpenPR` speaks of two pull requests
only when the second is there; `NoneBefore` is what is known before it is opened.
`BodyInv` is about a run between its publish and its pull request, when body and
branch really differ: the tip of the branch it wrote is its own or that of a rival
(`Tips`), its branch is that of the pull request it found (`ToItsBranch`), and a body
carries the digest of the run that wrote it (`Signed`), which `HashOfPlan` turns into the
same drift. `ToItsBranch` is where the transport matters: both theorems assume
`ApiTransport`, that a host with lookup (Bitbucket) is written to through its API. That
is the default of `ResolvedPushMode`, and `sync.go:168-173` then publishes to the branch it found. Without it
both properties are false, which the run `DriftPR_git_transport` shows.

Model-checked only: liveness (`Terminates`, `Resolves`, `EveryCallReturns`), which
rests on fairness and `ENABLED` and is out of the prover's reach. Every invariant
and every action property that a passing run checks is also proved. The six
properties of section 4 are false of the code, so there is nothing to prove.

## 6. Not modelled, and why

- HCL parsing and rewriting, HTTP requests and authentication, the
  wording of prompts: data, no protocol. JSON encoding is modelled as far as it moves word
  boundaries. Its errors in `prompt.Build` are left out (`tool.go:88-91`): what
  was decoded from JSON encodes.
- How `terraform plan -refresh-only` decides what is dirty: external; any answer.
- The regular expressions of redaction character by character, and wildcards of
  `protected_paths` other than `/**`.
- A failing disk in the deferred restore of a dry run; what a host does with a
  commit on an existing branch whose parent is the target's head.
- `check`, `explain`, `doctor`: read-only. `Locate`, `BlockSnippet` and the printed
  report only serve output. Reading configuration and secrets happens once, before
  anything that is modelled.

## 7. Plan

1. *(done)* `SyncRun`, `ModelServer`, `DriftPR`; type correctness and the first safety theorems.
2. *(done)* `Provenance` and `Resolution`, `Redaction`, `DriftPlan`; `Reconcile` and its
   refinement; the theorems of `SyncPromiseProofs`, `ResolutionProofs` and `DriftPRProofs`.
3. *(done)* `ServerMemoryProofs`, `ProvenanceProofs`, `RedactionProofs`, and the theorems left
   of `SyncRun`, `Resolution` and `DriftPR`: every invariant and action property of a
   passing run has its theorem.
4. An abstract memo table that the cache of `ModelServer` implements.
