------------------------------- MODULE DriftPR -------------------------------
(***************************************************************************)
(* Several runs of `terra-drift sync` against one repository on a git host *)
(* (cmd/terra-drift/sync.go, internal/gitops): each looks for the open     *)
(* drift pull request, publishes its branch and opens or updates the pull  *)
(* request.  The runs share nothing but the host, where reviewers merge    *)
(* and close pull requests in the meantime, and the infrastructure, which  *)
(* goes on drifting.  What one run does between the lookup and the publish *)
(* is the subject of SyncRun; here it is one step, Edit.  The digest a pull *)
(* request carries is taken from the plan JSON as DriftPlan describes it.  *)
(***************************************************************************)
EXTENDS DriftPlan, FiniteSets, SequencesExt

CONSTANTS
  Runs,          \* the runs of a behaviour
  NoRun,
  Roots,         \* Terraform roots of the repository, all with one branch prefix
  RootOf,        \* the root a run is for (--dir)
  Items,         \* what may drift: address, attribute and live value (Null when
                 \* it was cleared), or Gone for both when the resource was deleted
  Olds,          \* the values attributes may have had in the state
  DriftSets,     \* the sets of items that may be drifted at one time
  Quiet,         \* a resource that differs in null against absent only
  Hosts,         \* git settings: provider and push_mode
  MaxBlind       \* bound: runs whose lookup fails

ASSUME RunsAssumption ==
  /\ NoRun \notin Runs /\ IsFiniteSet(Runs) /\ RootOf \in [Runs -> Roots]
\* An attribute has one live value, and a deleted resource has none.  The values
\* of the attributes together are never mistaken for Gone, nor one for Blank.
ASSUME ItemsAssumption ==
  /\ DriftSets \subseteq SUBSET Items
  /\ {} \in DriftSets /\ \A S \in DriftSets : IsFiniteSet(S)
  /\ \A S \in DriftSets : \A x, y \in S :
       x.address = y.address /\ (x.attribute = y.attribute \/ x.attribute = Gone) => x = y
  /\ \A x \in Items :
       /\ x = [address |-> x.address, attribute |-> x.attribute, after |-> x.after]
       /\ x.address # Quiet.address /\ x.after # Blank
       /\ (x.attribute = Gone => x.after = Gone)
  /\ \A A \in SUBSET {x.attribute : x \in Items} : Gone \notin [A -> {x.after : x \in Items}]
  /\ Null # Blank /\ ~Deleted(Quiet)
  /\ \A k \in Keys(Quiet) : Decoded(Quiet.before, k) = Decoded(Quiet.after, k)
\* ResolvedPushMode refuses push_mode api for any other provider.
ASSUME HostAssumption ==
  /\ Hosts \subseteq [provider: {"", "bitbucket", "github", "gitlab"}, push_mode: {"", "api", "git"}]
  /\ \A g \in Hosts : g.push_mode = "api" => g.provider \in {"", "bitbucket"}
  /\ MaxBlind \in Nat

VARIABLES
  git,         \* the git host
  drift,       \* per root: the items that differ between code and reality
  seconds,     \* the clock that names branches
  branches,    \* per name: the run that wrote its tip ("NoRun": no branch)
  prs,         \* the pull requests, by number
  pc,          \* per run: its phase
  plan,        \* the drift its plan showed
  hash,        \* the digest of that plan
  existing,    \* the pull request its lookup found (0: none)
  branch,      \* the branch it publishes to
  blind,       \* runs that wanted to look and could not (history variable)
  rivals       \* per run: the runs in flight when it started (history variable)

host == <<branches, prs>>
runs == <<pc, plan, hash, existing, branch, blind, rivals>>
vars == <<git, drift, seconds, host, runs>>

Names   == 1..Cardinality(Runs)
Numbers == 1..Cardinality(Runs)
Ended   == {"clean", "covered", "kept", "opened", "updated", "failed"}

\* An unused number.
NoPR == [state |-> "none", branch |-> 0, covers |-> {}, by |-> NoRun, opener |-> NoRun]
Open == {i \in Numbers : prs[i].state = "open"}

\* Only Bitbucket has the calls to find and update a pull request.
Manager(g) == g.provider \in {"", "bitbucket"}
\* api is the default for Bitbucket, git for every other provider.
ResolvedPushMode(g) ==
  IF g.push_mode # "" THEN g.push_mode
  ELSE IF g.provider \in {"", "bitbucket"} THEN "api" ELSE "git"

\* What may be listed of the resource at address a: every drifted attribute had
\* some other value; one that is null, before or after, may also be left out.
\* (Of a deleted resource nobody reads what it had before.)
Listings(a, S) ==
  LET own == {x \in S : x.address = a}
      attrs == {x.attribute : x \in own}
      live == [k \in attrs |-> (CHOOSE x \in own : x.attribute = k).after]
      befores == {b \in UNION {[K -> Olds] : K \in SUBSET attrs} :
                    \A k \in attrs : Decoded(b, k) # live[k]}
      afters == {[k \in K |-> live[k]] : K \in {K \in SUBSET attrs :
                    \A k \in attrs \ K : live[k] = Null}}
  IN  IF Gone \in attrs THEN {[address |-> a, before |-> <<>>, after |-> Gone]}
      ELSE [address: {a}, before: befores, after: afters]

\* The plan JSONs that may show the drift S: its resources, and possibly a quiet
\* one, in any order.
Shown(S) ==
  LET at == {x.address : x \in S}
      listed == {R \in SUBSET UNION {Listings(a, S) : a \in at} :
                   \A a \in at : \E r \in R : R \cap Listings(a, S) = {r}}
  IN  UNION {SetToSeqs(R) \cup SetToSeqs(R \cup {Quiet}) : R \in listed}
\* The digests that the drift S may be given.
DigestsOf == [S \in DriftSets |-> {Hash(p) : p \in Shown(S)}]

Init ==
  /\ git \in Hosts
  /\ drift \in [Roots -> DriftSets]
  /\ seconds = 0
  /\ branches = [n \in Names |-> NoRun]
  /\ prs = [i \in Numbers |-> NoPR]
  /\ pc = [r \in Runs |-> "idle"]
  /\ plan = [r \in Runs |-> {}] /\ hash = [r \in Runs |-> {}]
  /\ existing = [r \in Runs |-> 0] /\ branch = [r \in Runs |-> 0]
  /\ blind = {} /\ rivals = [r \in Runs |-> {}]

Move(r, phase) == pc' = [pc EXCEPT ![r] = phase]
InFlight == {r \in Runs : pc[r] \notin {"idle"} \cup Ended}

-----------------------------------------------------------------------------
(* A run. *)

\* The refresh-only plan.  The run goes on by the exit code of terraform, which
\* also reports changes that are no drift of any attribute: of an output, say.
ExitCodes(S) == IF S = {} THEN {0, 2} ELSE {2}

\* A run takes a second at least, so that runs that do not overlap name their
\* branches apart.
Start(r) ==
  /\ pc[r] = "idle"
  /\ rivals' = [rivals EXCEPT ![r] = InFlight]
  /\ seconds' = seconds + 1
  /\ plan' = [plan EXCEPT ![r] = drift[RootOf[r]]]
  /\ \E h \in DigestsOf[drift[RootOf[r]]] : hash' = [hash EXCEPT ![r] = h]
  /\ \E code \in ExitCodes(drift[RootOf[r]]) :
       Move(r, IF code = 0 THEN "clean" ELSE "lookup")
  /\ UNCHANGED <<git, drift, host, existing, branch, blind>>

\* (Deviation: only a pull request that covers the same drift.)
SameOnly(r) == {i \in Open : prs[i].covers = hash[r]}
\* FindOpenPR: an open pull request whose branch has the prefix, the first one
\* of a list whose order is the host's.
Candidates(r) == Open

\* findExistingPR: a host without the API, or a failed call, counts as "no such
\* pull request"; one whose body carries the hash of this drift set ends the run.
Lookup(r) ==
  /\ pc[r] = "lookup"
  /\ \/ /\ Manager(git) /\ Candidates(r) # {}
        /\ \E i \in Candidates(r) :
             /\ existing' = [existing EXCEPT ![r] = i]
             /\ Move(r, IF prs[i].covers = hash[r] THEN "covered" ELSE "edit")
        /\ UNCHANGED blind
     \/ /\ ~Manager(git) \/ Candidates(r) = {}
        /\ Move(r, "edit") /\ UNCHANGED <<existing, blind>>
     \/ /\ Manager(git) /\ Cardinality(blind) < MaxBlind
        /\ blind' = blind \cup {r}
        /\ Move(r, "edit") /\ UNCHANGED existing
  /\ UNCHANGED <<git, drift, seconds, host, plan, hash, branch, rivals>>

\* (Deviation: the branch is never reused.)
NewName(r) == seconds
\* api mode reuses the branch of the pull request that was found; git mode
\* checks out a new one.
SourceBranch(r) ==
  IF ResolvedPushMode(git) = "api" /\ existing[r] # 0 THEN prs[existing[r]].branch ELSE seconds

\* (Deviation: the pull request first.)
PRFirst == <<"pr", "publish">>
\* Publish first, the pull request after it.
Order == <<"publish", "pr">>

\* (Deviation: the run goes on with nothing to edit.)
Regardless(r) == TRUE
\* Something can be edited only where something drifted.
Editable(r) == plan[r] # {}

\* Decide, edit and verify, all of which SyncRun describes: the run ends here when
\* nobody decides, the code is trusted or nothing can be edited.
Edit(r) ==
  /\ pc[r] = "edit"
  /\ \/ Move(r, "kept") /\ UNCHANGED branch
     \/ /\ Editable(r)
        /\ branch' = [branch EXCEPT ![r] = SourceBranch(r)]
        /\ Move(r, Order[1])
  /\ UNCHANGED <<git, drift, seconds, host, plan, hash, existing, blind, rivals>>

\* What a run that has no step left calls itself.
Outcome(r) == IF Manager(git) /\ existing[r] # 0 THEN "updated" ELSE "opened"
After(r, phase) == IF Order[2] = phase THEN Outcome(r) ELSE Order[2]

\* PublishBranch makes one commit on top of the target branch the tip of the
\* branch, new or not; `git push` is refused when another run took the name.
Publish(r) ==
  /\ pc[r] = "publish"
  /\ ResolvedPushMode(git) = "git" => branches[branch[r]] = NoRun
  /\ branches' = [branches EXCEPT ![branch[r]] = r]
  /\ Move(r, After(r, "publish"))
  /\ UNCHANGED <<git, drift, seconds, prs, plan, hash, existing, branch, blind, rivals>>

NextNumber == Cardinality({i \in Numbers : prs[i].state # "none"}) + 1

\* Update the pull request that was found, which the host accepts while it is
\* open, or open one.
PullRequest(r) ==
  /\ pc[r] = "pr"
  /\ LET i == existing[r] IN
     \/ /\ Manager(git) /\ i # 0 /\ prs[i].state = "open"
        /\ prs' = [prs EXCEPT ![i] = [@ EXCEPT !.covers = hash[r], !.by = r]]
     \/ /\ ~Manager(git) \/ i = 0
        /\ prs' = [prs EXCEPT ![NextNumber] =
             [state |-> "open", branch |-> branch[r], covers |-> hash[r],
              by |-> r, opener |-> r]]
  /\ Move(r, After(r, "pr"))
  /\ UNCHANGED <<git, drift, seconds, branches, plan, hash, existing, branch, blind, rivals>>

\* An error return or a killed job, after any step.
Fail(r) ==
  /\ r \in InFlight
  /\ Move(r, "failed")
  /\ UNCHANGED <<git, drift, seconds, host, plan, hash, existing, branch, blind, rivals>>

-----------------------------------------------------------------------------
(* The world around the runs. *)

\* Somebody changes the infrastructure, or the code.
Change ==
  /\ drift' \in [Roots -> DriftSets] /\ drift' # drift
  /\ UNCHANGED <<git, seconds, host, runs>>

\* A reviewer closes or merges a pull request.  What its branch reconciles, some
\* of the drift its run saw, is then in the code.
Close(i) ==
  /\ i \in Open
  /\ prs' = [prs EXCEPT ![i].state = "closed"]
  /\ UNCHANGED <<git, drift, seconds, branches, runs>>
Merge(i) ==
  /\ i \in Open
  /\ prs' = [prs EXCEPT ![i].state = "closed"]
  /\ LET w == branches[prs[i].branch]
     IN  IF w = NoRun THEN UNCHANGED drift
         ELSE /\ drift' \in [Roots -> DriftSets]
              /\ \E F \in SUBSET plan[w] : drift' = [drift EXCEPT ![RootOf[w]] = @ \ F]
  /\ UNCHANGED <<git, seconds, branches, runs>>

Run(r) == Start(r) \/ Lookup(r) \/ Edit(r) \/ Publish(r) \/ PullRequest(r) \/ Fail(r)
Next == \/ \E r \in Runs : Run(r)
        \/ Change
        \/ \E i \in Numbers : Close(i) \/ Merge(i)

Spec == Init /\ [][Next]_vars
-----------------------------------------------------------------------------
(* Correctness. *)

\* The lines of an item: a cleared attribute is listed as null or not at all.
LinesOf(x) ==
  IF x.attribute = Gone THEN {<<x.address, "deleted">>}
  ELSE {<<x.address, x.attribute, x.after>>}
       \cup IF x.after = Null THEN {<<x.address, x.attribute, Blank>>} ELSE {}
Digests == SUBSET UNION {LinesOf(x) : x \in Items}
PullRequests == [state: {"none", "open", "closed"}, branch: Nat, covers: Digests,
                 by: Runs \cup {NoRun}, opener: Runs \cup {NoRun}]

\* Type invariant; it includes that a run never publishes, nor opens or updates a
\* pull request, for no drift at all.
TypeOK ==
  /\ git \in Hosts
  /\ drift \in [Roots -> DriftSets]
  /\ seconds \in 0..Cardinality(Runs)
  /\ branches \in [Names -> Runs \cup {NoRun}]
  /\ prs \in [Numbers -> PullRequests]
  /\ pc \in [Runs -> {"idle", "lookup", "edit", "publish", "pr"} \cup Ended]
  /\ plan \in [Runs -> DriftSets] /\ hash \in [Runs -> Digests]
  /\ existing \in [Runs -> Numbers \cup {0}] /\ branch \in [Runs -> Names \cup {0}]
  /\ blind \subseteq Runs /\ rivals \in [Runs -> SUBSET Runs]
  /\ \A r \in Runs : pc[r] \in {"publish", "pr", "opened", "updated"} => plan[r] # {}

\* Two runs with the same digest see the same drift; two that see the same drift
\* have the same digest, in whatever order the plan lists it, with whatever else
\* and whatever the values were before -- unless an attribute was cleared, which
\* one plan may list as null and the other not at all.
Clears(S) == \E x \in S : x.after = Null
HashTellsDrift ==
  \A r, s \in Runs : pc[r] # "idle" /\ pc[s] # "idle" =>
    /\ hash[r] = hash[s] => plan[r] = plan[s]
    /\ plan[r] = plan[s] /\ ~Clears(plan[r]) => hash[r] = hash[s]

\* The two runs overlapped in time.
Rivals(r, s) == r \in rivals[s] \/ s \in rivals[r]

\* There is one open drift pull request, however the runs before failed: a
\* second one comes only from a run whose lookup failed, or that overlapped the
\* run that opened the first.
OneOpenPR ==
  Manager(git) =>
    \A i, j \in Open : i < j =>
      prs[j].opener \in blind \/ Rivals(prs[i].opener, prs[j].opener)

Tip(i) == branches[prs[i].branch]

\* Two runs that named their branches in the same second share a branch.
Shared(i) ==
  \E j \in Numbers \ {i} : prs[j].state # "none" /\ prs[j].branch = prs[i].branch

\* The tip of a branch may be ahead of the pull request: the run that wrote it
\* has not reached the pull request, never did, or overlapped the run that wrote
\* the body.
Ahead(i) ==
  /\ Tip(i) # NoRun
  /\ pc[Tip(i)] \in {"pr", "failed"} \/ Rivals(Tip(i), prs[i].by) \/ Shared(i)

\* The body of an open pull request and the tip of its branch come from one
\* run, unless the branch is ahead (again, not with push_mode git on Bitbucket).
BodyTellsBranch == \A i \in Open : Tip(i) = prs[i].by \/ Ahead(i)

\* A run stops early only for a pull request whose branch was written for
\* exactly its drift set, or is ahead of the pull request.  It is so where the
\* transport is the one of the API: with push_mode git a run publishes a new
\* branch and then updates the pull request of another.
\* (The pull request may have moved on once a later run has started.)
CoveredByBranch ==
  \A r \in Runs :
    LET i == existing[r]
    IN  pc[r] = "covered" /\ prs[i].covers = hash[r] =>
          (Tip(i) # NoRun /\ plan[Tip(i)] = plan[r]) \/ Ahead(i)
=============================================================================
