------------------------------ MODULE MCDriftPR ------------------------------
(* Instances of DriftPR for TLC. *)
EXTENDS DriftPR, TLC

CONSTANTS u1, u2, u3, prod, web, db, log, size, tags, small, large

Drift(address, attribute, after) ==
  [address |-> address, attribute |-> attribute, after |-> after]
Resized == Drift(web, size, small)
Lost == Drift(db, Gone, Gone)
Cleared == Drift(web, tags, Null)
SomeItems == {Resized, Lost, Cleared}
SomeDrifts == {{}, {Resized, Lost}, {Cleared}}
SomeOlds == {Null, large}
QuietLog == [address |-> log, before |-> [k \in {tags} |-> Null], after |-> <<>>]

Bitbucket == [provider |-> "bitbucket", push_mode |-> ""]
\* GitHub and GitLab have no lookup and are pushed to with git.
PlainHost == [provider |-> "github", push_mode |-> ""]
Defaults == {Bitbucket, PlainHost}
\* Bitbucket with push_mode git: the lookup of the API, the transport of git.
GitTransport == {[provider |-> "bitbucket", push_mode |-> "git"]}

ThreeRuns == {u1, u2, u3}
OneRoot == [r \in Runs |-> prod]
AnyRun == Permutations(Runs)
=============================================================================
