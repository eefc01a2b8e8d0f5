------------------------------ MODULE MCSyncRun ------------------------------
(***************************************************************************)
(* Small instances of SyncRun: two drifted attributes, two files, and a    *)
(* server whose proposals cover a set, an append, an ignore and an edit    *)
(* that each of the two guards rejects.                                    *)
(***************************************************************************)
EXTENDS SyncRun, TLC

CONSTANTS c1, c2, r1, r2, f1, f2

Edit(file, op, verdict) == [file |-> file, op |-> op, verdict |-> verdict]

set1      == Edit(f1, "set", "ok")
set2      == Edit(f2, "set", "protected")   \* deterministic edits are not guarded
append1   == Edit(f1, "append_to", "ok")
append2   == Edit(f2, "append_to", "ok")
forbidden == Edit(f2, "set", "protected")
stray     == Edit(f1, "append_to", "outside")
ignored   == Edit(NoFile, "ignore", "ok")

AllEdits   == {set1, set2, append1, append2, stray, ignored}

\* c1 and c2 drifted on different resources.
TwoResources == c1 :> r1 @@ c2 :> r2
Single       == c1 :> r1

Targets      == c1 :> set1 @@ c2 :> set2
SingleTarget == c1 :> set1

\* A rich answer for c1, an append, nothing or a rejected edit for c2.
MixedProposals ==
  c1 :> {<<append1>>, <<set1, append2>>, <<append1, stray>>}
  @@ c2 :> {<<append2>>, <<ignored>>, <<forbidden>>}
OneAppend   == c1 :> {<<append1>>}
SkipProposals == c1 :> {<<append1>>, <<forbidden>>} @@ c2 :> {<<append2>>}

OnlyTransforming == {"tier2"}
EveryEditor      == {"tier1", "tier2", "tier3"}
=============================================================================
