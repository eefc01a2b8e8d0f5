------------------------------ MODULE Resolution ------------------------------
(***************************************************************************)
(* From the provenance of one drifted attribute to the edits the client is *)
(* going to apply: resolveChange of cmd/terra-drift/sync.go with the guards*)
(* of internal/patch and the server's half of the minimal-diff check.      *)
(*                                                                         *)
(* The module extends the walk: when it is done, tiers 0 and 1 are edited  *)
(* at the target, tier 2 is proposed by the server and guarded, and the    *)
(* rest is left to a person.                                               *)
(***************************************************************************)
EXTENDS Provenance

CONSTANTS
  Globs,       \* the values of protected_paths to consider
  Attributes,  \* attribute names a proposal may use, besides Vars
  Proposals,   \* the edit lists the model may propose
  MaxUps       \* bound: how far below another root the command may run

\* A pattern `dir/**` covers everything below dir; without `/**` it stands for
\* the one path it matches.
AllGlobs == [dir: Seq(Segments) \ {<<>>}, below: BOOLEAN]
Blocks == {<<>>, <<"resource">>} \cup ({"module"} \X Nat) \cup ({"variable"} \X Vars)
AllEdits == [file: Located, block: Blocks,
             attribute: Vars \cup {Attr, "default"} \cup Attributes,
             op: {"set", "append_to", "ignore"}]
ASSUME GlobsAssumption == Globs \subseteq SUBSET AllGlobs
ASSUME MaxUpsAssumption == MaxUps \in Nat
ASSUME ProposalsAssumption == Proposals \subseteq Seq(AllEdits) \ {<<>>}

VARIABLES
  globs,   \* protected_paths of .terra-drift.yaml
  status,  \* c.Status
  edits    \* c.Edits
rvars == <<vars, globs, status, edits>>
-----------------------------------------------------------------------------
(* The guards. *)

\* How many leading ".." a path has.
Ups(p) == CHOOSE n \in 0..Len(p) :
            /\ \A i \in 1..n : p[i] = ".."
            /\ n < Len(p) => p[n + 1] # ".."
Below(dir, p) == Len(dir) <= Len(p) /\ \A i \in 1..Len(dir) : p[i] = dir[i]
Matches(g, p) == IF g.below THEN Below(g.dir, p) ELSE p = g.dir

\* (Deviation: one leading ../ is trimmed, no more.)
TrimmedOnce(p) == IF Ups(p) = 0 THEN p ELSE Tail(p)
Trimmed(p) == SubSeq(p, Ups(p) + 1, Len(p))
\* Protected: the path, or the path without its leading ../, matches a glob.
Protected(p, G) == \E g \in G : Matches(g, p) \/ Matches(g, Trimmed(p))

\* (Deviation: the last link is forgotten.)
ButLast(s) == 1..(Len(s) - 1)
Hops(s) == 1..Len(s)
\* AllowedFor: the files of the chain and of the target; the drifted attribute,
\* the names on the chain, and "default".
AllowedFiles ==
  ({result.target.file} \cup {chain[i].file : i \in Hops(chain)}) \ {NoFile}
AllowedAttrs ==
  {Attr, result.target.attribute, "default"} \cup {chain[i].name : i \in Hops(chain)}

\* ValidateAllowed: the server's check, on the attributes the client sends.
ValidateAllowed(p) == \A i \in 1..Len(p) : p[i].op = "ignore" \/ p[i].attribute \in AllowedAttrs
\* (Deviation: only the nearest caller is looked at.)
NearestOnly(e) ==
  \/ e.op = "ignore" \/ ~Protected(e.file, globs)
  \/ \A i \in 2..Len(chain) :
       \/ chain[i].file = NoFile \/ Protected(chain[i].file, globs)
       \/ i > 2
\* Guard: a protected file only when no caller can set the value elsewhere.
Guard(e) ==
  \/ e.op = "ignore" \/ ~Protected(e.file, globs)
  \/ \A i \in 1..Len(chain) :
       \/ chain[i].file = NoFile \/ Protected(chain[i].file, globs)
       \/ chain[i].kind = "resource_attr"
\* GuardMinimal: inside the allowed files and attributes.
GuardMinimal(e) == e.op = "ignore" \/ (e.file \in AllowedFiles /\ e.attribute \in AllowedAttrs)
-----------------------------------------------------------------------------
ResInit == Init /\ globs \in Globs /\ status = "pending" /\ edits = <<>>

Walk == Next /\ UNCHANGED <<globs, status, edits>>

Settle(s, es) ==
  /\ pc = "done" /\ status = "pending"
  /\ status' = s /\ edits' = es
  /\ UNCHANGED <<vars, globs>>

\* Tiers 0 and 1: one edit, at the target; no guard is asked.
EditTarget ==
  /\ Deterministic
  /\ Settle("resolved", <<[file |-> result.target.file, block |-> result.target.block,
                           attribute |-> result.target.attribute, op |-> "set"]>>)

\* Tier 2: the call fails, as it does when the server rejects every reply, or it
\* returns a list that passed there; the first edit a guard rejects decides.
AskServer ==
  /\ result.tier = "tier2"
  /\ \/ Settle("could-not-fix", <<>>)
     \/ \E p \in Proposals :
          /\ ValidateAllowed(p)
          /\ \/ (\A i \in 1..Len(p) : Guard(p[i]) /\ GuardMinimal(p[i])) /\ Settle("resolved", p)
             \/ \E i \in 1..Len(p) :
                  /\ \A j \in 1..(i - 1) : Guard(p[j]) /\ GuardMinimal(p[j])
                  /\ \/ ~Guard(p[i]) /\ Settle("skipped-protected", <<>>)
                     \/ Guard(p[i]) /\ ~GuardMinimal(p[i]) /\ Settle("could-not-fix", <<>>)

\* (Deviation: an error of the walk is not looked at.)
OnlyOpaque ==
  /\ result.tier = "tier3"
  /\ Settle("could-not-fix", <<>>)
\* Tier 3, and a walk that failed.
LeaveToHuman ==
  /\ result.tier \in {"tier3", "error"}
  /\ Settle("could-not-fix", <<>>)

ResNext == Walk \/ EditTarget \/ AskServer \/ LeaveToHuman
ResSpec == ResInit /\ [][ResNext]_rvars /\ WF_rvars(ResNext)
-----------------------------------------------------------------------------
(* Correctness. *)

\* Type invariant of the resolution.
ResTypeOK ==
  /\ TypeOK
  /\ globs \in Globs
  /\ status \in {"pending", "resolved", "could-not-fix", "skipped-protected"}
  /\ edits \in Seq(AllEdits)

\* "Never edit under protected_paths when the value is settable from a caller",
\* for the edits the client makes without asking a guard as well: when a
\* protected file is edited, no place further up the chain is unprotected.
ProtectedOnlyAtTheTop ==
  \A i \in 1..Len(edits) :
    edits[i].op # "ignore" /\ Protected(edits[i].file, globs) =>
      \A j \in 1..Len(chain) :
        \/ Protected(chain[j].file, globs) \/ chain[j].file = NoFile
        \/ \E k \in j..Len(chain) : chain[k].file = edits[i].file

\* Whichever root the command runs in, further down or further up, a file of the
\* chain is protected from all of them or from none: any number of `..` before
\* its path changes nothing, unless a pattern itself climbs out of the root.
Climb(k) == [i \in 1..k |-> ".."]
RootIndependent ==
  (\A g \in globs : g.dir[1] # "..") =>
    \A i \in 1..Len(chain), k \in 1..MaxUps :
      Protected(Climb(k) \o chain[i].file, globs) <=> Protected(chain[i].file, globs)

\* The guards leave a way: for every place on the chain that the walk located
\* there is an edit which server and client both accept, if it is not protected.
NoHopExcluded ==
  pc = "done" /\ result.tier = "tier2" =>
    \A i \in 1..Len(chain) :
      LET e == [file |-> chain[i].file, block |-> <<>>, attribute |-> chain[i].name, op |-> "set"]
      IN  e.file # NoFile /\ ~Protected(e.file, globs)
            => ValidateAllowed(<<e>>) /\ Guard(e) /\ GuardMinimal(e)

\* The resolution of every attribute ends.
Resolves == <>(status # "pending")
=============================================================================
