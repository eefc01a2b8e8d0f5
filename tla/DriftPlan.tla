------------------------------- MODULE DriftPlan -------------------------------
(***************************************************************************)
(* What internal/drift reads out of the JSON of a refresh-only plan: which *)
(* resources differ from the state, in which attributes, and the digest by *)
(* which one drift set is told from another.                               *)
(*                                                                         *)
(* A plan is the list resource_drift: records of an address and the values *)
(* of the resource's attributes before and after, as functions on the      *)
(* attributes that are present.  The list comes in any order.              *)
(***************************************************************************)
EXTENDS Integers, Sequences

CONSTANTS
  Null,   \* the JSON value null
  Blank,  \* the text of a value that is not there at all
  Gone    \* the whole of `after` when it is null

Deleted(r) == r.after = Gone

\* Decoded, a value that is absent is like null; its text is not.
Decoded(m, k) == IF k \in DOMAIN m THEN m[k] ELSE Null
Text(m, k) == IF k \in DOMAIN m THEN m[k] ELSE Blank
Keys(r) == DOMAIN r.before \cup DOMAIN r.after

\* (Deviation: the texts are compared, so that null differs from absent.)
ChangedTexts(r) == {k \in Keys(r) : Text(r.before, k) # Text(r.after, k)}
\* ChangedAttrs compares the decoded values.
ChangedAttrs(r) == {k \in Keys(r) : Decoded(r.before, k) # Decoded(r.after, k)}

\* The lines of one resource: address, attribute and the text of the live value.
Lines(r) ==
  IF Deleted(r) THEN {<<r.address, "deleted">>}
  ELSE {<<r.address, k, Text(r.after, k)>> : k \in ChangedAttrs(r)}

\* Hash sorts the lines of all resources and digests them: it depends on the set
\* of lines only, and is taken to differ for different sets.
Hash(p) == UNION {Lines(p[i]) : i \in 1..Len(p)}
=============================================================================
