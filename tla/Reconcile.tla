------------------------------- MODULE Reconcile -------------------------------
(***************************************************************************)
(* What a run of `terra-drift sync` promises, whatever it calls and in     *)
(* however many rounds: it edits code only for what the operator trusts    *)
(* live, it reports and publishes nothing it has not checked since its     *)
(* last edit, and it asks for a review only of a branch that carries every *)
(* edit of what it reports as fixed.  SyncRun implements this.             *)
(***************************************************************************)
CONSTANTS Changes, Resources, ResourceOf

VARIABLES
  trusted,    \* resources whose live version is to be kept
  edited,     \* changes the working tree holds an edit for
  checked,    \* the code has been compared with reality since the last edit
  reported,   \* changes reported as fixed
  published,  \* changes the branch holds an edit for
  requested,  \* there is a pull request
  over        \* the run has ended
vars == <<trusted, edited, checked, reported, published, requested, over>>

Init ==
  /\ trusted = {} /\ edited = {} /\ reported = {} /\ published = {}
  /\ ~checked /\ ~requested /\ ~over

InTrust == {c \in Changes : ResourceOf[c] \in trusted}

\* The operator decides, once and before any edit.
Decide ==
  /\ ~over /\ trusted = {} /\ edited = {}
  /\ trusted' \in SUBSET Resources
  /\ UNCHANGED <<edited, checked, reported, published, requested, over>>

\* Edits go on until something is reported or published.
Edit ==
  /\ ~over /\ reported = {} /\ published = {}
  /\ \E c \in InTrust : edited' = edited \cup {c}
  /\ ~checked'
  /\ UNCHANGED <<trusted, reported, published, requested, over>>

Check ==
  /\ ~over /\ reported = {} /\ published = {} /\ checked'
  /\ UNCHANGED <<trusted, edited, reported, published, requested, over>>

\* The report may be the last thing a run does.
Report ==
  /\ ~over /\ checked /\ reported = {} /\ published = {}
  /\ reported' \in SUBSET InTrust
  /\ over' \in BOOLEAN
  /\ UNCHANGED <<trusted, edited, checked, published, requested>>

Publish ==
  /\ ~over /\ checked
  /\ published' \in SUBSET edited
  /\ UNCHANGED <<trusted, edited, checked, reported, requested, over>>

Request ==
  /\ ~over /\ reported \cap edited \subseteq published
  /\ requested' /\ over'
  /\ UNCHANGED <<trusted, edited, checked, reported, published>>

\* A run that shows its edits only takes them back.
TakeBack ==
  /\ ~over /\ reported = {} /\ published = {}
  /\ edited' \in SUBSET edited /\ over'
  /\ UNCHANGED <<trusted, checked, reported, published, requested>>

Stop ==
  /\ ~over /\ over'
  /\ UNCHANGED <<trusted, edited, checked, reported, published, requested>>

Next == Decide \/ Edit \/ Check \/ Report \/ Publish \/ Request \/ TakeBack \/ Stop

Spec == Init /\ [][Next]_vars
=============================================================================
