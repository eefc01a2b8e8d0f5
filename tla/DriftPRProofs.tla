----------------------------- MODULE DriftPRProofs -----------------------------
(***************************************************************************)
(* Theorems about the runs of sync against one git host, for any number of *)
(* runs, roots, drift sets and failed lookups, with their TLAPS proofs.    *)
(***************************************************************************)
EXTENDS DriftPR, FiniteSetTheorems, TLAPS

-----------------------------------------------------------------------------
(* The digest of a plan. *)

\* A digest of S has lines of its items only, and some line of each.
IsDigest(S, h) ==
  /\ h \subseteq UNION {LinesOf(x) : x \in S}
  /\ \A x \in S : h \cap LinesOf(x) # {}
Own(a, S) == {x \in S : x.address = a}

\* A deleted resource has no other item.
LEMMA GoneIsAlone ==
  ASSUME NEW S \in DriftSets, NEW x \in S, x.attribute = Gone
  PROVE  Own(x.address, S) = {x}
BY ItemsAssumption DEF Own

\* However a resource with drift is listed, its lines are those of its items.
LEMMA LinesOfListing ==
  ASSUME NEW S \in DriftSets, NEW a, Own(a, S) # {}, NEW m \in Listings(a, S)
  PROVE  IsDigest(Own(a, S), Lines(m))
<1> DEFINE own == Own(a, S)
           attrs == {x.attribute : x \in own}
           live == [k \in attrs |-> (CHOOSE x \in own : x.attribute = k).after]
           befores == {b \in UNION {[K -> Olds] : K \in SUBSET attrs} :
                         \A k \in attrs : Decoded(b, k) # live[k]}
           afters == {[k \in K |-> live[k]] : K \in {K \in SUBSET attrs :
                         \A k \in attrs \ K : live[k] = Null}}
<1>1. IF Gone \in attrs THEN m = [address |-> a, before |-> <<>>, after |-> Gone]
      ELSE m \in [address: {a}, before: befores, after: afters]
  BY DEF Listings, Own
<1>2. CASE Gone \in attrs
  <2>1. PICK x \in S : x.address = a /\ x.attribute = Gone
    BY <1>2 DEF Own
  <2>2. own = {x} /\ LinesOf(x) = {<<a, "deleted">>}
    BY <2>1, GoneIsAlone DEF LinesOf
  <2>3. Lines(m) = {<<a, "deleted">>}
    BY <1>1, <1>2 DEF Lines, Deleted
  <2> QED
    BY <2>2, <2>3 DEF IsDigest
<1>3. CASE Gone \notin attrs
  <2>1. \A x \in own : live[x.attribute] = x.after
    <3>1. TAKE x \in own
    <3>2. (CHOOSE y \in own : y.attribute = x.attribute) = x
      BY ItemsAssumption DEF Own
    <3> QED
      BY <3>2
  <2>2. PICK K \in SUBSET attrs : /\ m.after = [k \in K |-> live[k]]
                                  /\ \A k \in attrs \ K : live[k] = Null
    BY <1>1, <1>3
  <2>3. /\ m.address = a
        /\ \E J \in SUBSET attrs : m.before \in [J -> Olds]
        /\ \A k \in attrs : Decoded(m.before, k) # live[k]
    BY <1>1, <1>3
  <2>4. m.after # Gone
    <3>1. K \in SUBSET {x.attribute : x \in Items}
      BY ItemsAssumption DEF Own
    <3>2. \A k \in attrs : live[k] \in {x.after : x \in Items}
      BY <2>1, ItemsAssumption DEF Own
    <3>3. [k \in K |-> live[k]] \in [K -> {x.after : x \in Items}]
      <4> HIDE DEF live, attrs
      <4> QED
        BY <3>2
    <3>4. Gone \notin [K -> {x.after : x \in Items}]
      BY <3>1, ItemsAssumption
    <3>5. m.after \in [K -> {x.after : x \in Items}]
      BY <2>2, <3>3
    <3> QED
      BY <3>4, <3>5
  <2>5. \A k \in attrs : Decoded(m.after, k) = live[k]
    <3> HIDE DEF live, attrs
    <3>1. DOMAIN m.after = K /\ \A k \in K : m.after[k] = live[k]
      BY <2>2
    <3>2. \A k \in attrs : k \notin K => live[k] = Null
      BY <2>2
    <3> HIDE <2>2
    <3> QED
      BY <3>1, <3>2 DEF Decoded
  <2>6. Keys(m) \subseteq attrs
    <3> HIDE DEF live, attrs
    <3> QED
      BY <2>2, <2>3 DEF Keys
  <2>7. ChangedAttrs(m) = {k \in attrs : k \in Keys(m)}
    <3> HIDE DEF live, attrs
    <3> QED
      BY <2>3, <2>5, <2>6 DEF ChangedAttrs
  <2>8. attrs \subseteq Keys(m)
    <3> HIDE DEF live, attrs
    <3>1. ASSUME NEW k \in attrs, k \notin Keys(m) PROVE FALSE
      <4>1. Decoded(m.before, k) = Null /\ Decoded(m.after, k) = Null
        BY <3>1 DEF Keys, Decoded
      <4> QED
        BY <3>1, <4>1, <2>3, <2>5
    <3> QED
      BY <3>1
  <2>9. Lines(m) = {<<a, k, Text(m.after, k)>> : k \in attrs}
    <3> HIDE DEF live, attrs
    <3>1. ChangedAttrs(m) = attrs
      BY <2>7, <2>8
    <3> QED
      BY <2>3, <2>4, <3>1 DEF Lines, Deleted
  <2>10. \A x \in own : <<a, x.attribute, Text(m.after, x.attribute)>> \in LinesOf(x)
    <3>1. TAKE x \in own
    <3>2. x.attribute \in attrs /\ x.attribute # Gone /\ x.address = a
      BY <1>3 DEF Own
    <3>3. CASE x.attribute \in K
      <4>1. Text(m.after, x.attribute) = x.after
        <5>1. live[x.attribute] = x.after
          BY <2>1
        <5> HIDE DEF live, attrs
        <5> QED
          BY <2>2, <3>3, <5>1 DEF Text
      <4> QED
        BY <3>2, <4>1 DEF LinesOf
    <3>4. CASE x.attribute \notin K
      <4>1. x.after = Null
        BY <2>1, <2>2, <3>2, <3>4
      <4>2. Text(m.after, x.attribute) = Blank
        <5> HIDE DEF live, attrs
        <5> QED
          BY <2>2, <3>4 DEF Text
      <4> QED
        BY <3>2, <4>1, <4>2 DEF LinesOf
    <3> QED
      BY <3>3, <3>4
  <2>11. \A k \in attrs : \E x \in own : x.attribute = k
    OBVIOUS
  <2>12. \A x \in own : x.attribute \in attrs
    OBVIOUS
  <2> HIDE DEF live, attrs, own
  <2>13. Lines(m) \subseteq UNION {LinesOf(x) : x \in own}
    BY <2>9, <2>10, <2>11
  <2>14. \A x \in own : <<a, x.attribute, Text(m.after, x.attribute)>> \in Lines(m)
    BY <2>9, <2>12
  <2>15. \A x \in own : Lines(m) \cap LinesOf(x) # {}
    BY <2>10, <2>14
  <2> QED
    BY <2>13, <2>15 DEF IsDigest, own
<1> QED
  BY <1>2, <1>3

\* A quiet resource has no line.
LEMMA QuietIsSilent == Lines(Quiet) = {}
BY ItemsAssumption DEF Lines, ChangedAttrs

\* A plan lists each of its resources.
LEMMA ListsAll ==
  ASSUME NEW R, IsFiniteSet(R), NEW p \in SetToSeqs(R)
  PROVE  Hash(p) = UNION {Lines(r) : r \in R}
<1> DEFINE n == Cardinality(R)
<1>1. n \in Nat /\ p \in [1..n -> R] /\ \A i, j \in 1..n : i # j => p[i] # p[j]
  BY FS_CardinalityType DEF SetToSeqs
<1>2. p \in Injection(1..n, R)
  BY <1>1 DEF Injection, IsInjective
<1>3. IsFiniteSet(1..n) /\ Cardinality(1..n) = n
  BY <1>1, FS_Interval
<1>4. p \in Surjection(1..n, R)
  BY <1>2, <1>3, FS_Injection
<1>5. Len(p) = n
  BY <1>1
<1>6. {Lines(p[i]) : i \in 1..Len(p)} = {Lines(r) : r \in R}
  BY <1>1, <1>4, <1>5 DEF Surjection
<1> QED
  BY <1>6 DEF Hash

\* Whatever plan shows a drift set, its digest is one of that set.
LEMMA HashOfShown ==
  ASSUME NEW S \in DriftSets, NEW p \in Shown(S)
  PROVE  IsDigest(S, Hash(p))
<1> DEFINE at == {x.address : x \in S}
<1>1. PICK R \in SUBSET UNION {Listings(a, S) : a \in at} :
        /\ \A a \in at : \E r \in R : R \cap Listings(a, S) = {r}
        /\ p \in SetToSeqs(R) \/ p \in SetToSeqs(R \cup {Quiet})
  BY DEF Shown
<1>2. IsFiniteSet(R)
  <2> DEFINE f == [x \in S |-> CHOOSE r \in R : R \cap Listings(x.address, S) = {r}]
  <2>1. \A x \in S : f[x] \in R /\ R \cap Listings(x.address, S) = {f[x]}
    BY <1>1
  <2>2. \A r \in R : \E x \in S : r \in Listings(x.address, S)
    OBVIOUS
  <2>3. \A r \in R : \E x \in S : f[x] = r
    <3> HIDE DEF f
    <3> QED
      BY <2>1, <2>2
  <2>4. f \in Surjection(S, R)
    BY <2>1, <2>3 DEF Surjection
  <2>5. IsFiniteSet(S)
    BY ItemsAssumption
  <2> QED
    BY <2>4, <2>5, FS_Surjection
<1>3. Hash(p) = UNION {Lines(r) : r \in R}
  <2>1. CASE p \in SetToSeqs(R)
    BY <1>2, <2>1, ListsAll
  <2>2. CASE p \in SetToSeqs(R \cup {Quiet})
    <3>1. IsFiniteSet(R \cup {Quiet})
      BY <1>2, FS_AddElement
    <3>2. Hash(p) = UNION {Lines(r) : r \in R \cup {Quiet}}
      BY <2>2, <3>1, ListsAll
    <3> QED
      BY <3>2, QuietIsSilent
  <2> QED
    BY <1>1, <2>1, <2>2
<1>4. \A x \in S : x \in Own(x.address, S) /\ Own(x.address, S) \subseteq S
  BY DEF Own
<1>5. \A x \in S : \A m \in Listings(x.address, S) : IsDigest(Own(x.address, S), Lines(m))
  BY <1>4, LinesOfListing
<1>6. \A r \in R : \E x \in S : r \in Listings(x.address, S)
  OBVIOUS
<1>7. \A x \in S : \E r \in R : r \in Listings(x.address, S)
  BY <1>1
<1>8. \A r \in R : Lines(r) \subseteq UNION {LinesOf(x) : x \in S}
  BY <1>4, <1>5, <1>6 DEF IsDigest
<1>9. \A x \in S : \E r \in R : Lines(r) \cap LinesOf(x) # {}
  BY <1>4, <1>5, <1>7 DEF IsDigest
<1> QED
  BY <1>3, <1>8, <1>9 DEF IsDigest

\* Two items have a line in common only if they are the same.
LEMMA LinesApart ==
  ASSUME NEW x \in Items, NEW y \in Items, LinesOf(x) \cap LinesOf(y) # {}
  PROVE  x = y
<1>1. PICK l : l \in LinesOf(x) /\ l \in LinesOf(y)
  OBVIOUS
<1>2. x.after # Blank /\ y.after # Blank /\ Null # Blank
  BY ItemsAssumption
<1>3. x.address = y.address /\ x.attribute = y.attribute
  BY <1>1 DEF LinesOf
<1>4. x.after = y.after
  <2>1. CASE x.attribute = Gone
    BY <1>3, <2>1, ItemsAssumption
  <2>2. CASE x.attribute # Gone
    BY <1>1, <1>2, <1>3, <2>2 DEF LinesOf
  <2> QED
    BY <2>1, <2>2
<1> QED
  BY <1>3, <1>4, ItemsAssumption

\* The digest tells drift sets apart.
LEMMA DigestTells ==
  ASSUME NEW S \in DriftSets, NEW T \in DriftSets, NEW h, IsDigest(S, h), IsDigest(T, h)
  PROVE  S = T
<1>1. S \subseteq Items /\ T \subseteq Items
  BY ItemsAssumption
<1>2. ASSUME NEW A \in SUBSET Items, NEW B \in SUBSET Items, IsDigest(A, h), IsDigest(B, h)
      PROVE  A \subseteq B
  <2>1. SUFFICES ASSUME NEW x \in A PROVE x \in B
    OBVIOUS
  <2>2. PICK l \in h : l \in LinesOf(x)
    BY <1>2 DEF IsDigest
  <2>3. PICK y \in B : l \in LinesOf(y)
    BY <1>2 DEF IsDigest
  <2> QED
    BY <2>2, <2>3, LinesApart
<1> QED
  BY <1>1, <1>2

\* Where nothing was cleared, a drift set has one digest.
LEMMA DigestIsOne ==
  ASSUME NEW S \in DriftSets, ~Clears(S), NEW g, NEW h, IsDigest(S, g), IsDigest(S, h)
  PROVE  g = h
<1>1. \A x \in S : \E l : LinesOf(x) = {l}
  BY DEF Clears, LinesOf
<1>2. ASSUME NEW d, IsDigest(S, d) PROVE d = UNION {LinesOf(x) : x \in S}
  BY <1>1, <1>2 DEF IsDigest
<1> QED
  BY <1>2

\* The digest of a drift set is typed.
LEMMA DigestTyped == \A S \in DriftSets : \A h : IsDigest(S, h) => h \in Digests
BY ItemsAssumption DEF IsDigest, Digests

-----------------------------------------------------------------------------
(* The digest of a run is that of its plan. *)

HashOfPlan ==
  /\ drift \in [Roots -> DriftSets]
  /\ branches \in [Names -> Runs \cup {NoRun}]
  /\ plan \in [Runs -> DriftSets]
  /\ hash \in [Runs -> Digests]
  /\ \A r \in Runs : IsDigest(plan[r], hash[r])

LEMMA HashInit == Init => HashOfPlan
<1> SUFFICES ASSUME Init PROVE HashOfPlan
  OBVIOUS
<1>1. IsDigest({}, {}) /\ {} \in Digests
  BY DEF IsDigest, Digests
<1> QED
  BY <1>1, ItemsAssumption DEF Init, HashOfPlan

LEMMA HashStep == HashOfPlan /\ [Next]_vars => HashOfPlan'
<1> SUFFICES ASSUME HashOfPlan, [Next]_vars PROVE HashOfPlan'
  OBVIOUS
<1>1. CASE UNCHANGED vars
  BY <1>1 DEF vars, host, runs, HashOfPlan
<1>2. ASSUME NEW r \in Runs, Start(r) PROVE HashOfPlan'
  <2> DEFINE S == drift[RootOf[r]]
  <2>1. S \in DriftSets
    BY RunsAssumption DEF HashOfPlan
  <2>2. PICK h \in DigestsOf[S] : hash' = [hash EXCEPT ![r] = h]
    BY <1>2 DEF Start
  <2>3. PICK p \in Shown(S) : h = Hash(p)
    BY <2>1 DEF DigestsOf
  <2>4. IsDigest(S, h) /\ h \in Digests
    BY <2>1, <2>3, HashOfShown, DigestTyped
  <2>5. plan' = [plan EXCEPT ![r] = S]
    BY <1>2 DEF Start
  <2> HIDE DEF S
  <2>6. \A s \in Runs : IsDigest(plan'[s], hash'[s])
    <3>1. TAKE s \in Runs
    <3>2. IF s = r THEN plan'[s] = S /\ hash'[s] = h
          ELSE plan'[s] = plan[s] /\ hash'[s] = hash[s]
      BY <2>2, <2>5 DEF HashOfPlan
    <3> QED
      BY <2>4, <3>2 DEF HashOfPlan
  <2>7. plan' \in [Runs -> DriftSets] /\ hash' \in [Runs -> Digests]
    BY <2>1, <2>2, <2>4, <2>5 DEF HashOfPlan
  <2> QED
    BY <1>2, <2>6, <2>7 DEF HashOfPlan, Start, host
<1>3. ASSUME NEW r \in Runs, Lookup(r) PROVE HashOfPlan'
  BY <1>3 DEF HashOfPlan, Lookup, host
<1>4. ASSUME NEW r \in Runs, Edit(r) PROVE HashOfPlan'
  BY <1>4 DEF HashOfPlan, Edit, host
<1>5. ASSUME NEW r \in Runs, Publish(r) PROVE HashOfPlan'
  BY <1>5 DEF HashOfPlan, Publish
<1>6. ASSUME NEW r \in Runs, PullRequest(r) PROVE HashOfPlan'
  BY <1>6 DEF HashOfPlan, PullRequest
<1>7. ASSUME NEW r \in Runs, Fail(r) PROVE HashOfPlan'
  BY <1>7 DEF HashOfPlan, Fail, host
<1>8. CASE Change
  BY <1>8 DEF HashOfPlan, Change, host, runs
<1>9. ASSUME NEW i \in Numbers, Close(i) PROVE HashOfPlan'
  BY <1>9 DEF HashOfPlan, Close, runs
<1>10. ASSUME NEW i \in Numbers, Merge(i) PROVE HashOfPlan'
  <2>1. drift' \in [Roots -> DriftSets]
    BY <1>10 DEF Merge, HashOfPlan
  <2> QED
    BY <1>10, <2>1 DEF HashOfPlan, Merge, runs
<1> QED
  BY <1>1, <1>2, <1>3, <1>4, <1>5, <1>6, <1>7, <1>8, <1>9, <1>10 DEF Next, Run

\* The digest by which a run recognises a pull request (internal/drift/hash.go)
\* is the same for two runs only if they see the same drift; and it is the same
\* for two that do, unless an attribute was cleared, which a plan may list as
\* null or leave out.  So it is for any items, any earlier values, any order of
\* the plan and a quiet difference it shows.
THEOREM HashAlwaysTellsDrift == Spec => []HashTellsDrift
<1>1. HashOfPlan => HashTellsDrift
  <2> SUFFICES ASSUME HashOfPlan, NEW r \in Runs, NEW s \in Runs
               PROVE  /\ hash[r] = hash[s] => plan[r] = plan[s]
                      /\ plan[r] = plan[s] /\ ~Clears(plan[r]) => hash[r] = hash[s]
    BY DEF HashTellsDrift
  <2>1. /\ plan[r] \in DriftSets /\ plan[s] \in DriftSets
        /\ IsDigest(plan[r], hash[r]) /\ IsDigest(plan[s], hash[s])
    BY DEF HashOfPlan
  <2> QED
    BY <2>1, DigestTells, DigestIsOne
<1> QED
  BY <1>1, HashInit, HashStep, PTL DEF Spec

-----------------------------------------------------------------------------
(* The pull requests. *)

Used == {i \in Numbers : prs[i].state # "none"}
InBranch == {"publish", "pr"}

\* Branches are named by the second a run started in: as many have gone by as
\* runs have started.
Clock == seconds = Cardinality({r \in Runs : pc[r] # "idle"})

\* Numbers are given out in order, to runs that have started.
InOrder ==
  /\ \E k \in Numbers \cup {0} : Used = 1..k
  /\ \A i \in Used : prs[i].branch \in Names /\ prs[i].opener \in Runs /\ pc[prs[i].opener] # "idle"
  /\ \A r \in Runs : existing[r] # 0 => existing[r] \in Used
  /\ \A r \in Runs : pc[r] \in InBranch => branch[r] \in Names

\* Runs that are in flight together are rivals.
Together ==
  /\ \A r \in Runs : pc[r] = "idle" => rivals[r] = {} /\ existing[r] = 0
  /\ \A r, s \in InFlight : r # s => Rivals(r, s)

\* A run that found no pull request, in spite of a lookup, is a rival of every
\* run that has one open now: none was open at the lookup.
NoneBefore ==
  Manager(git) =>
    \A r \in Runs :
      pc[r] \in {"edit"} \cup InBranch /\ existing[r] = 0 /\ r \notin blind =>
        \A i \in Open : Rivals(prs[i].opener, r)

PRInv == TypeOK /\ HashOfPlan /\ Clock /\ InOrder /\ Together /\ NoneBefore

LEMMA RunsCount == Cardinality(Runs) \in Nat
BY RunsAssumption, FS_CardinalityType

LEMMA PRInit == Init => PRInv
<1> SUFFICES ASSUME Init PROVE PRInv
  OBVIOUS
<1>1. {} \in Digests
  BY DEF Digests
<1>2. TypeOK
  <2>1. NoPR \in PullRequests
    BY <1>1 DEF NoPR, PullRequests
  <2> QED
    BY <1>1, <2>1, RunsCount, ItemsAssumption DEF Init, TypeOK
<1>3. HashOfPlan
  BY HashInit
<1>4. Used = {}
  BY DEF Init, Used, NoPR
<1>5. Clock
  <2>1. {r \in Runs : pc[r] # "idle"} = {}
    BY DEF Init
  <2> QED
    BY <2>1, FS_EmptySet DEF Clock, Init
<1>6. InOrder
  <2>1. Used = 1..0
    BY <1>4
  <2> QED
    BY <1>4, <2>1 DEF Init, InOrder, InBranch
<1>7. Together /\ NoneBefore
  BY <1>4 DEF Init, Together, NoneBefore, InFlight, InBranch
<1> QED
  BY <1>2, <1>3, <1>5, <1>6, <1>7 DEF PRInv

\* The next number is the first that is unused.
LEMMA NextIsUnused ==
  ASSUME InOrder
  PROVE  \E k \in Numbers \cup {0} : Used = 1..k /\ NextNumber = k + 1
<1>1. PICK k \in Numbers \cup {0} : Used = 1..k
  BY DEF InOrder
<1>2. k \in Nat
  BY RunsCount DEF Numbers
<1>3. Cardinality(1..k) = k
  BY <1>2, FS_Interval
<1> QED
  BY <1>1, <1>2, <1>3 DEF NextNumber, Used

\* A run that edits ends there, or goes on to publish the drift it saw.
LEMMA EditMoves ==
  ASSUME NEW r \in Runs, Edit(r)
  PROVE  /\ pc[r] = "edit" /\ UNCHANGED <<seconds, host, plan, hash, existing, blind, rivals>>
         /\ \/ pc' = [pc EXCEPT ![r] = "kept"] /\ branch' = branch
            \/ /\ pc' = [pc EXCEPT ![r] = "publish"] /\ plan[r] # {}
               /\ branch' = [branch EXCEPT ![r] = SourceBranch(r)]
BY DEF Edit, Move, Order, Editable

-----------------------------------------------------------------------------
(* Starting, ending and the clock. *)

LEMMA ClockStep == PRInv /\ [Next]_vars => Clock' /\ seconds' \in 0..Cardinality(Runs)
<1> SUFFICES ASSUME PRInv, [Next]_vars PROVE Clock' /\ seconds' \in 0..Cardinality(Runs)
  OBVIOUS
<1> DEFINE started == {r \in Runs : pc[r] # "idle"}
<1>a. seconds = Cardinality(started) /\ IsFiniteSet(started)
  BY RunsAssumption, FS_Subset DEF PRInv, Clock
<1>b. seconds \in 0..Cardinality(Runs) /\ pc \in [Runs -> {"idle", "lookup", "edit", "publish", "pr"} \cup Ended]
  BY DEF PRInv, TypeOK
<1>c. ASSUME seconds' = seconds, started' = started
      PROVE  Clock' /\ seconds' \in 0..Cardinality(Runs)
  BY <1>a, <1>b, <1>c DEF Clock
<1>1. CASE UNCHANGED vars
  BY <1>1, <1>c DEF vars, runs
<1>2. ASSUME NEW r \in Runs, Start(r) PROVE Clock' /\ seconds' \in 0..Cardinality(Runs)
  <2>1. started' = started \cup {r} /\ r \notin started
    BY <1>b, <1>2 DEF Start, Move
  <2>2. Cardinality(started') = Cardinality(started) + 1 /\ IsFiniteSet(started')
    BY <1>a, <2>1, FS_AddElement
  <2>3. seconds' = Cardinality(started')
    BY <1>2, <1>a, <2>2 DEF Start
  <2>4. Cardinality(started') <= Cardinality(Runs)
    BY RunsAssumption, FS_Subset
  <2>5. Cardinality(started') \in Nat
    BY <2>2, FS_CardinalityType
  <2> QED
    BY <2>3, <2>4, <2>5, RunsCount DEF Clock
<1>3. ASSUME NEW r \in Runs, Lookup(r) PROVE started' = started /\ seconds' = seconds
  BY <1>3, <1>b DEF Lookup, Move
<1>4. ASSUME NEW r \in Runs, Edit(r) PROVE started' = started /\ seconds' = seconds
  BY <1>4, <1>b, EditMoves
<1>5. ASSUME NEW r \in Runs, Publish(r) PROVE started' = started /\ seconds' = seconds
  BY <1>5, <1>b DEF Publish, Move, After, Order, Outcome
<1>6. ASSUME NEW r \in Runs, PullRequest(r) PROVE started' = started /\ seconds' = seconds
  BY <1>6, <1>b DEF PullRequest, Move, After, Order, Outcome
<1>7. ASSUME NEW r \in Runs, Fail(r) PROVE started' = started /\ seconds' = seconds
  BY <1>7, <1>b DEF Fail, Move, InFlight
<1>8. CASE Change
  BY <1>8, <1>c DEF Change, runs
<1>9. ASSUME NEW i \in Numbers, Close(i) \/ Merge(i) PROVE started' = started /\ seconds' = seconds
  BY <1>9 DEF Close, Merge, runs
<1> QED
  BY <1>1, <1>2, <1>3, <1>4, <1>5, <1>6, <1>7, <1>8, <1>9, <1>c DEF Next, Run

-----------------------------------------------------------------------------
(* Types. *)

\* A run that edits has a branch to publish to.
LEMMA BranchNamed ==
  ASSUME PRInv, NEW r \in Runs, pc[r] = "edit"
  PROVE  SourceBranch(r) \in Names
<1> DEFINE started == {s \in Runs : pc[s] # "idle"}
<1>1. seconds \in Names
  <2>1. IsFiniteSet(started) /\ started # {}
    BY RunsAssumption, FS_Subset
  <2>2. Cardinality(started) # 0
    BY <2>1, FS_EmptySet
  <2> QED
    BY <2>2, RunsCount DEF PRInv, Clock, TypeOK, Names
<1>2. existing[r] # 0 => prs[existing[r]].branch \in Names
  BY DEF PRInv, InOrder
<1> QED
  BY <1>1, <1>2 DEF SourceBranch

\* What a run does to the pull requests.
LEMMA Requests ==
  ASSUME PRInv, NEW r \in Runs, PullRequest(r)
  PROVE  \/ /\ Manager(git) /\ existing[r] # 0 /\ Used' = Used /\ Open' = Open
            /\ \A i \in Numbers : prs'[i].branch = prs[i].branch /\ prs'[i].opener = prs[i].opener
            /\ prs' \in [Numbers -> PullRequests]
         \/ /\ Manager(git) => existing[r] = 0
            /\ prs' \in [Numbers -> PullRequests]
            /\ \E k \in Numbers \cup {0} :
                 /\ Used = 1..k /\ Used' = 1..(k + 1) \cap Numbers
                 /\ Open' = (Open \cup {k + 1}) \cap Numbers
                 /\ \A i \in Used : prs'[i] = prs[i]
                 /\ k + 1 \in Numbers => prs'[k + 1].opener = r /\ prs'[k + 1].branch = branch[r]
<1> USE RunsCount DEF Numbers
<1>1. /\ prs \in [Numbers -> PullRequests] /\ hash[r] \in Digests /\ branch[r] \in Nat
      /\ existing[r] \in Numbers \cup {0}
  BY DEF PRInv, TypeOK, Names
<1>2. CASE /\ Manager(git) /\ existing[r] # 0 /\ prs[existing[r]].state = "open"
           /\ prs' = [prs EXCEPT ![existing[r]] = [@ EXCEPT !.covers = hash[r], !.by = r]]
  <2>1. prs' \in [Numbers -> PullRequests]
    BY <1>1, <1>2 DEF PullRequests
  <2>2. \A i \in Numbers : /\ prs'[i].branch = prs[i].branch /\ prs'[i].opener = prs[i].opener
                           /\ prs'[i].state = prs[i].state
    BY <1>1, <1>2 DEF PullRequests
  <2> QED
    BY <1>2, <2>1, <2>2 DEF Used, Open
<1>3. CASE /\ ~Manager(git) \/ existing[r] = 0
           /\ prs' = [prs EXCEPT ![NextNumber] =
                [state |-> "open", branch |-> branch[r], covers |-> hash[r], by |-> r, opener |-> r]]
  <2>1. PICK k \in Numbers \cup {0} : Used = 1..k /\ NextNumber = k + 1
    BY NextIsUnused DEF PRInv
  <2>2. prs' \in [Numbers -> PullRequests]
    BY <1>1, <1>3 DEF PullRequests
  <2>3. \A i \in Numbers : i # k + 1 => prs'[i] = prs[i]
    BY <1>1, <1>3, <2>1
  <2>4. k + 1 \in Numbers =>
          prs'[k + 1].state = "open" /\ prs'[k + 1].opener = r /\ prs'[k + 1].branch = branch[r]
    BY <1>1, <1>3, <2>1
  <2>5. Used' = 1..(k + 1) \cap Numbers
    BY <2>1, <2>3, <2>4 DEF Used
  <2>6. Open' = (Open \cup {k + 1}) \cap Numbers
    BY <2>3, <2>4 DEF Open
  <2> QED
    BY <1>3, <2>1, <2>2, <2>3, <2>4, <2>5, <2>6
<1> QED
  BY <1>2, <1>3 DEF PullRequest

LEMMA TypeStep == PRInv /\ [Next]_vars => TypeOK'
<1> SUFFICES ASSUME PRInv, [Next]_vars PROVE TypeOK'
  OBVIOUS
<1> DEFINE Phases == {"idle", "lookup", "edit", "publish", "pr"} \cup Ended
           Reporting == {"publish", "pr", "opened", "updated"}
           Reports == \A r \in Runs : pc[r] \in Reporting => plan[r] # {}
           Rest == /\ git \in Hosts /\ prs \in [Numbers -> PullRequests]
                   /\ pc \in [Runs -> Phases] /\ existing \in [Runs -> Numbers \cup {0}]
                   /\ branch \in [Runs -> Names \cup {0}]
                   /\ blind \subseteq Runs /\ rivals \in [Runs -> SUBSET Runs] /\ Reports
<1>a. HashOfPlan' /\ seconds' \in 0..Cardinality(Runs)
  BY HashStep, ClockStep DEF PRInv
<1>b. hash' \in [Runs -> Digests]
  BY <1>a DEF HashOfPlan
<1>c. Rest
  BY DEF PRInv, TypeOK
<1>1. ASSUME UNCHANGED vars PROVE Rest'
  BY <1>1, <1>c DEF vars, host, runs
<1>2. ASSUME NEW r \in Runs, Start(r) PROVE Rest'
  <2>1. Reports'
    BY <1>2, <1>c DEF Start, Move
  <2>2. pc' \in [Runs -> Phases] /\ rivals' \in [Runs -> SUBSET Runs]
    BY <1>2, <1>c DEF Start, Move, InFlight, Ended
  <2> QED
    BY <1>2, <1>c, <2>1, <2>2 DEF Start, host
<1>3. ASSUME NEW r \in Runs, Lookup(r) PROVE Rest'
  BY <1>3, <1>c DEF Lookup, Move, InFlight, Ended, Candidates, Open, host
<1>4. ASSUME NEW r \in Runs, Edit(r) PROVE Rest'
  <2>1. SourceBranch(r) \in Names
    BY <1>4, BranchNamed DEF Edit
  <2> QED
    BY <1>4, <1>c, <2>1, EditMoves DEF Edit, Ended, host
<1>5. ASSUME NEW r \in Runs, Publish(r) PROVE Rest'
  BY <1>5, <1>c DEF Publish, Move, InFlight, Ended, After, Order
<1>6. ASSUME NEW r \in Runs, PullRequest(r) PROVE Rest'
  <2>1. prs' \in [Numbers -> PullRequests]
    BY <1>6, Requests
  <2> QED
    BY <1>6, <1>c, <2>1 DEF PullRequest, Move, InFlight, Ended, After, Order, Outcome
<1>7. ASSUME NEW r \in Runs, Fail(r) PROVE Rest'
  BY <1>7, <1>c DEF Fail, Move, InFlight, Ended, host
<1>8. ASSUME Change PROVE Rest'
  BY <1>8, <1>c DEF Change, host, runs
<1>9. ASSUME NEW i \in Numbers, Close(i) \/ Merge(i) PROVE Rest'
  <2>1. UNCHANGED <<git, runs>>
    BY <1>9 DEF Close, Merge
  <2>2. prs' = [prs EXCEPT ![i].state = "closed"]
    BY <1>9 DEF Close, Merge
  <2>3. prs' \in [Numbers -> PullRequests]
    BY <1>c, <2>2 DEF PullRequests
  <2> QED
    BY <1>c, <2>1, <2>3 DEF runs
<1>10. Rest'
  <2> HIDE DEF Rest
  <2> QED
    BY <1>1, <1>2, <1>3, <1>4, <1>5, <1>6, <1>7, <1>8, <1>9 DEF Next, Run
<1> QED
  BY <1>a, <1>b, <1>10 DEF TypeOK, HashOfPlan

-----------------------------------------------------------------------------
(* Which pull requests there are. *)

LEMMA InOrderStep == PRInv /\ [Next]_vars => InOrder'
<1> SUFFICES ASSUME PRInv, [Next]_vars PROVE InOrder'
  OBVIOUS
<1>a. /\ pc \in [Runs -> {"idle", "lookup", "edit", "publish", "pr"} \cup Ended]
      /\ existing \in [Runs -> Numbers \cup {0}] /\ branch \in [Runs -> Names \cup {0}]
      /\ prs \in [Numbers -> PullRequests]
  BY DEF PRInv, TypeOK
<1>b. InOrder
  BY DEF PRInv
\* The pull requests stay, and no run takes up another.
<1>c. ASSUME UNCHANGED <<prs, existing, branch>>, NEW r \in Runs, NEW phase, Move(r, phase), phase # "idle",
             phase \in InBranch => branch[r] \in Names
      PROVE  InOrder'
  BY <1>a, <1>b, <1>c DEF Move, InOrder, Used
<1>1. CASE UNCHANGED vars
  BY <1>1, <1>b DEF vars, host, runs, InOrder, Used
<1>2. ASSUME NEW r \in Runs, Start(r) PROVE InOrder'
  BY <1>2, <1>c DEF Start, host, InBranch
<1>3. ASSUME NEW r \in Runs, Lookup(r) PROVE InOrder'
  <2>1. Used' = Used /\ UNCHANGED <<prs, branch>>
    BY <1>3 DEF Lookup, host, Used
  <2>2. \A s \in Runs : existing'[s] # 0 => existing'[s] \in Used
    BY <1>3, <1>a, <1>b DEF Lookup, Candidates, Open, Used, InOrder
  <2>3. \E phase \in {"covered", "edit"} : pc' = [pc EXCEPT ![r] = phase]
    BY <1>3 DEF Lookup, Move
  <2> QED
    BY <1>a, <1>b, <2>1, <2>2, <2>3 DEF InOrder, InBranch
<1>4. ASSUME NEW r \in Runs, Edit(r) PROVE InOrder'
  <2>1. SourceBranch(r) \in Names
    BY <1>4, BranchNamed DEF Edit
  <2>2. Used' = Used /\ UNCHANGED <<prs, existing>>
    BY <1>4, EditMoves DEF host, Used
  <2>3. CASE pc' = [pc EXCEPT ![r] = "kept"] /\ branch' = branch
    BY <1>a, <1>b, <2>2, <2>3 DEF InOrder, InBranch
  <2>4. CASE pc' = [pc EXCEPT ![r] = "publish"] /\ branch' = [branch EXCEPT ![r] = SourceBranch(r)]
    BY <1>a, <1>b, <2>1, <2>2, <2>4 DEF InOrder, InBranch
  <2> QED
    BY <1>4, <2>3, <2>4, EditMoves
<1>5. ASSUME NEW r \in Runs, Publish(r) PROVE InOrder'
  BY <1>5, <1>b, <1>c DEF Publish, After, Order, InBranch, InOrder
<1>6. ASSUME NEW r \in Runs, PullRequest(r) PROVE InOrder'
  <2>1. pc' = [pc EXCEPT ![r] = Outcome(r)] /\ Outcome(r) \in Ended /\ UNCHANGED <<existing, branch>>
    BY <1>6 DEF PullRequest, Move, After, Order, Outcome, Ended
  <2>2. pc[r] = "pr" /\ branch[r] \in Names
    BY <1>6, <1>b DEF PullRequest, InOrder, InBranch
  <2>3. \A s \in Runs : /\ pc[s] # "idle" => pc'[s] # "idle"
                        /\ pc'[s] \in InBranch => pc[s] \in InBranch
    BY <1>a, <2>1, <2>2 DEF Ended, InBranch
  <2>4. pc'[r] # "idle"
    BY <1>a, <2>1 DEF Ended
  <2>5. CASE Used' = Used /\ \A i \in Numbers : /\ prs'[i].branch = prs[i].branch
                                               /\ prs'[i].opener = prs[i].opener
    <3>1. Used \subseteq Numbers
      BY DEF Used
    <3> QED
      BY <1>b, <2>1, <2>3, <2>5, <3>1 DEF InOrder
  <2>6. ASSUME NEW k \in Numbers \cup {0}, Used = 1..k, Used' = 1..(k + 1) \cap Numbers,
               \A i \in Used : prs'[i] = prs[i],
               k + 1 \in Numbers => prs'[k + 1].opener = r /\ prs'[k + 1].branch = branch[r]
        PROVE  InOrder'
    <3>1. k \in Nat /\ Numbers = 1..Cardinality(Runs) /\ Cardinality(Runs) \in Nat
      BY RunsCount DEF Numbers
    <3>2. Used \subseteq Used' /\ \A i \in Used' : i \in Used \/ (i = k + 1 /\ k + 1 \in Numbers)
      BY <2>6, <3>1
    <3>3. Numbers' = Numbers /\ Names' = Names
      BY DEF Numbers, Names
    <3>4. \E m \in Numbers \cup {0} : Used' = 1..m
      <4>1. CASE k + 1 \in Numbers
        BY <2>6, <3>1, <4>1
      <4>2. CASE k + 1 \notin Numbers
        BY <2>6, <3>1, <4>2
      <4> QED
        BY <4>1, <4>2
    <3>5. \A i \in Used' : prs'[i].branch \in Names /\ prs'[i].opener \in Runs /\ pc'[prs'[i].opener] # "idle"
      BY <1>b, <2>2, <2>3, <2>4, <2>6, <3>2 DEF InOrder
    <3>6. \A s \in Runs : existing'[s] # 0 => existing'[s] \in Used'
      BY <1>b, <2>1, <3>2 DEF InOrder
    <3>7. \A s \in Runs : pc'[s] \in InBranch => branch'[s] \in Names
      BY <1>b, <2>1, <2>3 DEF InOrder
    <3> QED
      BY <3>3, <3>4, <3>5, <3>6, <3>7 DEF InOrder, InBranch
  <2> QED
    BY <1>6, <2>5, <2>6, Requests
<1>7. ASSUME NEW r \in Runs, Fail(r) PROVE InOrder'
  BY <1>7, <1>c DEF Fail, host, InBranch
<1>8. CASE Change
  BY <1>8, <1>b DEF Change, host, runs, InOrder, Used
<1>9. ASSUME NEW i \in Numbers, Close(i) \/ Merge(i) PROVE InOrder'
  <2>1. prs' = [prs EXCEPT ![i].state = "closed"] /\ UNCHANGED runs /\ prs[i].state = "open"
    BY <1>9 DEF Close, Merge, Open
  <2>2. Used' = Used /\ \A j \in Numbers : /\ prs'[j].branch = prs[j].branch
                                           /\ prs'[j].opener = prs[j].opener
    BY <1>a, <2>1 DEF PullRequests, Used
  <2>3. Used \subseteq Numbers
    BY DEF Used
  <2> QED
    BY <1>b, <2>1, <2>2, <2>3 DEF InOrder, runs
<1> QED
  BY <1>1, <1>2, <1>3, <1>4, <1>5, <1>6, <1>7, <1>8, <1>9 DEF Next, Run

-----------------------------------------------------------------------------
(* Rivals. *)

\* Rivals stay rivals.
LEMMA RivalsStay ==
  ASSUME PRInv, [Next]_vars
  PROVE  \A r, s \in Runs : Rivals(r, s) => Rivals(r, s)'
<1>1. CASE rivals' = rivals
  BY <1>1 DEF Rivals
<1>2. ASSUME NEW r \in Runs, Start(r) PROVE \A s \in Runs : rivals[s] \subseteq rivals'[s]
  BY <1>2 DEF PRInv, Together, TypeOK, Start
<1>3. CASE \E r \in Runs : Start(r)
  BY <1>2, <1>3 DEF Rivals
<1>4. rivals' = rivals \/ \E r \in Runs : Start(r)
  BY DEF Next, Run, Lookup, Edit, Publish, PullRequest, Fail, Change, Close, Merge, vars, runs
<1> QED
  BY <1>1, <1>3, <1>4

\* A run that is in flight was in flight before, or starts.
LEMMA TogetherStep == PRInv /\ [Next]_vars => Together'
<1> SUFFICES ASSUME PRInv, [Next]_vars PROVE Together'
  OBVIOUS
<1>a. /\ pc \in [Runs -> {"idle", "lookup", "edit", "publish", "pr"} \cup Ended]
      /\ existing \in [Runs -> Numbers \cup {0}] /\ rivals \in [Runs -> SUBSET Runs]
  BY DEF PRInv, TypeOK
<1>b. Together
  BY DEF PRInv
<1>c. ASSUME NEW r \in Runs, NEW phase, Move(r, phase), r \in InFlight, phase # "idle",
             rivals' = rivals, \A s \in Runs \ {r} : existing'[s] = existing[s]
      PROVE  Together'
  <2>1. InFlight' \subseteq InFlight
    BY <1>a, <1>c DEF InFlight, Move
  <2>2. \A s \in Runs : pc'[s] = "idle" => pc[s] = "idle" /\ s # r
    BY <1>a, <1>c DEF Move
  <2>3. \A s \in Runs : pc'[s] = "idle" => rivals'[s] = {} /\ existing'[s] = 0
    BY <1>b, <1>c, <2>2 DEF Together
  <2>4. \A s, t \in InFlight' : s # t => Rivals(s, t)'
    BY <1>b, <1>c, <2>1 DEF Together, Rivals
  <2> QED
    BY <2>3, <2>4 DEF Together
<1>1. CASE UNCHANGED runs
  BY <1>1, <1>b DEF runs, Together, Rivals, InFlight
<1>2. ASSUME NEW r \in Runs, Start(r) PROVE Together'
  <2>1. InFlight' \subseteq InFlight \cup {r} /\ r \notin InFlight
    BY <1>2, <1>a DEF Start, Move, InFlight
  <2>2. \A s \in Runs : pc'[s] = "idle" => pc[s] = "idle" /\ s # r
    BY <1>2, <1>a DEF Start, Move
  <2>3. rivals' = [rivals EXCEPT ![r] = InFlight] /\ existing' = existing
    BY <1>2 DEF Start
  <2>4. \A s \in InFlight : Rivals(r, s)' /\ Rivals(s, r)'
    BY <1>a, <2>3 DEF Rivals
  <2>5. \A s, t \in InFlight : s # t => Rivals(s, t)'
    BY <1>b, RivalsStay DEF Together, InFlight
  <2>6. \A s, t \in InFlight' : s # t => Rivals(s, t)'
    BY <2>1, <2>4, <2>5
  <2>7. \A s \in Runs : pc'[s] = "idle" => rivals'[s] = {} /\ existing'[s] = 0
    BY <1>a, <1>b, <2>2, <2>3 DEF Together
  <2> QED
    BY <2>6, <2>7 DEF Together
<1>3. ASSUME NEW r \in Runs, Lookup(r) PROVE Together'
  <2>1. r \in InFlight /\ rivals' = rivals /\ \A s \in Runs \ {r} : existing'[s] = existing[s]
    BY <1>3, <1>a DEF Lookup, InFlight, Ended
  <2>2. \E phase \in {"covered", "edit"} : Move(r, phase)
    BY <1>3 DEF Lookup
  <2> QED
    BY <2>1, <2>2, <1>c
<1>4. ASSUME NEW r \in Runs, Edit(r) PROVE Together'
  BY <1>4, <1>c, EditMoves DEF Move, InFlight, Ended
<1>5. ASSUME NEW r \in Runs, Publish(r) PROVE Together'
  BY <1>5, <1>c DEF Publish, InFlight, After, Order, Ended
<1>6. ASSUME NEW r \in Runs, PullRequest(r) PROVE Together'
  BY <1>6, <1>c DEF PullRequest, InFlight, After, Order, Outcome, Ended
<1>7. ASSUME NEW r \in Runs, Fail(r) PROVE Together'
  BY <1>7, <1>c DEF Fail
<1>8. UNCHANGED vars \/ Change \/ (\E i \in Numbers : Close(i) \/ Merge(i)) => UNCHANGED runs
  BY DEF vars, Change, Close, Merge
<1> QED
  BY <1>1, <1>2, <1>3, <1>4, <1>5, <1>6, <1>7, <1>8 DEF Next, Run

\* The git settings do not change.
LEMMA HostStays == [Next]_vars => git' = git
<1>1. \A r \in Runs : Run(r) => git' = git
  BY DEF Run, Start, Lookup, Edit, Publish, PullRequest, Fail
<1>2. Change \/ (\E i \in Numbers : Close(i) \/ Merge(i)) \/ UNCHANGED vars => git' = git
  BY DEF Change, Close, Merge, vars
<1> QED
  BY <1>1, <1>2 DEF Next

LEMMA NoneBeforeStep == PRInv /\ [Next]_vars => NoneBefore'
<1> DEFINE Searching == {"edit"} \cup InBranch
           Found(r) == pc[r] \in Searching /\ existing[r] = 0 /\ r \notin blind
           Fine(r) == Found(r) => \A i \in Open : Rivals(prs[i].opener, r)
<1> SUFFICES ASSUME PRInv, [Next]_vars PROVE NoneBefore'
  OBVIOUS
<1> SUFFICES ASSUME Manager(git), NEW s \in Runs PROVE Fine(s)'
  <2>1. git' = git
    BY HostStays
  <2>2. Manager(git') = Manager(git)
    BY <2>1
  <2> HIDE DEF Fine
  <2>3. NoneBefore' <=> (Manager(git') => \A s \in Runs : Fine(s)')
    BY DEF NoneBefore, Fine
  <2> QED
    BY <2>2, <2>3
<1>a. /\ pc \in [Runs -> {"idle", "lookup", "edit", "publish", "pr"} \cup Ended]
      /\ existing \in [Runs -> Numbers \cup {0}] /\ prs \in [Numbers -> PullRequests]
  BY DEF PRInv, TypeOK
<1>b. Fine(s)
  BY DEF PRInv, NoneBefore
<1>c. \A i \in Open : prs[i].opener \in Runs
  BY DEF PRInv, InOrder, Open, Used
\* Nothing is opened, and the run had found nothing before.
<1>d. ASSUME Open' \subseteq Open, \A i \in Numbers : prs'[i].opener = prs[i].opener, Found(s)' => Found(s)
      PROVE  Fine(s)'
  <2>1. SUFFICES ASSUME Found(s)', NEW i \in Open' PROVE Rivals(prs[i].opener, s)'
    BY DEF Rivals
  <2>2. i \in Open /\ i \in Numbers
    BY <1>d DEF Open
  <2>3. Rivals(prs[i].opener, s) /\ prs[i].opener \in Runs
    BY <1>b, <1>c, <1>d, <2>1, <2>2
  <2> QED
    BY <1>d, <2>2, <2>3, RivalsStay DEF Rivals
<1>1. CASE UNCHANGED <<prs, pc, existing, blind>>
  BY <1>1, <1>d DEF Open
<1>2. ASSUME NEW r \in Runs, Start(r) PROVE Fine(s)'
  BY <1>2, <1>a, <1>d DEF Start, Move, host, Open, InBranch
<1>3. ASSUME NEW r \in Runs, Lookup(r) PROVE Fine(s)'
  <2>1. CASE s # r
    BY <1>3, <1>a, <1>d, <2>1 DEF Lookup, Move, host, Open, InBranch
  <2>2. CASE s = r
    <3>1. Found(r)' => Open = {}
      BY <1>3, <1>a DEF Lookup, Move, Candidates, Open, Numbers
    <3>2. Open' = Open
      BY <1>3 DEF Lookup, host, Open
    <3> QED
      BY <2>2, <3>1, <3>2
  <2> QED
    BY <2>1, <2>2
<1>4. ASSUME NEW r \in Runs, Edit(r) PROVE Fine(s)'
  BY <1>4, <1>a, <1>d, EditMoves DEF host, Open, InBranch
<1>5. ASSUME NEW r \in Runs, Publish(r) PROVE Fine(s)'
  BY <1>5, <1>a, <1>d DEF Publish, Move, host, Open, InBranch
<1>6. ASSUME NEW r \in Runs, PullRequest(r) PROVE Fine(s)'
  <2>1. pc[r] = "pr" /\ pc' = [pc EXCEPT ![r] = Outcome(r)] /\ UNCHANGED <<existing, blind>>
    BY <1>6 DEF PullRequest, Move, After, Order
  <2>2. Found(s)' => Found(s) /\ s # r
    BY <1>a, <2>1 DEF Outcome, InBranch
  <2>3. CASE Open' = Open /\ \A i \in Numbers : prs'[i].opener = prs[i].opener
    BY <1>d, <2>2, <2>3
  <2>4. ASSUME NEW k \in Numbers \cup {0}, Used = 1..k, Open' = (Open \cup {k + 1}) \cap Numbers,
               \A i \in Used : prs'[i] = prs[i], k + 1 \in Numbers => prs'[k + 1].opener = r
        PROVE  Fine(s)'
    <3>1. SUFFICES ASSUME Found(s)', NEW i \in Open' PROVE Rivals(prs[i].opener, s)'
      BY DEF Rivals
    <3>2. CASE i \in Open
      <4>1. prs'[i] = prs[i]
        BY <2>4, <3>2 DEF Open, Used
      <4>2. Rivals(prs[i].opener, s) /\ prs[i].opener \in Runs
        BY <1>b, <1>c, <2>2, <3>1, <3>2
      <4> QED
        BY <4>1, <4>2, RivalsStay DEF Rivals
    <3>3. CASE i = k + 1 /\ k + 1 \in Numbers
      <4>1. r \in InFlight /\ s \in InFlight /\ r # s
        BY <2>1, <2>2, <3>1 DEF InFlight, InBranch, Ended
      <4>2. Rivals(r, s)
        BY <4>1 DEF PRInv, Together
      <4> QED
        BY <2>4, <3>3, <4>2, RivalsStay DEF Rivals
    <3> QED
      BY <2>4, <3>1, <3>2, <3>3
  <2> QED
    BY <1>6, <2>3, <2>4, Requests
<1>7. ASSUME NEW r \in Runs, Fail(r) PROVE Fine(s)'
  BY <1>7, <1>a, <1>d DEF Fail, Move, host, Open, InBranch
<1>8. UNCHANGED vars \/ Change => UNCHANGED <<prs, pc, existing, blind>>
  BY DEF vars, runs, host, Change
<1>9. ASSUME NEW i \in Numbers, Close(i) \/ Merge(i) PROVE Fine(s)'
  <2>1. prs' = [prs EXCEPT ![i].state = "closed"] /\ UNCHANGED runs
    BY <1>9 DEF Close, Merge
  <2>2. Open' \subseteq Open /\ \A j \in Numbers : prs'[j].opener = prs[j].opener
    BY <1>a, <2>1 DEF Open, PullRequests
  <2> QED
    BY <1>d, <2>1, <2>2 DEF runs
<1> QED
  <2> HIDE DEF Fine
  <2> QED
    BY <1>1, <1>2, <1>3, <1>4, <1>5, <1>6, <1>7, <1>8, <1>9 DEF Next, Run

-----------------------------------------------------------------------------
(* What the runs keep. *)

LEMMA PRStep == PRInv /\ [Next]_vars => PRInv'
<1> SUFFICES ASSUME PRInv, [Next]_vars PROVE PRInv'
  OBVIOUS
<1> QED
  BY TypeStep, HashStep, ClockStep, InOrderStep, TogetherStep, NoneBeforeStep DEF PRInv

\* Runs, host and drift stay in their types, and a run that publishes or opens a
\* pull request saw drift in its plan, whatever exit code it went on by, for any
\* number of runs (cmd/terra-drift/sync.go, internal/gitops).
THEOREM TypeCorrect == Spec => []TypeOK
<1>1. PRInv => TypeOK
  BY DEF PRInv
<1> QED
  BY <1>1, PRInit, PRStep, PTL DEF Spec

-----------------------------------------------------------------------------
(* One pull request. *)

\* A pull request opened beside another has its excuse: what the lookup found
\* still holds, but for a failed lookup or a rival.
LEMMA OneOpenStep == PRInv /\ OneOpenPR /\ [Next]_vars => OneOpenPR'
<1> DEFINE Excused(i, j) == prs[j].opener \in blind \/ Rivals(prs[i].opener, prs[j].opener)
<1> SUFFICES ASSUME PRInv, OneOpenPR, [Next]_vars PROVE OneOpenPR'
  OBVIOUS
<1> SUFFICES ASSUME Manager(git),
                    NEW i \in Open', NEW j \in Open', i < j
             PROVE  Excused(i, j)'
  <2>1. Manager(git') = Manager(git)
    BY HostStays
  <2> QED
    BY <2>1 DEF OneOpenPR
<1>a. /\ prs \in [Numbers -> PullRequests] /\ blind \subseteq blind'
      /\ \A n \in Open : n \in Numbers /\ prs[n].opener \in Runs
  <2>1. blind \subseteq blind'
    <3>1. \A r \in Runs : Run(r) => blind \subseteq blind'
      BY DEF Run, Start, Lookup, Edit, Publish, PullRequest, Fail
    <3>2. Change \/ (\E n \in Numbers : Close(n) \/ Merge(n)) \/ UNCHANGED vars => blind \subseteq blind'
      BY DEF Change, Close, Merge, vars, runs
    <3> QED
      BY <3>1, <3>2 DEF Next
  <2> QED
    BY <2>1 DEF PRInv, TypeOK, InOrder, Open, Used
<1>b. ASSUME i \in Open, j \in Open, prs'[i].opener = prs[i].opener, prs'[j].opener = prs[j].opener
      PROVE  Excused(i, j)'
  <2>1. Excused(i, j)
    BY <1>b DEF OneOpenPR
  <2>2. prs[i].opener \in Runs /\ prs[j].opener \in Runs
    BY <1>a, <1>b
  <2> QED
    BY <1>a, <1>b, <2>1, <2>2, RivalsStay DEF Rivals
<1>1. CASE prs' = prs
  BY <1>1, <1>b DEF Open
<1>2. ASSUME NEW r \in Runs, PullRequest(r) PROVE Excused(i, j)'
  <2>1. CASE Open' = Open /\ \A n \in Numbers : prs'[n].opener = prs[n].opener
    BY <1>a, <1>b, <2>1
  <2>2. ASSUME NEW k \in Numbers \cup {0}, Used = 1..k, Open' = (Open \cup {k + 1}) \cap Numbers,
               \A n \in Used : prs'[n] = prs[n], k + 1 \in Numbers => prs'[k + 1].opener = r,
               existing[r] = 0
        PROVE  Excused(i, j)'
    <3>1. k \in Nat /\ Open \subseteq Used /\ Used = 1..k
      BY <2>2, RunsCount DEF Numbers, Open, Used
    <3>2. i \in Open /\ (j \in Open \/ j = k + 1)
      <4>1. \A n \in Open' : n \in Open \/ n = k + 1
        BY <2>2
      <4>2. j \in Nat /\ (j \in Open => j <= k) /\ (i \in Open => i <= k)
        BY <3>1, RunsCount DEF Open, Numbers
      <4> QED
        BY <3>1, <4>1, <4>2
    <3>3. CASE j \in Open
      BY <1>b, <2>2, <3>1, <3>2, <3>3
    <3>4. CASE j = k + 1
      <4>1. prs'[j].opener = r /\ prs'[i].opener = prs[i].opener
        BY <2>2, <3>1, <3>2, <3>4
      <4>2. r \in blind \/ Rivals(prs[i].opener, r)
        BY <1>2, <2>2, <3>2 DEF PRInv, NoneBefore, PullRequest, InBranch
      <4> QED
        BY <1>a, <3>2, <4>1, <4>2, RivalsStay DEF Rivals
    <3> QED
      BY <3>2, <3>3, <3>4
  <2> QED
    BY <1>2, <2>1, <2>2, Requests
<1>3. ASSUME NEW n \in Numbers, Close(n) \/ Merge(n) PROVE Excused(i, j)'
  <2>1. prs' = [prs EXCEPT ![n].state = "closed"]
    BY <1>3 DEF Close, Merge
  <2>2. Open' \subseteq Open /\ \A m \in Numbers : prs'[m].opener = prs[m].opener
    BY <1>a, <2>1 DEF Open, PullRequests
  <2> QED
    BY <1>a, <1>b, <2>2
<1>4. \A r \in Runs : Run(r) => prs' = prs \/ PullRequest(r)
  BY DEF Run, Start, Lookup, Edit, Publish, Fail, host
<1>5. UNCHANGED vars \/ Change => prs' = prs
  BY DEF vars, host, Change
<1> QED
  BY <1>1, <1>2, <1>3, <1>4, <1>5 DEF Next

LEMMA OneOpenInit == Init => OneOpenPR
<1> SUFFICES ASSUME Init PROVE OneOpenPR
  OBVIOUS
<1>1. Open = {}
  BY DEF Init, Open, NoPR
<1> QED
  BY <1>1 DEF OneOpenPR

\* There is one open drift pull request on a host that has the lookup, but for
\* runs whose lookup failed and runs that overlap the opener's
\* (findExistingPR in cmd/terra-drift/sync.go): for any number of runs, failing
\* anywhere, and any reviewers.
THEOREM OneOpenAlways == Spec => []OneOpenPR
BY OneOpenInit, OneOpenStep, PRInit, PRStep, PTL DEF Spec

-----------------------------------------------------------------------------
(* The body of a pull request and the tip of its branch.  On the transport of *)
(* the API a run publishes to the branch of the pull request it updates: what *)
(* a run in flight is about to write, and who wrote the tip, decide.          *)

\* Every host with a lookup is written to through its API, which is the default
\* for it (push_mode of .terra-drift.yaml; the run DriftPR_git_transport shows
\* what is lost otherwise).
ApiTransport == \A g \in Hosts : Manager(g) => ResolvedPushMode(g) = "api"

\* Each pull request was opened by a run of its own.
Openers ==
  /\ \A i \in Used : pc[prs[i].opener] = "opened"
  /\ \A i, j \in Used : prs[i].opener = prs[j].opener => i = j

\* The digest in a body is that of the run that wrote the body.
Signed ==
  \A i \in Used :
    /\ prs[i].by \in Runs /\ pc[prs[i].by] \in {"opened", "updated"}
    /\ prs[i].covers = hash[prs[i].by]

\* A run that found a pull request publishes to its branch.
ToItsBranch ==
  \A r \in Runs :
    /\ existing[r] # 0 => Manager(git)
    /\ pc[r] = "covered" => existing[r] # 0
    /\ pc[r] \in InBranch /\ existing[r] # 0 => branch[r] = prs[existing[r]].branch

\* A run writes the tip of one branch, and what is on top of it by the time it
\* reaches the pull request comes from a rival.
Tips ==
  /\ \A n \in Names : branches[n] # NoRun =>
       branch[branches[n]] = n /\ pc[branches[n]] \in {"pr"} \cup Ended
  /\ \A r \in Runs : pc[r] = "pr" =>
       \E w \in Runs : branches[branch[r]] = w /\ (w = r \/ Rivals(w, r))

\* The property, for the pull requests that are closed as well.
Bodies == \A i \in Used : Tip(i) = prs[i].by \/ Ahead(i)

BodyInv == Openers /\ Signed /\ ToItsBranch /\ Tips /\ Bodies

\* There is a number for every run that opens a pull request.
LEMMA RoomForOne ==
  ASSUME PRInv, Openers, NEW r \in Runs, pc[r] = "pr"
  PROVE  NextNumber \in Numbers
<1>1. PICK k \in Numbers \cup {0} : Used = 1..k /\ NextNumber = k + 1
  BY NextIsUnused DEF PRInv
<1>2. k \in Nat
  BY RunsCount DEF Numbers
<1> DEFINE opener == [i \in 1..k |-> prs[i].opener]
<1>3. opener \in Injection(1..k, Runs \ {r})
  <2>1. \A i \in 1..k : prs[i].opener \in Runs \ {r}
    BY <1>1 DEF PRInv, InOrder, Openers
  <2>2. \A i, j \in 1..k : prs[i].opener = prs[j].opener => i = j
    BY <1>1 DEF Openers
  <2> QED
    BY <2>1, <2>2 DEF Injection, IsInjective
<1>4. /\ IsFiniteSet(Runs \ {r})
      /\ Cardinality(Runs \ {r}) = Cardinality(Runs) - 1
  BY RunsAssumption, FS_RemoveElement
<1>5. Cardinality(1..k) = k
  BY <1>2, FS_Interval
<1>6. k <= Cardinality(Runs) - 1
  BY <1>3, <1>4, <1>5, FS_Injection
<1> QED
  BY <1>1, <1>2, <1>6, RunsCount DEF Numbers

\* The pull request that a run updates or opens.
LEMMA Written ==
  ASSUME PRInv, Openers, NEW r \in Runs, PullRequest(r)
  PROVE  \E n \in Numbers :
           /\ Used' = Used \cup {n}
           /\ \A i \in Numbers \ {n} : prs'[i] = prs[i]
           /\ prs'[n].by = r /\ prs'[n].covers = hash[r]
           /\ \/ /\ n \in Used /\ n = existing[r] /\ pc' = [pc EXCEPT ![r] = "updated"]
                 /\ prs'[n].branch = prs[n].branch /\ prs'[n].opener = prs[n].opener
              \/ /\ n \notin Used /\ pc' = [pc EXCEPT ![r] = "opened"]
                 /\ prs'[n].branch = branch[r] /\ prs'[n].opener = r
<1>1. /\ prs \in [Numbers -> PullRequests] /\ existing[r] \in Numbers \cup {0}
      /\ 0 \notin Numbers
  BY RunsCount DEF PRInv, TypeOK, Numbers
<1>2. pc' = [pc EXCEPT ![r] = Outcome(r)]
  BY DEF PullRequest, Move, After, Order
<1>3. CASE /\ Manager(git) /\ existing[r] # 0 /\ prs[existing[r]].state = "open"
           /\ prs' = [prs EXCEPT ![existing[r]] = [@ EXCEPT !.covers = hash[r], !.by = r]]
  <2> DEFINE n == existing[r]
  <2>1. n \in Numbers /\ n \in Used
    BY <1>1, <1>3 DEF Used
  <2>2. \A i \in Numbers \ {n} : prs'[i] = prs[i]
    BY <1>1, <1>3
  <2>3. /\ prs'[n].by = r /\ prs'[n].covers = hash[r] /\ prs'[n].state = prs[n].state
        /\ prs'[n].branch = prs[n].branch /\ prs'[n].opener = prs[n].opener
    BY <1>1, <1>3, <2>1 DEF PullRequests
  <2>4. Used' = Used \cup {n}
    <3>1. \A i \in Numbers : prs'[i].state = prs[i].state
      BY <2>2, <2>3
    <3> QED
      BY <2>1, <3>1 DEF Used, Numbers
  <2>5. Outcome(r) = "updated"
    BY <1>3 DEF Outcome
  <2> QED
    BY <1>2, <2>1, <2>2, <2>3, <2>4, <2>5
<1>4. CASE /\ ~Manager(git) \/ existing[r] = 0
           /\ prs' = [prs EXCEPT ![NextNumber] =
                [state |-> "open", branch |-> branch[r], covers |-> hash[r], by |-> r, opener |-> r]]
  <2>1. NextNumber \in Numbers
    BY RoomForOne DEF PullRequest
  <2>2. NextNumber \notin Used
    <3>1. PICK k \in Numbers \cup {0} : Used = 1..k /\ NextNumber = k + 1
      BY NextIsUnused DEF PRInv
    <3> QED
      BY <3>1, RunsCount DEF Numbers
  <2> DEFINE n == NextNumber
  <2>3. \A i \in Numbers \ {n} : prs'[i] = prs[i]
    BY <1>1, <1>4
  <2>4. /\ prs'[n].by = r /\ prs'[n].covers = hash[r] /\ prs'[n].state = "open"
        /\ prs'[n].branch = branch[r] /\ prs'[n].opener = r
    BY <1>1, <1>4, <2>1
  <2> HIDE DEF n
  <2>5. Used' = Used \cup {n}
    BY <2>1, <2>3, <2>4 DEF Used, Numbers, n
  <2>6. Outcome(r) = "opened"
    BY <1>4 DEF Outcome
  <2> QED
    BY <1>2, <2>1, <2>2, <2>3, <2>4, <2>5, <2>6 DEF n
<1> QED
  BY <1>3, <1>4 DEF PullRequest

\* Every other step leaves of the pull requests all but their state.
SameBodies ==
  /\ Used' = Used
  /\ \A i \in Numbers : /\ prs'[i].branch = prs[i].branch /\ prs'[i].opener = prs[i].opener
                        /\ prs'[i].by = prs[i].by /\ prs'[i].covers = prs[i].covers

LEMMA BodiesKept ==
  ASSUME PRInv, [Next]_vars
  PROVE  SameBodies \/ \E r \in Runs : PullRequest(r)
<1>1. CASE prs' = prs
  BY <1>1 DEF SameBodies, Used, Numbers
<1>2. ASSUME NEW i \in Numbers, Close(i) \/ Merge(i) PROVE SameBodies
  <2>1. prs \in [Numbers -> PullRequests]
    BY DEF PRInv, TypeOK
  <2>2. prs' = [prs EXCEPT ![i].state = "closed"] /\ prs[i].state = "open"
    BY <1>2 DEF Close, Merge, Open
  <2>3. \A j \in Numbers : /\ prs'[j].branch = prs[j].branch /\ prs'[j].opener = prs[j].opener
                           /\ prs'[j].by = prs[j].by /\ prs'[j].covers = prs[j].covers
                           /\ prs'[j].state # "none" <=> prs[j].state # "none"
    BY <2>1, <2>2 DEF PullRequests
  <2>4. Used' = Used
    BY <2>3 DEF Used, Numbers
  <2> QED
    BY <2>3, <2>4 DEF SameBodies
<1>3. \A r \in Runs : Run(r) => prs' = prs \/ PullRequest(r)
  BY DEF Run, Start, Lookup, Edit, Publish, Fail, host
<1>4. UNCHANGED vars \/ Change => prs' = prs
  BY DEF vars, host, Change
<1> QED
  BY <1>1, <1>2, <1>3, <1>4 DEF Next

\* What is over stays as it was: the outcome of a run, the plan it started with.
LEMMA Settled ==
  ASSUME PRInv, [Next]_vars
  PROVE  \A r \in Runs :
           /\ pc[r] \in Ended => pc'[r] = pc[r]
           /\ pc[r] # "idle" => hash'[r] = hash[r] /\ plan'[r] = plan[r]
<1>a. /\ pc \in [Runs -> {"idle", "lookup", "edit", "publish", "pr"} \cup Ended]
      /\ plan \in [Runs -> DriftSets] /\ hash \in [Runs -> Digests]
  BY DEF PRInv, TypeOK
<1> SUFFICES ASSUME NEW r \in Runs
             PROVE  /\ pc[r] \in Ended => pc'[r] = pc[r]
                    /\ pc[r] # "idle" => hash'[r] = hash[r] /\ plan'[r] = plan[r]
  OBVIOUS
<1>1. CASE UNCHANGED <<pc, plan, hash>>
  BY <1>1
<1>2. ASSUME NEW s \in Runs, NEW phase, Move(s, phase), pc[s] \notin Ended,
             UNCHANGED <<plan, hash>>
      PROVE  /\ pc[r] \in Ended => pc'[r] = pc[r]
             /\ pc[r] # "idle" => hash'[r] = hash[r] /\ plan'[r] = plan[r]
  BY <1>a, <1>2 DEF Move
<1>3. ASSUME NEW s \in Runs, Start(s)
      PROVE  /\ pc[r] \in Ended => pc'[r] = pc[r]
             /\ pc[r] # "idle" => hash'[r] = hash[r] /\ plan'[r] = plan[r]
  BY <1>a, <1>3 DEF Start, Move, Ended
<1>4. ASSUME NEW s \in Runs, Run(s)
      PROVE  Start(s) \/ (/\ pc[s] \notin Ended /\ UNCHANGED <<plan, hash>>
                          /\ \E phase : Move(s, phase))
  BY <1>4 DEF Run, Lookup, Edit, Publish, PullRequest, Fail, InFlight, Ended
<1>5. UNCHANGED vars \/ Change \/ (\E i \in Numbers : Close(i) \/ Merge(i))
        => UNCHANGED <<pc, plan, hash>>
  BY DEF vars, runs, Change, Close, Merge
<1> QED
  BY <1>1, <1>2, <1>3, <1>4, <1>5 DEF Next

LEMMA OpenersStep == PRInv /\ Openers /\ [Next]_vars => Openers'
<1> SUFFICES ASSUME PRInv, Openers, [Next]_vars PROVE Openers'
  OBVIOUS
<1>a. \A i \in Used : i \in Numbers /\ prs[i].opener \in Runs
  BY DEF PRInv, InOrder, Used
<1>1. CASE SameBodies
  BY <1>1, <1>a, Settled DEF SameBodies, Openers, Ended
<1>2. ASSUME NEW r \in Runs, PullRequest(r) PROVE Openers'
  <2>1. PICK n \in Numbers :
           /\ Used' = Used \cup {n}
           /\ \A i \in Numbers \ {n} : prs'[i] = prs[i]
           /\ \/ n \in Used /\ prs'[n].opener = prs[n].opener
              \/ n \notin Used /\ prs'[n].opener = r /\ pc' = [pc EXCEPT ![r] = "opened"]
    BY <1>2, Written
  <2>2. pc[r] = "pr" /\ pc \in [Runs -> {"idle", "lookup", "edit", "publish", "pr"} \cup Ended]
    BY <1>2 DEF PullRequest, PRInv, TypeOK
  <2>3. \A i \in Used : prs'[i].opener = prs[i].opener /\ prs[i].opener # r
    BY <1>a, <2>1, <2>2 DEF Openers
  <2>4. \A i \in Used : pc'[prs[i].opener] = "opened"
    BY <1>a, Settled DEF Openers, Ended
  <2>5. \A i \in Used' : pc'[prs'[i].opener] = "opened"
    BY <2>1, <2>2, <2>3, <2>4
  <2>6. \A i, j \in Used' : prs'[i].opener = prs'[j].opener => i = j
    BY <2>1, <2>3 DEF Openers
  <2> QED
    BY <2>5, <2>6 DEF Openers
<1> QED
  BY <1>1, <1>2, BodiesKept

LEMMA SignedStep == PRInv /\ Openers /\ Signed /\ [Next]_vars => Signed'
<1> SUFFICES ASSUME PRInv, Openers, Signed, [Next]_vars PROVE Signed'
  OBVIOUS
<1>a. ASSUME NEW i \in Used
      PROVE  /\ pc'[prs[i].by] \in {"opened", "updated"}
             /\ hash'[prs[i].by] = prs[i].covers
  <2>1. prs[i].by \in Runs /\ pc[prs[i].by] \in Ended /\ pc[prs[i].by] # "idle"
    BY DEF Signed, Ended
  <2> QED
    BY <2>1, Settled DEF Signed
<1>b. Used \subseteq Numbers
  BY DEF Used
<1>1. CASE SameBodies
  BY <1>1, <1>a, <1>b DEF SameBodies, Signed
<1>2. ASSUME NEW r \in Runs, PullRequest(r) PROVE Signed'
  <2>1. PICK n \in Numbers :
           /\ Used' = Used \cup {n}
           /\ \A i \in Numbers \ {n} : prs'[i] = prs[i]
           /\ prs'[n].by = r /\ prs'[n].covers = hash[r]
           /\ pc' = [pc EXCEPT ![r] = "updated"] \/ pc' = [pc EXCEPT ![r] = "opened"]
    BY <1>2, Written
  <2>2. pc \in [Runs -> {"idle", "lookup", "edit", "publish", "pr"} \cup Ended] /\ hash' = hash
    BY <1>2 DEF PullRequest, PRInv, TypeOK
  <2>3. \A i \in Used' : i = n \/ (i \in Used /\ i \in Numbers \ {n})
    BY <1>b, <2>1
  <2>4. /\ prs'[n].by \in Runs /\ pc'[prs'[n].by] \in {"opened", "updated"}
        /\ prs'[n].covers = hash'[prs'[n].by]
    BY <2>1, <2>2
  <2> QED
    BY <1>a, <2>1, <2>3, <2>4 DEF Signed
<1> QED
  BY <1>1, <1>2, BodiesKept

LEMMA ToItsBranchStep ==
  ApiTransport /\ PRInv /\ Openers /\ ToItsBranch /\ [Next]_vars => ToItsBranch'
<1> SUFFICES ASSUME ApiTransport, PRInv, Openers, ToItsBranch, [Next]_vars PROVE ToItsBranch'
  OBVIOUS
<1>a. /\ pc \in [Runs -> {"idle", "lookup", "edit", "publish", "pr"} \cup Ended]
      /\ existing \in [Runs -> Numbers \cup {0}] /\ branch \in [Runs -> Names \cup {0}]
      /\ git \in Hosts /\ 0 \notin Numbers
  BY RunsCount DEF PRInv, TypeOK, Numbers
<1>b. \A r \in Runs : existing[r] # 0 => existing[r] \in Used /\ existing[r] \in Numbers
  BY DEF PRInv, InOrder, Used
<1>c. git' = git
  BY HostStays
\* The branch of a pull request stays, and no run takes up another one.
<1>d. ASSUME existing' = existing, branch' = branch,
             \A r \in Runs : pc'[r] \in InBranch => pc[r] \in InBranch,
             \A r \in Runs : pc'[r] = "covered" => pc[r] = "covered",
             \A i \in Used : prs'[i].branch = prs[i].branch
      PROVE  ToItsBranch'
  BY <1>b, <1>c, <1>d DEF ToItsBranch, InBranch
<1>1. ASSUME NEW r \in Runs, Start(r) PROVE ToItsBranch'
  BY <1>1, <1>a, <1>d DEF Start, Move, host, InBranch
<1>2. ASSUME NEW r \in Runs, Lookup(r) PROVE ToItsBranch'
  <2>1. pc[r] = "lookup" /\ UNCHANGED <<prs, branch>>
    BY <1>2 DEF Lookup, host
  <2>2. ASSUME NEW s \in Runs
        PROVE  /\ existing'[s] # 0 => Manager(git)
               /\ pc'[s] = "covered" => existing'[s] # 0
               /\ pc'[s] \in InBranch /\ existing'[s] # 0 => branch[s] = prs[existing'[s]].branch
    <3>1. CASE s # r
      <4>1. pc'[s] = pc[s] /\ existing'[s] = existing[s]
        BY <1>2, <1>a, <3>1 DEF Lookup, Move
      <4> QED
        BY <4>1 DEF ToItsBranch, InBranch
    <3>2. CASE s = r
      <4>1. pc'[r] \in {"covered", "edit"}
        BY <1>2, <1>a DEF Lookup, Move
      <4>2. existing'[r] # 0 => Manager(git)
        BY <1>2, <1>a DEF Lookup, ToItsBranch
      <4>3. pc'[r] = "covered" => existing'[r] # 0
        BY <1>2, <1>a DEF Lookup, Move, Candidates, Open
      <4> QED
        BY <3>2, <4>1, <4>2, <4>3 DEF InBranch
    <3> QED
      BY <3>1, <3>2
  <2> QED
    BY <1>c, <2>1, <2>2 DEF ToItsBranch, InBranch
<1>3. ASSUME NEW r \in Runs, Edit(r) PROVE ToItsBranch'
  <2>1. /\ pc[r] = "edit" /\ UNCHANGED <<prs, existing>>
        /\ \/ pc' = [pc EXCEPT ![r] = "kept"] /\ branch' = branch
           \/ /\ pc' = [pc EXCEPT ![r] = "publish"]
              /\ branch' = [branch EXCEPT ![r] = SourceBranch(r)]
    BY <1>3, EditMoves DEF host
  <2>2. existing[r] # 0 => SourceBranch(r) = prs[existing[r]].branch
    BY <1>a DEF ToItsBranch, ApiTransport, SourceBranch
  <2>3. ASSUME NEW s \in Runs
        PROVE  /\ existing[s] # 0 => Manager(git)
               /\ pc'[s] = "covered" => existing[s] # 0
               /\ pc'[s] \in InBranch /\ existing[s] # 0 => branch'[s] = prs[existing[s]].branch
    BY <1>a, <2>1, <2>2 DEF ToItsBranch, InBranch
  <2> QED
    BY <1>c, <2>1, <2>3 DEF ToItsBranch, InBranch
<1>4. ASSUME NEW r \in Runs, Publish(r) PROVE ToItsBranch'
  BY <1>4, <1>a, <1>d DEF Publish, Move, After, Order, InBranch
<1>5. ASSUME NEW r \in Runs, PullRequest(r) PROVE ToItsBranch'
  <2>1. PICK n \in Numbers :
           /\ Used' = Used \cup {n}
           /\ \A i \in Numbers \ {n} : prs'[i] = prs[i]
           /\ n \in Used => prs'[n].branch = prs[n].branch
           /\ pc' = [pc EXCEPT ![r] = "updated"] \/ pc' = [pc EXCEPT ![r] = "opened"]
    BY <1>5, Written
  <2>2. \A i \in Used : prs'[i].branch = prs[i].branch
    BY <2>1 DEF Used
  <2>3. UNCHANGED <<existing, branch>>
    BY <1>5 DEF PullRequest
  <2> QED
    BY <1>a, <1>d, <2>1, <2>2, <2>3 DEF InBranch
<1>6. ASSUME NEW r \in Runs, Fail(r) PROVE ToItsBranch'
  BY <1>6, <1>a, <1>d DEF Fail, Move, host, InBranch
<1>7. CASE UNCHANGED vars \/ Change
  BY <1>7, <1>d DEF vars, runs, host, Change
<1>8. ASSUME NEW i \in Numbers, Close(i) \/ Merge(i) PROVE ToItsBranch'
  <2>1. \/ \A j \in Numbers : prs'[j].branch = prs[j].branch
        \/ \E r \in Runs : PullRequest(r)
    BY BodiesKept DEF SameBodies
  <2>2. CASE \A j \in Numbers : prs'[j].branch = prs[j].branch
    BY <1>8, <1>d, <2>2 DEF Close, Merge, runs, Used
  <2> QED
    BY <1>5, <2>1, <2>2
<1> QED
  BY <1>1, <1>2, <1>3, <1>4, <1>5, <1>6, <1>7, <1>8 DEF Next, Run

LEMMA TipsStep == PRInv /\ Openers /\ Tips /\ [Next]_vars => Tips'
<1> DEFINE Wrote(n) == branches[n] # NoRun =>
             branch[branches[n]] = n /\ pc[branches[n]] \in {"pr"} \cup Ended
           OnTop(r) == pc[r] = "pr" =>
             \E w \in Runs : branches[branch[r]] = w /\ (w = r \/ Rivals(w, r))
<1> SUFFICES ASSUME PRInv, Openers, Tips, [Next]_vars
             PROVE  (\A n \in Names : Wrote(n)') /\ (\A r \in Runs : OnTop(r)')
  BY DEF Tips, Names
<1>a. /\ pc \in [Runs -> {"idle", "lookup", "edit", "publish", "pr"} \cup Ended]
      /\ branches \in [Names -> Runs \cup {NoRun}] /\ branch \in [Runs -> Names \cup {0}]
  BY DEF PRInv, TypeOK
<1>b. /\ \A n \in Names : Wrote(n)
      /\ \A r \in Runs : OnTop(r)
      /\ \A n \in Names : branches[n] # NoRun => branches[n] \in Runs
      /\ \A r \in Runs : pc[r] \in InBranch => branch[r] \in Names
  BY <1>a DEF Tips, PRInv, InOrder
<1>c. ASSUME branches' = branches,
             \A r \in Runs : pc'[r] = "pr" => pc[r] = "pr" /\ branch'[r] = branch[r],
             \A r \in Runs : pc[r] \in {"pr"} \cup Ended =>
                               pc'[r] \in {"pr"} \cup Ended /\ branch'[r] = branch[r]
      PROVE  (\A n \in Names : Wrote(n)') /\ (\A r \in Runs : OnTop(r)')
  <2>1. ASSUME NEW n \in Names PROVE Wrote(n)'
    BY <1>b, <1>c
  <2>2. ASSUME NEW r \in Runs PROVE OnTop(r)'
    <3>1. SUFFICES ASSUME pc'[r] = "pr"
                   PROVE \E w \in Runs : branches'[branch'[r]] = w /\ (w = r \/ Rivals(w, r)')
      BY DEF Rivals
    <3>2. OnTop(r) /\ pc[r] = "pr"
      BY <1>b, <1>c, <3>1
    <3>3. PICK w \in Runs : branches[branch[r]] = w /\ (w = r \/ Rivals(w, r))
      BY <3>2
    <3>4. branches'[branch'[r]] = w
      BY <1>c, <3>1, <3>3
    <3> QED
      BY <3>3, <3>4, RivalsStay
  <2> QED
    BY <2>1, <2>2
<1>1. ASSUME NEW r \in Runs, Start(r) \/ Lookup(r) \/ Edit(r) \/ Fail(r) \/ PullRequest(r)
      PROVE  (\A n \in Names : Wrote(n)') /\ (\A s \in Runs : OnTop(s)')
  <2>1. /\ branches' = branches
        /\ \A s \in Runs : pc'[s] = "pr" => pc[s] = "pr" /\ branch'[s] = branch[s]
        /\ \A s \in Runs : pc[s] \in {"pr"} \cup Ended =>
                             pc'[s] \in {"pr"} \cup Ended /\ branch'[s] = branch[s]
    <3>1. CASE Start(r)
      BY <1>a, <3>1 DEF Start, Move, host, Ended
    <3>2. CASE Lookup(r)
      BY <1>a, <3>2 DEF Lookup, Move, host, Ended
    <3>3. CASE Edit(r)
      BY <1>a, <3>3, EditMoves DEF host, Ended
    <3>4. CASE Fail(r)
      BY <1>a, <3>4 DEF Fail, Move, host, Ended, InFlight
    <3>5. CASE PullRequest(r)
      BY <1>a, <3>5 DEF PullRequest, Move, After, Order, Outcome, Ended
    <3> QED
      BY <1>1, <3>1, <3>2, <3>3, <3>4, <3>5
  <2> QED
    BY <1>c, <2>1
<1>2. ASSUME NEW r \in Runs, Publish(r)
      PROVE  (\A n \in Names : Wrote(n)') /\ (\A s \in Runs : OnTop(s)')
  <2>1. /\ pc[r] = "publish" /\ pc' = [pc EXCEPT ![r] = "pr"] /\ branch' = branch
        /\ branches' = [branches EXCEPT ![branch[r]] = r]
        /\ branch[r] \in Names
    BY <1>2, <1>b DEF Publish, Move, After, Order, InBranch
  <2>2. r # NoRun
    BY RunsAssumption
  <2>3. ASSUME NEW n \in Names PROVE Wrote(n)'
    <3>1. CASE n = branch[r]
      BY <1>a, <2>1, <3>1
    <3>2. CASE n # branch[r]
      <4>1. branches'[n] = branches[n]
        BY <1>a, <2>1, <3>2
      <4> QED
        BY <1>a, <1>b, <2>1, <4>1
    <3> QED
      BY <3>1, <3>2
  <2>4. ASSUME NEW s \in Runs, pc'[s] = "pr"
        PROVE  \E w \in Runs : branches'[branch[s]] = w /\ (w = s \/ Rivals(w, s)')
    <3>1. CASE s = r
      BY <1>a, <2>1, <2>2, <3>1
    <3>2. CASE s # r /\ branch[s] = branch[r]
      <4>1. branches'[branch[s]] = r /\ pc[s] = "pr"
        BY <1>a, <2>1, <2>4, <3>2
      <4>2. Rivals(r, s)
        BY <2>1, <3>2, <4>1 DEF PRInv, Together, InFlight, Ended
      <4> QED
        BY <2>2, <4>1, <4>2, RivalsStay
    <3>3. CASE s # r /\ branch[s] # branch[r]
      <4>1. pc[s] = "pr" /\ branch[s] \in Names
        BY <1>a, <1>b, <2>1, <2>4, <3>3 DEF InBranch
      <4>2. branches'[branch[s]] = branches[branch[s]]
        BY <1>a, <2>1, <3>3, <4>1
      <4>3. PICK w \in Runs : branches[branch[s]] = w /\ (w = s \/ Rivals(w, s))
        BY <1>b, <4>1
      <4> QED
        BY <4>2, <4>3, RivalsStay
    <3> QED
      BY <3>1, <3>2, <3>3
  <2>5. ASSUME NEW s \in Runs PROVE OnTop(s)'
    BY <2>1, <2>4 DEF Rivals
  <2> QED
    BY <2>3, <2>5
<1>3. CASE UNCHANGED vars \/ Change \/ \E i \in Numbers : Close(i) \/ Merge(i)
  <2>1. UNCHANGED <<branches, branch, pc>>
    BY <1>3 DEF vars, runs, host, Change, Close, Merge
  <2> QED
    BY <1>c, <2>1
<1> QED
  BY <1>1, <1>2, <1>3 DEF Next, Run

\* A branch that is ahead of the body stays so: rivals stay rivals, and a branch
\* that two pull requests share is shared for good.
LEMMA AheadStays ==
  ASSUME PRInv, Openers, Signed, [Next]_vars, NEW i \in Used, Ahead(i),
         Tip(i)' = Tip(i), prs'[i].by = prs[i].by,
         pc[Tip(i)] = "pr" => pc'[Tip(i)] = "pr"
  PROVE  Ahead(i)'
<1>1. /\ i \in Numbers /\ prs[i].by \in Runs /\ Tip(i) \in Runs
      /\ pc \in [Runs -> {"idle", "lookup", "edit", "publish", "pr"} \cup Ended]
  BY DEF PRInv, TypeOK, InOrder, Used, Signed, Tip, Ahead
<1>2. Numbers' = Numbers
  BY DEF Numbers
<1>3. CASE pc[Tip(i)] \in {"pr", "failed"}
  <2>1. pc'[Tip(i)] \in {"pr", "failed"}
    BY <1>1, <1>3, Settled DEF Ended
  <2> QED
    BY <2>1 DEF Ahead
<1>4. CASE Rivals(Tip(i), prs[i].by)
  <2> DEFINE w == Tip(i)
             b == prs[i].by
  <2>1. PICK t \in Runs, v \in Runs : t = w /\ v = b
    BY <1>1
  <2>2. Rivals(t, v)'
    BY <1>4, <2>1, RivalsStay
  <2>3. Tip(i)' = t /\ prs'[i].by = v /\ t # NoRun
    BY <2>1 DEF Ahead
  <2> QED
    BY <2>2, <2>3 DEF Ahead, Rivals
<1>5. CASE Shared(i)
  <2>1. \A j \in Used : j \in Used' /\ prs'[j].branch = prs[j].branch
    <3>1. CASE SameBodies
      BY <3>1 DEF SameBodies, Used
    <3>2. ASSUME NEW r \in Runs, PullRequest(r)
          PROVE  \A j \in Used : j \in Used' /\ prs'[j].branch = prs[j].branch
      <4>1. PICK n \in Numbers :
               /\ Used' = Used \cup {n}
               /\ \A j \in Numbers \ {n} : prs'[j] = prs[j]
               /\ n \in Used => prs'[n].branch = prs[n].branch
        BY <3>2, Written
      <4> QED
        BY <4>1 DEF Used
    <3> QED
      BY <3>1, <3>2, BodiesKept
  <2>2. PICK j \in Numbers \ {i} : j \in Used /\ prs[j].branch = prs[i].branch
    BY <1>5 DEF Shared, Used
  <2>3. prs'[j].state # "none" /\ prs'[j].branch = prs'[i].branch
    BY <2>1, <2>2 DEF Used
  <2>4. Shared(i)'
    BY <1>2, <2>3 DEF Shared
  <2> QED
    BY <2>4 DEF Ahead
<1> QED
  BY <1>3, <1>4, <1>5 DEF Ahead

LEMMA BodiesStep == PRInv /\ BodyInv /\ [Next]_vars => Bodies'
<1> SUFFICES ASSUME PRInv, BodyInv, [Next]_vars PROVE Bodies'
  OBVIOUS
<1> DEFINE Fits(i) == Tip(i) = prs[i].by \/ Ahead(i)
<1> HIDE DEF Fits
<1> SUFFICES \A i \in Used' : Fits(i)'
  BY DEF Bodies, Fits
<1>a. /\ pc \in [Runs -> {"idle", "lookup", "edit", "publish", "pr"} \cup Ended]
      /\ branches \in [Names -> Runs \cup {NoRun}]
  BY DEF PRInv, TypeOK
<1>b. \A i \in Used : /\ Fits(i) /\ i \in Numbers
                      /\ prs[i].branch \in Names /\ prs[i].by \in Runs /\ Tip(i) \in Runs
  <2>1. ASSUME NEW i \in Used
        PROVE  Fits(i) /\ i \in Numbers /\ prs[i].branch \in Names /\ prs[i].by \in Runs
    BY DEF BodyInv, Bodies, Fits, Signed, PRInv, InOrder, Used
  <2>2. ASSUME NEW i \in Used PROVE Tip(i) \in Runs
    BY <1>a, <2>1 DEF Fits, Ahead, Tip
  <2> QED
    BY <2>1, <2>2
<1>c. ASSUME NEW i \in Used, Tip(i)' = Tip(i), prs'[i].by = prs[i].by,
             pc[Tip(i)] = "pr" => pc'[Tip(i)] \in {"pr", "failed"}
      PROVE  Fits(i)'
  <2>1. CASE Tip(i) = prs[i].by
    BY <1>c, <2>1 DEF Fits
  <2>2. CASE Ahead(i) /\ pc[Tip(i)] = "pr"
    <3>1. Tip(i)' # NoRun /\ pc'[Tip(i)'] \in {"pr", "failed"}
      BY <1>c, <2>2 DEF Ahead
    <3> QED
      BY <3>1 DEF Fits, Ahead
  <2>3. CASE Ahead(i) /\ pc[Tip(i)] # "pr"
    BY <1>c, <2>3, AheadStays DEF BodyInv, Fits
  <2> QED
    BY <1>b, <2>1, <2>2, <2>3 DEF Fits
\* Nothing is published, and no run is done with its pull request.
<1>d. ASSUME SameBodies, branches' = branches,
             \A r \in Runs : pc[r] = "pr" => pc'[r] \in {"pr", "failed"}
      PROVE  \A i \in Used' : Fits(i)'
  <2>1. ASSUME NEW i \in Used'
        PROVE  i \in Used /\ Tip(i)' = Tip(i) /\ prs'[i].by = prs[i].by
    BY <1>d DEF SameBodies, Tip, Used
  <2> QED
    BY <1>b, <1>c, <1>d, <2>1
<1>1. ASSUME NEW r \in Runs, Start(r) \/ Lookup(r) \/ Edit(r) \/ Fail(r)
      PROVE  \A i \in Used' : Fits(i)'
  <2>1. SameBodies
    BY <1>1 DEF SameBodies, Start, Lookup, Edit, Fail, host, Used, Numbers
  <2>2. branches' = branches
    BY <1>1 DEF Start, Lookup, Edit, Fail, host
  <2>3. \A s \in Runs : pc[s] = "pr" => pc'[s] \in {"pr", "failed"}
    <3>1. CASE Start(r)
      BY <1>a, <3>1 DEF Start, Move
    <3>2. CASE Lookup(r)
      BY <1>a, <3>2 DEF Lookup, Move
    <3>3. CASE Edit(r)
      BY <1>a, <3>3 DEF Edit, Move
    <3>4. CASE Fail(r)
      BY <1>a, <3>4 DEF Fail, Move
    <3> QED
      BY <1>1, <3>1, <3>2, <3>3, <3>4
  <2> QED
    BY <1>d, <2>1, <2>2, <2>3
\* The tip moves to a run that has yet to reach the pull request.
<1>2. ASSUME NEW r \in Runs, Publish(r)
      PROVE  \A i \in Used' : Fits(i)'
  <2>1. /\ pc[r] = "publish" /\ pc' = [pc EXCEPT ![r] = "pr"] /\ prs' = prs
        /\ branches' = [branches EXCEPT ![branch[r]] = r]
    BY <1>2 DEF Publish, Move, After, Order
  <2>2. Used' = Used
    BY <2>1 DEF Used, Numbers
  <2>3. ASSUME NEW i \in Used, prs[i].branch = branch[r] PROVE Fits(i)'
    <3>1. Tip(i)' = r /\ pc'[r] = "pr" /\ r # NoRun
      BY <1>a, <1>b, <2>1, <2>3, RunsAssumption DEF Tip
    <3> QED
      BY <3>1 DEF Fits, Ahead
  <2>4. ASSUME NEW i \in Used, prs[i].branch # branch[r] PROVE Fits(i)'
    <3>1. Tip(i)' = Tip(i)
      BY <1>a, <1>b, <2>1, <2>4 DEF Tip
    <3>2. pc[Tip(i)] = "pr" => pc'[Tip(i)] = "pr"
      BY <1>a, <1>b, <2>1
    <3> QED
      BY <1>c, <2>1, <3>1, <3>2
  <2> QED
    BY <2>2, <2>3, <2>4
\* The body moves to the run that wrote the tip, or to a rival of it, and no
\* other branch can have this run at its tip.
<1>3. ASSUME NEW r \in Runs, PullRequest(r)
      PROVE  \A i \in Used' : Fits(i)'
  <2>0. pc[r] = "pr" /\ branches' = branches
    BY <1>3 DEF PullRequest
  <2>1. PICK n \in Numbers :
           /\ Used' = Used \cup {n}
           /\ \A i \in Numbers \ {n} : prs'[i] = prs[i]
           /\ prs'[n].by = r
           /\ \/ /\ n \in Used /\ n = existing[r] /\ pc' = [pc EXCEPT ![r] = "updated"]
                 /\ prs'[n].branch = prs[n].branch
              \/ pc' = [pc EXCEPT ![r] = "opened"] /\ prs'[n].branch = branch[r]
    BY <1>3, Written DEF BodyInv
  <2>2. prs'[n].branch = branch[r]
    <3>1. CASE n \in Used /\ n = existing[r]
      <4>1. existing[r] # 0
        BY <3>1, RunsCount DEF Numbers
      <4> QED
        BY <2>0, <2>1, <3>1, <4>1 DEF BodyInv, ToItsBranch, InBranch
    <3> QED
      BY <2>1, <3>1
  <2>3. Fits(n)'
    <3>1. PICK w \in Runs : branches[branch[r]] = w /\ (w = r \/ Rivals(w, r))
      BY <2>0 DEF BodyInv, Tips
    <3>2. Tip(n)' = w /\ w # NoRun
      BY <2>0, <2>2, <3>1, RunsAssumption DEF Tip
    <3>3. w = r \/ Rivals(w, r)'
      BY <3>1, RivalsStay
    <3> QED
      BY <2>1, <3>2, <3>3 DEF Fits, Ahead, Rivals
  <2>4. ASSUME NEW i \in Used, i # n PROVE Fits(i)'
    <3>1. prs'[i] = prs[i] /\ i \in Numbers /\ i \in Used'
      BY <1>b, <2>1, <2>4
    <3>2. Tip(i)' = Tip(i)
      BY <2>0, <3>1 DEF Tip
    <3>3. CASE Tip(i) = r
      <4>1. prs[i].branch = branch[r]
        BY <1>b, <3>3, RunsAssumption DEF BodyInv, Tips, Tip
      <4>2. n \in Numbers \ {i} /\ n \in Used'
        BY <2>1, <2>4
      <4>3. prs'[n].state # "none" /\ prs'[n].branch = prs'[i].branch
        BY <2>2, <3>1, <4>1, <4>2 DEF Used
      <4>4. Shared(i)'
        BY <4>2, <4>3 DEF Shared, Numbers
      <4>5. Tip(i)' # NoRun
        BY <3>2, <3>3, RunsAssumption
      <4> QED
        BY <4>4, <4>5 DEF Fits, Ahead
    <3>4. CASE Tip(i) # r
      <4>1. pc[Tip(i)] = "pr" => pc'[Tip(i)] = "pr"
        BY <1>a, <1>b, <2>1, <3>4
      <4> QED
        BY <1>c, <3>1, <3>2, <4>1
    <3> QED
      BY <3>3, <3>4
  <2> QED
    BY <2>1, <2>3, <2>4
<1>4. CASE UNCHANGED vars \/ Change \/ \E i \in Numbers : Close(i) \/ Merge(i)
  <2>1. UNCHANGED <<branches, pc>>
    BY <1>4 DEF vars, runs, host, Change, Close, Merge
  <2>2. CASE SameBodies
    BY <1>a, <1>d, <2>1, <2>2
  <2> QED
    BY <1>3, <2>2, BodiesKept
<1> QED
  BY <1>1, <1>2, <1>3, <1>4 DEF Next, Run

LEMMA BodyInit == Init => BodyInv
<1> SUFFICES ASSUME Init PROVE BodyInv
  OBVIOUS
<1>1. Used = {}
  BY DEF Init, Used, NoPR
<1>2. Tips
  BY DEF Init, Tips
<1>3. ToItsBranch
  BY DEF Init, ToItsBranch, InBranch
<1> QED
  BY <1>1, <1>2, <1>3 DEF BodyInv, Openers, Signed, Bodies

LEMMA BodyStep == ApiTransport /\ PRInv /\ BodyInv /\ [Next]_vars => BodyInv'
<1>1. PRInv /\ BodyInv /\ [Next]_vars => Openers' /\ Signed' /\ Tips'
  BY OpenersStep, SignedStep, TipsStep DEF BodyInv
<1>2. ApiTransport /\ PRInv /\ BodyInv /\ [Next]_vars => ToItsBranch'
  BY ToItsBranchStep DEF BodyInv
<1> QED
  BY <1>1, <1>2, BodiesStep DEF BodyInv

\* The body of an open pull request describes the commit at the tip of its
\* branch, or the branch is ahead of it, where a host with a lookup is written
\* to through its API: for any number of runs that overlap, fail between the
\* publish and the pull request, or share a branch name (publish and upsert in
\* cmd/terra-drift/sync.go).
THEOREM BodyAlwaysTellsBranch ==
  ASSUME ApiTransport
  PROVE  Spec => []BodyTellsBranch
<1>1. PRInv /\ BodyInv /\ [Next]_vars => BodyInv'
  BY BodyStep
<1>2. BodyInv => BodyTellsBranch
  BY DEF BodyInv, Bodies, BodyTellsBranch, Open, Used
<1> QED
  BY <1>1, <1>2, PRInit, PRStep, BodyInit, PTL DEF Spec

\* A run ends early on the strength of a digest only if the branch behind it was
\* written for exactly the drift that the run sees, or is ahead of the pull
\* request: the digest of the body is that of the run that wrote it, whose plan
\* the digest identifies (findExistingPR, runSync in cmd/terra-drift/sync.go).
THEOREM CoveredAlwaysByBranch ==
  ASSUME ApiTransport
  PROVE  Spec => []CoveredByBranch
<1>1. PRInv /\ BodyInv /\ [Next]_vars => BodyInv'
  BY BodyStep
<1>2. PRInv /\ BodyInv => CoveredByBranch
  <2> SUFFICES ASSUME PRInv, BodyInv, NEW r \in Runs, NEW i, i = existing[r],
                      pc[r] = "covered", prs[i].covers = hash[r], ~Ahead(i)
               PROVE  Tip(i) # NoRun /\ plan[Tip(i)] = plan[r]
    BY DEF CoveredByBranch
  <2>1. i \in Used
    BY DEF BodyInv, ToItsBranch, PRInv, InOrder
  <2>2. Tip(i) = prs[i].by /\ prs[i].by \in Runs /\ prs[i].covers = hash[prs[i].by]
    BY <2>1 DEF BodyInv, Bodies, Signed
  <2>3. plan[prs[i].by] = plan[r]
    BY <2>2, DigestTells DEF PRInv, HashOfPlan
  <2> QED
    BY <2>2, <2>3, RunsAssumption
<1> QED
  BY <1>1, <1>2, PRInit, PRStep, BodyInit, PTL DEF Spec
=============================================================================
