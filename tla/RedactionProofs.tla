---------------------------- MODULE RedactionProofs ----------------------------
(***************************************************************************)
(* Theorems about one exchange with the model, for every payload, system   *)
(* prompt, number of attempts and order of the table, with their TLAPS     *)
(* proofs.  The passes of Redact and the substitutions of Restore are      *)
(* folds, whose steps come first.                                          *)
(***************************************************************************)
EXTENDS Redaction, FiniteSetTheorems, SequenceTheorems, WellFoundedInduction, TLAPS

-----------------------------------------------------------------------------
(* Numbers. *)

Lower == {ss \in Nat \X Nat : ss[1] < ss[2]}
LEMMA LowerWellFounded == IsWellFoundedOn(Lower, Nat)
  BY NatLessThanWellFounded DEF OpToRel, Lower

\* A set of natural numbers has a least element.
LEMMA Least ==
  ASSUME NEW T \in SUBSET Nat, T # {}
  PROVE  \E x \in T : \A y \in T : x <= y
<1>1. PICK x \in T : \A y \in T : ~ (<<y, x>> \in Lower)
  BY LowerWellFounded, WFMin
<1>2. ASSUME NEW y \in T, y < x PROVE FALSE
  <2>1. <<y, x>> \in Lower
    BY <1>2 DEF Lower
  <2> QED
    BY <1>1, <2>1
<1> QED
  BY <1>2

\* What holds at 0 and from each number to the next holds of all up to n.  The
\* property is given as the set of the numbers that have it.
LEMMA UpTo ==
  ASSUME NEW n \in Nat, NEW P, 0 \in P, \A i \in 1..n : i - 1 \in P => i \in P
  PROVE  \A i \in 0..n : i \in P
<1> SUFFICES ASSUME NEW i \in 0..n, i \notin P PROVE FALSE
  OBVIOUS
<1> DEFINE bad == {k \in 0..n : k \notin P}
<1>1. PICK x \in bad : \A y \in bad : x <= y
  <2>1. bad \in SUBSET Nat /\ bad # {}
    OBVIOUS
  <2> HIDE DEF bad
  <2> QED
    BY <2>1, Least
<1>2. x \in 1..n /\ x - 1 \in 0..n /\ x - 1 < x
  OBVIOUS
<1>3. x - 1 \in P
  BY <1>1, <1>2
<1> QED
  BY <1>2, <1>3

\* The greatest number of a set that has one.
LEMMA MaxIs ==
  ASSUME NEW S \in SUBSET Nat, NEW m \in S, \A x \in S : x <= m
  PROVE  Max(S) = m
<1>1. \E x \in S : \A y \in S : x >= y
  OBVIOUS
<1>2. Max(S) \in S /\ \A y \in S : Max(S) >= y
  BY <1>1 DEF Max
<1>3. Max(S) \in Nat /\ m \in Nat /\ Max(S) <= m /\ m <= Max(S)
  BY <1>2
<1> QED
  BY <1>3

\* A bounded set has one.
LEMMA MaxOf ==
  ASSUME NEW n \in Nat, NEW S \in SUBSET (0..n), S # {}
  PROVE  Max(S) \in S /\ \A x \in S : x <= Max(S)
<1> DEFINE T == {n - x : x \in S}
<1>1. PICK t \in T : \A y \in T : t <= y
  <2>1. T \in SUBSET Nat
    <3>1. \A x \in S : n - x \in Nat
      OBVIOUS
    <3> QED
      BY <3>1
  <2>2. T # {}
    OBVIOUS
  <2> HIDE DEF T
  <2> QED
    BY <2>1, <2>2, Least
<1>2. PICK m \in S : t = n - m
  OBVIOUS
<1>3. \A x \in S : x <= m
  <2>1. TAKE x \in S
  <2>2. t <= n - x
    BY <1>1
  <2> QED
    BY <1>2, <2>2
<1>4. Max(S) = m
  BY <1>3, MaxIs
<1> QED
  BY <1>3, <1>4

-----------------------------------------------------------------------------
(* Folds.  FoldLeft is defined by recursion over sets of positions, of which  *)
(* the last is taken first; what it computes is a run of states.              *)

Folds(F, n, base, step) ==
  F = [S \in SUBSET (1..n) |->
         IF S = {} THEN base ELSE step[<<F[S \ {Max(S)}], Max(S)>>]]

Steps(step, n, B) == step \in [B \X (1..n) -> B]

LEMMA FoldExists ==
  ASSUME NEW n \in Nat, NEW B, NEW base \in B, NEW step, Steps(step, n, B)
  PROVE  \E F \in [SUBSET (1..n) -> B] : Folds(F, n, base, step)
<1> DEFINE Has(m) == \E F \in [SUBSET (1..m) -> B] : Folds(F, m, base, step)
           P == {m \in 0..n : Has(m)}
<1>0. \A m \in 0..n : m \in P <=> Has(m)
  <2> HIDE DEF Has
  <2> QED
    OBVIOUS
<1> HIDE DEF P
<1>1. 0 \in P
  <2> DEFINE F == [S \in SUBSET (1..0) |-> base]
  <2>1. F \in [SUBSET (1..0) -> B]
    OBVIOUS
  <2>2. \A S \in SUBSET (1..0) : S = {}
    OBVIOUS
  <2>3. Folds(F, 0, base, step)
    <3>1. \A S \in SUBSET (1..0) :
            base = IF S = {} THEN base ELSE step[<<F[S \ {Max(S)}], Max(S)>>]
      BY <2>2
    <3> QED
      BY <3>1 DEF Folds
  <2>4. Has(0)
    <3> HIDE DEF F
    <3> QED
      BY <2>1, <2>3
  <2> HIDE DEF Has
  <2> QED
    BY <1>0, <2>4
<1>2. ASSUME NEW m \in 1..n, m - 1 \in P PROVE m \in P
  <2>1. PICK F \in [SUBSET (1..(m - 1)) -> B] : Folds(F, m - 1, base, step)
    <3>1. Has(m - 1)
      <4> HIDE DEF Has
      <4> QED
        BY <1>0, <1>2
    <3> QED
      BY <3>1
  <2> DEFINE G == [S \in SUBSET (1..m) |->
                     IF m \in S THEN step[<<F[S \ {m}], m>>] ELSE F[S]]
  <2>2. \A S \in SUBSET (1..m) : /\ m \in S => S \ {m} \in SUBSET (1..(m - 1))
                                 /\ m \notin S => S \in SUBSET (1..(m - 1))
    OBVIOUS
  <2>3. G \in [SUBSET (1..m) -> B]
    <3>1. ASSUME NEW S \in SUBSET (1..m)
          PROVE  (IF m \in S THEN step[<<F[S \ {m}], m>>] ELSE F[S]) \in B
      <4>1. CASE m \in S
        <5>1. F[S \ {m}] \in B
          BY <2>2, <4>1
        <5>2. <<F[S \ {m}], m>> \in B \X (1..n)
          BY <5>1
        <5> QED
          BY <4>1, <5>2 DEF Steps
      <4>2. CASE m \notin S
        BY <2>2, <4>2
      <4> QED
        BY <4>1, <4>2
    <3> QED
      BY <3>1
  <2>4. ASSUME NEW S \in SUBSET (1..m)
        PROVE  G[S] = IF S = {} THEN base ELSE step[<<G[S \ {Max(S)}], Max(S)>>]
    <3>1. CASE m \in S
      <4>1. Max(S) = m
        <5>1. S \in SUBSET Nat /\ \A x \in S : x <= m
          OBVIOUS
        <5> QED
          BY <3>1, <5>1, MaxIs
      <4>2. G[S] = step[<<F[S \ {m}], m>>]
        BY <3>1
      <4>3. G[S \ {m}] = F[S \ {m}]
        OBVIOUS
      <4> HIDE DEF G
      <4> QED
        BY <3>1, <4>1, <4>2, <4>3
    <3>2. CASE m \notin S
      <4>1. S \in SUBSET (1..(m - 1))
        BY <2>2, <3>2
      <4>2. G[S] = F[S] /\ F[S] = IF S = {} THEN base ELSE step[<<F[S \ {Max(S)}], Max(S)>>]
        BY <2>1, <3>2, <4>1 DEF Folds
      <4>3. G[S \ {Max(S)}] = F[S \ {Max(S)}]
        BY <3>2
      <4> HIDE DEF G
      <4> QED
        BY <4>2, <4>3
    <3> QED
      BY <3>1, <3>2
  <2>5. Folds(G, m, base, step)
    <3>1. G = [S \in SUBSET (1..m) |-> G[S]]
      OBVIOUS
    <3> HIDE DEF G
    <3> QED
      BY <2>4, <3>1 DEF Folds
  <2>6. Has(m)
    <3> HIDE DEF G
    <3> QED
      BY <2>3, <2>5
  <2> HIDE DEF Has
  <2> QED
    BY <1>0, <2>6
<1>3. n \in P
  <2>1. \A i \in 1..n : i - 1 \in P => i \in P
    BY <1>2
  <2>2. n \in 0..n
    OBVIOUS
  <2> QED
    BY <1>1, <2>1, <2>2, UpTo
<1>4. Has(n)
  <2> HIDE DEF Has
  <2> QED
    BY <1>0, <1>3
<1> QED
  BY <1>4

\* The run of a fold, one position after the other.
Runs(st, n, B, base, step) ==
  /\ st \in [0..n -> B] /\ st[0] = base
  /\ \A i \in 1..n : st[i] = step[<<st[i - 1], i>>]

\* Any function that folds, whatever it is elsewhere, goes through it.
Follows(F, n, B, base, step) ==
  /\ F[{}] = base
  /\ \A S \in SUBSET (1..n) : S # {} /\ F[S \ {Max(S)}] \in B
       => F[S] = step[<<F[S \ {Max(S)}], Max(S)>>]

LEMMA FoldRuns ==
  ASSUME NEW n \in Nat, NEW B, NEW base \in B, NEW step, Steps(step, n, B), NEW F, Follows(F, n, B, base, step)
  PROVE  \E st : Runs(st, n, B, base, step) /\ F[1..n] = st[n]
<1> DEFINE st == [i \in 0..n |-> F[1..i]]
<1>1. st[0] = base
  <2>1. 1..0 = {}
    OBVIOUS
  <2> QED
    BY <2>1 DEF Follows
<1>2. ASSUME NEW i \in 1..n, st[i - 1] \in B PROVE st[i] = step[<<st[i - 1], i>>]
  <2>1. Max(1..i) = i
    <3>1. 1..i \in SUBSET Nat /\ i \in 1..i /\ \A x \in 1..i : x <= i
      OBVIOUS
    <3> QED
      BY <3>1, MaxIs
  <2>2. (1..i) \ {i} = 1..(i - 1) /\ 1..i # {} /\ 1..i \in SUBSET (1..n)
    OBVIOUS
  <2>3. st[i] = F[1..i] /\ st[i - 1] = F[1..(i - 1)]
    OBVIOUS
  <2> HIDE DEF st
  <2>4. F[(1..i) \ {Max(1..i)}] \in B
    BY <1>2, <2>1, <2>2, <2>3
  <2>5. F[1..i] = step[<<F[(1..i) \ {Max(1..i)}], Max(1..i)>>]
    BY <2>2, <2>4 DEF Follows
  <2> QED
    BY <2>1, <2>2, <2>3, <2>5
<1>3. \A i \in 0..n : st[i] \in B
  <2> DEFINE P == {i \in 0..n : st[i] \in B}
  <2>1. 0 \in P
    BY <1>1
  <2>2. \A i \in 1..n : i - 1 \in P => i \in P
    <3>1. TAKE i \in 1..n
    <3>2. HAVE i - 1 \in P
    <3>3. st[i - 1] \in B /\ step[<<st[i - 1], i>>] \in B
      BY <3>2 DEF Steps
    <3> HIDE DEF st
    <3> QED
      BY <1>2, <3>3
  <2>3. \A i \in 0..n : i \in P
    <3> HIDE DEF P
    <3> QED
      BY <2>1, <2>2, UpTo
  <2> QED
    BY <2>3
<1>4. st \in [0..n -> B]
  BY <1>3
<1>5. F[1..n] = st[n]
  OBVIOUS
<1>6. \A i \in 1..n : st[i] = step[<<st[i - 1], i>>]
  <2>1. TAKE i \in 1..n
  <2>2. i - 1 \in 0..n
    OBVIOUS
  <2> HIDE DEF st
  <2> QED
    BY <1>2, <1>3, <2>2
<1> HIDE DEF st
<1> QED
  BY <1>1, <1>4, <1>5, <1>6 DEF Runs

-----------------------------------------------------------------------------
(* One pass of Redact. *)

\* The run of fragments that no separator ends.
LEMMA RunEndIs ==
  ASSUME NEW s \in Texts, NEW i \in 1..Len(s), s[i].kind # "sep"
  PROVE  /\ RunEnd(s, i) \in i..Len(s)
         /\ \A j \in i..Len(s) : Joined(s, i, j) <=> j <= RunEnd(s, i)
<1> DEFINE S == {j \in i..Len(s) : \A k \in i..j : s[k].kind # "sep"}
<1>1. Len(s) \in Nat
  BY DEF Texts
<1>2. i \in S
  <2>1. \A k \in i..i : k = i
    OBVIOUS
  <2> QED
    BY <1>1, <2>1
<1>3. S \in SUBSET (0..Len(s))
  BY <1>1
<1>4. RunEnd(s, i) = Max(S)
  BY DEF RunEnd
<1>5. Max(S) \in S /\ \A x \in S : x <= Max(S)
  <2> HIDE DEF S
  <2> QED
    BY <1>1, <1>2, <1>3, MaxOf
<1>6. ASSUME NEW j \in i..Len(s), j <= Max(S) PROVE Joined(s, i, j)
  <2>1. \A k \in i..j : k \in i..Max(S)
    BY <1>1, <1>5, <1>6
  <2> QED
    BY <1>5, <2>1 DEF Joined
<1>7. ASSUME NEW j \in i..Len(s), Joined(s, i, j) PROVE j <= Max(S)
  <2>1. j \in S
    BY <1>7 DEF Joined
  <2> QED
    BY <1>5, <2>1
<1> QED
  BY <1>4, <1>5, <1>6, <1>7

\* An ARN has at least three fragments.
LEMMA ArnIs ==
  ASSUME NEW s \in Texts, NEW i \in 1..Len(s)
  PROVE  /\ MatchLength("arn", s, i) = IF IsArn(s, i) THEN RunEnd(s, i) - i + 1 ELSE 0
         /\ IsArn(s, i) => RunEnd(s, i) \in (i + 2)..Len(s)
<1>1. Len(s) \in Nat
  BY DEF Texts
<1>2. CASE s[i].kind # "arn"
  BY <1>2 DEF MatchLength, IsArn
<1>3. CASE s[i].kind = "arn"
  <2>1. RunEnd(s, i) \in i..Len(s) /\ \A j \in i..Len(s) : Joined(s, i, j) <=> j <= RunEnd(s, i)
    BY <1>3, RunEndIs
  <2>2. ASSUME IsArn(s, i) PROVE RunEnd(s, i) >= i + 2
    <3>1. i + 2 \in i..Len(s)
      BY <1>1, <2>2 DEF IsArn
    <3>2. \A k \in i..(i + 2) : k = i \/ k = i + 1 \/ k = i + 2
      OBVIOUS
    <3>3. Joined(s, i, i + 2)
      BY <2>2, <3>2 DEF IsArn, Joined
    <3> QED
      BY <2>1, <3>1, <3>3
  <2>3. ASSUME RunEnd(s, i) >= i + 2, s[i + 1].kind = "id" PROVE IsArn(s, i)
    <3>1. i + 2 \in i..Len(s)
      BY <1>1, <2>1, <2>3
    <3>2. Joined(s, i, i + 2)
      BY <2>1, <2>3, <3>1
    <3>3. i + 2 \in i..(i + 2)
      OBVIOUS
    <3>4. s[i + 2].kind # "sep"
      BY <3>2, <3>3 DEF Joined
    <3> QED
      BY <1>1, <1>3, <2>3, <3>1, <3>4 DEF IsArn
  <2>4. IsArn(s, i) <=> RunEnd(s, i) >= i + 2 /\ s[i + 1].kind = "id"
    BY <2>2, <2>3 DEF IsArn
  <2> QED
    BY <1>1, <1>3, <2>1, <2>4 DEF MatchLength
<1> QED
  BY <1>2, <1>3

LEMMA MatchFits ==
  ASSUME NEW s \in Texts, NEW i \in 1..Len(s), NEW p \in {"arn", "ip", "id"}
  PROVE  MatchLength(p, s, i) \in 0..(Len(s) - i + 1)
<1>1. Len(s) \in Nat
  BY DEF Texts
<1>2. CASE p # "arn"
  BY <1>1, <1>2 DEF MatchLength
<1>3. CASE p = "arn"
  BY <1>1, <1>3, ArnIs
<1> QED
  BY <1>2, <1>3

\* The values that have a placeholder, each of them once.
Distinct(tab) == \A m, n \in 1..Len(tab) : tab[m] = tab[n] => m = n
Longer(tab, t) == Len(tab) <= Len(t) /\ \A n \in 1..Len(tab) : t[n] = tab[n]

Adds(t, tab, v) ==
  /\ t \in Seq(Texts) /\ Longer(tab, t)
  /\ Distinct(tab) => Distinct(t)
  /\ \A n \in 1..Len(t) : t[n] = v \/ (n <= Len(tab) /\ t[n] = tab[n])

LEMMA Recorded ==
  ASSUME NEW tab \in Seq(Texts), NEW v \in Texts, NEW t, t = Record(tab, v)
  PROVE  /\ Adds(t, tab, v)
         /\ \E m \in 1..Len(t) : PlaceholderOf(t, v) = Token(m) /\ t[m] = v
<1>1. Len(tab) \in Nat
  OBVIOUS
<1>2. CASE \E n \in 1..Len(tab) : tab[n] = v
  <2>1. t = tab
    BY <1>2 DEF Record
  <2> QED
    <3> DEFINE S == {n \in 1..Len(t) : t[n] = v}
    <3>1. S \in SUBSET (0..Len(t)) /\ S # {} /\ Len(t) \in Nat
      BY <1>1, <1>2, <2>1
    <3>2. Max(S) \in S
      <4> HIDE DEF S
      <4> QED
        BY <3>1, MaxOf
    <3>3. PlaceholderOf(t, v) = Token(Max(S))
      BY DEF PlaceholderOf
    <3>4. \E m \in 1..Len(t) : PlaceholderOf(t, v) = Token(m) /\ t[m] = v
      <4>1. Max(S) \in 1..Len(t) /\ t[Max(S)] = v
        BY <3>2
      <4> HIDE DEF S
      <4> QED
        BY <3>3, <4>1
    <3> QED
      BY <1>1, <2>1, <3>4 DEF Adds, Longer
<1>3. CASE ~ \E n \in 1..Len(tab) : tab[n] = v
  <2>1. t = Append(tab, v)
    BY <1>3 DEF Record
  <2>2. /\ t \in Seq(Texts) /\ Len(t) = Len(tab) + 1
        /\ \A n \in 1..Len(tab) : t[n] = tab[n]
        /\ t[Len(tab) + 1] = v
    BY <2>1, AppendProperties
  <2>3. \A n \in 1..Len(t) : n = Len(tab) + 1 \/ n \in 1..Len(tab)
    BY <1>1, <2>2
  <2>4. \A n \in 1..Len(t) : t[n] = v => n = Len(tab) + 1
    BY <1>3, <2>2, <2>3
  <2>5. Distinct(tab) => Distinct(t)
    BY <2>2, <2>3, <2>4 DEF Distinct
  <2>6. PlaceholderOf(t, v) = Token(Len(tab) + 1)
    <3> DEFINE S == {n \in 1..Len(t) : t[n] = v}
    <3>1. S \in SUBSET Nat /\ Len(tab) + 1 \in S /\ \A x \in S : x <= Len(tab) + 1
      BY <1>1, <2>2, <2>4
    <3>2. Max(S) = Len(tab) + 1
      <4> HIDE DEF S
      <4> QED
        BY <3>1, MaxIs
    <3> QED
      BY <3>2 DEF PlaceholderOf
  <2>7. \A n \in 1..Len(t) : t[n] = v \/ (n <= Len(tab) /\ t[n] = tab[n])
    BY <1>1, <2>2, <2>3
  <2>8. Len(tab) + 1 \in 1..Len(t)
    BY <1>1, <2>2
  <2> QED
    BY <1>1, <2>2, <2>5, <2>6, <2>7, <2>8 DEF Adds, Longer
<1> QED
  BY <1>2, <1>3

\* What one position of the text adds.
Redactions == [table : Seq(Texts), text : Texts, next : Nat]
Consumed(p, s, st, i) ==
  LET n == MatchLength(p, s, i)
      v == SubSeq(s, i, i + n - 1)
      tab == Record(st.table, v)
  IN  IF i < st.next THEN st
      ELSE IF n = 0 THEN [st EXCEPT !.text = Append(@, s[i])]
      ELSE [table |-> tab, next |-> i + n, text |-> Append(st.text, PlaceholderOf(tab, v))]

LEMMA TokenIsAtom == \A n \in Nat : Token(n) \in Atoms /\ Token(n).kind = "token" /\ Token(n).n = n
  BY DEF Token, Atoms

LEMMA FragmentsOfMatch ==
  ASSUME NEW s \in Texts, NEW i \in 1..Len(s), NEW p \in {"arn", "ip", "id"}
  PROVE  SubSeq(s, i, i + MatchLength(p, s, i) - 1) \in Texts
<1>1. MatchLength(p, s, i) \in 0..(Len(s) - i + 1) /\ Len(s) \in Nat
  BY MatchFits DEF Texts
<1>2. i \in Int /\ i + MatchLength(p, s, i) - 1 \in Int
  BY <1>1
<1>3. \A k \in i..(i + MatchLength(p, s, i) - 1) : k \in 1..Len(s)
  BY <1>1
<1>4. \A k \in i..(i + MatchLength(p, s, i) - 1) : s[k] \in Atoms
  BY <1>3 DEF Texts
<1> QED
  BY <1>2, <1>4, SubSeqProperties DEF Texts

LEMMA ConsumedTyped ==
  ASSUME NEW s \in Texts, NEW i \in 1..Len(s), NEW p \in {"arn", "ip", "id"}, NEW st \in Redactions
  PROVE  Consumed(p, s, st, i) \in Redactions
<1> DEFINE n == MatchLength(p, s, i)
           v == SubSeq(s, i, i + n - 1)
           tab == Record(st.table, v)
<1>1. n \in Nat /\ v \in Texts /\ s[i] \in Atoms /\ i \in Nat
  <2>1. n \in 0..(Len(s) - i + 1) /\ Len(s) \in Nat
    BY MatchFits DEF Texts
  <2>2. v \in Texts
    BY FragmentsOfMatch
  <2>3. s[i] \in Atoms
    BY DEF Texts
  <2> HIDE DEF n, v
  <2> QED
    BY <2>1, <2>2, <2>3
<1>2. st.table \in Seq(Texts) /\ st.text \in Seq(Atoms) /\ st.next \in Nat
  BY DEF Redactions, Texts
<1>3. tab \in Seq(Texts) /\ PlaceholderOf(tab, v) \in Atoms
  <2>1. tab = Record(st.table, v) /\ v \in Texts /\ st.table \in Seq(Texts)
    BY <1>1, <1>2
  <2> HIDE DEF n, v, tab
  <2>2. Adds(tab, st.table, v) /\ \E m \in 1..Len(tab) : PlaceholderOf(tab, v) = Token(m)
    BY <2>1, Recorded
  <2> QED
    BY <2>2, TokenIsAtom DEF Adds
<1>4. Consumed(p, s, st, i) = IF i < st.next THEN st
        ELSE IF n = 0 THEN [st EXCEPT !.text = Append(@, s[i])]
        ELSE [table |-> tab, next |-> i + n, text |-> Append(st.text, PlaceholderOf(tab, v))]
  BY DEF Consumed
<1>5. Append(st.text, s[i]) \in Texts /\ Append(st.text, PlaceholderOf(tab, v)) \in Texts
  <2> HIDE DEF tab, v
  <2> QED
    BY <1>1, <1>2, <1>3, AppendProperties DEF Texts
<1> HIDE DEF n, v, tab
<1>6. [st EXCEPT !.text = Append(@, s[i])] \in Redactions
  BY <1>2, <1>5 DEF Redactions
<1>7. [table |-> tab, next |-> i + n, text |-> Append(st.text, PlaceholderOf(tab, v))] \in Redactions
  BY <1>1, <1>3, <1>5 DEF Redactions
<1> QED
  BY <1>4, <1>6, <1>7

\* The pass goes through the states Consumed leads it to.
Pass(st, p, r) ==
  /\ st \in [0..Len(r.text) -> Redactions]
  /\ st[0] = [table |-> r.table, text |-> <<>>, next |-> 1]
  /\ \A i \in 1..Len(r.text) : st[i] = Consumed(p, r.text, st[i - 1], i)

LEMMA ReplacePasses ==
  ASSUME NEW p \in {"arn", "ip", "id"}, NEW r \in Redactions
  PROVE  \E st : Pass(st, p, r) /\ Replace(p, r) = st[Len(r.text)]
<1> DEFINE s == r.text
           n == Len(s)
           base == [table |-> r.table, text |-> <<>>, next |-> 1]
           step == [c \in Redactions \X (1..n) |-> Consumed(p, s, c[1], c[2])]
           Step(b, i) ==
             LET k == MatchLength(p, s, i)
                 v == SubSeq(s, i, i + k - 1)
                 tab == Record(b.table, v)
             IN  IF i < b.next THEN b
                 ELSE IF k = 0 THEN [b EXCEPT !.text = Append(@, s[i])]
                 ELSE [table |-> tab, next |-> i + k, text |-> Append(b.text, PlaceholderOf(tab, v))]
           seq == [i \in 1..n |-> i]
           it == CHOOSE F : F = [S \in SUBSET (DOMAIN seq) |->
                   IF S = {} THEN base ELSE Step(F[S \ {Max(S)}], seq[Max(S)])]
<1>1. Replace(p, r) = it[DOMAIN seq]
  BY DEF Replace, FoldLeft, MapThenFoldSet
<1>2. n \in Nat /\ s \in Texts /\ r.table \in Seq(Texts) /\ base \in Redactions
  <2>1. s \in Texts /\ r.table \in Seq(Texts)
    BY DEF Redactions
  <2>2. n \in Nat
    BY <2>1 DEF Texts
  <2>3. <<>> \in Texts
    BY DEF Texts
  <2> QED
    BY <2>1, <2>2, <2>3 DEF Redactions
<1>3. Steps(step, n, Redactions)
  <2>1. \A c \in Redactions \X (1..n) : Consumed(p, s, c[1], c[2]) \in Redactions
    <3>1. TAKE c \in Redactions \X (1..n)
    <3>2. c[1] \in Redactions /\ c[2] \in 1..Len(s)
      OBVIOUS
    <3> HIDE DEF s
    <3> QED
      BY <1>2, <3>2, ConsumedTyped
  <2> QED
    BY <2>1 DEF Steps
<1>4. PICK G \in [SUBSET (1..n) -> Redactions] : Folds(G, n, base, step)
  <2> HIDE DEF base, step, n
  <2> QED
    BY <1>2, <1>3, FoldExists
<1>5. ASSUME NEW S \in SUBSET (1..n), S # {}
      PROVE  Max(S) \in 1..n /\ S \ {Max(S)} \in SUBSET (1..n)
  <2>1. S \in SUBSET (0..n)
    BY <1>2, <1>5
  <2> HIDE DEF n
  <2> QED
    BY <1>2, <1>5, <2>1, MaxOf
<1>6. DOMAIN seq = 1..n /\ \A i \in 1..n : seq[i] = i
  OBVIOUS
<1>7. ASSUME NEW b \in Redactions, NEW i \in 1..n PROVE Step(b, i) = step[<<b, i>>]
  <2>1. Step(b, i) = Consumed(p, s, b, i)
    BY DEF Consumed
  <2>2. step[<<b, i>>] = Consumed(p, s, b, i)
    <3>1. <<b, i>> \in Redactions \X (1..n)
      OBVIOUS
    <3> QED
      BY <3>1
  <2> HIDE DEF Step, step
  <2> QED
    BY <2>1, <2>2
<1> DEFINE Folding(F) ==
             F = [S \in SUBSET (DOMAIN seq) |->
                   IF S = {} THEN base ELSE Step(F[S \ {Max(S)}], seq[Max(S)])]
<1>8. Folding(G)
  <2>1. ASSUME NEW S \in SUBSET (1..n)
        PROVE  G[S] = IF S = {} THEN base ELSE Step(G[S \ {Max(S)}], seq[Max(S)])
    <3> HIDE DEF base, step, n, seq, Step
    <3>1. G[S] = IF S = {} THEN base ELSE step[<<G[S \ {Max(S)}], Max(S)>>]
      BY <1>4 DEF Folds
    <3> QED
      BY <1>5, <1>6, <1>7, <3>1
  <2>2. G = [S \in SUBSET (1..n) |-> G[S]]
    OBVIOUS
  <2> HIDE DEF base, step, n, seq, Step
  <2> QED
    BY <1>6, <2>1, <2>2
<1>9. Folding(it)
  <2>1. it = CHOOSE F : Folding(F)
    OBVIOUS
  <2> HIDE DEF it, Folding
  <2> QED
    BY <1>8, <2>1
<1>10. \E st : Runs(st, n, Redactions, base, step) /\ it[1..n] = st[n]
  <2> HIDE DEF base, step, n, seq, Step, it
  <2>1. it[{}] = base
    BY <1>9
  <2>2. ASSUME NEW S \in SUBSET (1..n), S # {}, it[S \ {Max(S)}] \in Redactions
        PROVE  it[S] = step[<<it[S \ {Max(S)}], Max(S)>>]
    <3>1. it[S] = Step(it[S \ {Max(S)}], seq[Max(S)])
      BY <1>6, <1>9, <2>2
    <3> HIDE DEF Folding
    <3> QED
      BY <1>5, <1>6, <1>7, <2>2, <3>1
  <2>3. Follows(it, n, Redactions, base, step)
    BY <2>1, <2>2 DEF Follows
  <2> HIDE DEF Folding
  <2> QED
    BY <1>2, <1>3, <2>3, FoldRuns
<1>11. ASSUME NEW st, Runs(st, n, Redactions, base, step) PROVE Pass(st, p, r)
  <2>1. ASSUME NEW i \in 1..n PROVE step[<<st[i - 1], i>>] = Consumed(p, s, st[i - 1], i)
    <3>1. st[i - 1] \in Redactions
      BY <1>2, <1>11 DEF Runs
    <3>2. <<st[i - 1], i>> \in Redactions \X (1..n)
      BY <3>1
    <3> QED
      BY <3>2
  <2> HIDE DEF step
  <2> QED
    BY <1>11, <2>1 DEF Runs, Pass
<1>12. Replace(p, r) = it[1..n]
  <2> HIDE DEF it, n, base, Step, Folding
  <2> QED
    BY <1>1, <1>6
<1> HIDE DEF it, base, step, Folding, Step, seq
<1> QED
  BY <1>10, <1>11, <1>12

-----------------------------------------------------------------------------
(* What a pass makes of the table.                                            *)

\* The patterns match several fragments, or an address or an id.
Value(v) == Len(v) > 1 \/ (Len(v) = 1 /\ v[1].kind \in {"ip", "id"})
Values(tab) == \A n \in 1..Len(tab) : Value(tab[n])

\* The cases of Consumed, with what it records: the position belongs to a match
\* already, nothing matches there, or the value of the match gets placeholder m.
Carries(p, s, st, i, z) ==
  /\ i >= st.next /\ MatchLength(p, s, i) = 0
  /\ z.table = st.table /\ z.next = st.next /\ z.text = Append(st.text, s[i])
Places(p, s, st, i, z, v, m) ==
  /\ i >= st.next /\ MatchLength(p, s, i) # 0
  /\ v = SubSeq(s, i, i + MatchLength(p, s, i) - 1) /\ Value(v)
  /\ z.next = i + MatchLength(p, s, i) /\ z.text = Append(st.text, Token(m))
  /\ Adds(z.table, st.table, v) /\ m \in 1..Len(z.table) /\ z.table[m] = v

LEMMA Matched ==
  ASSUME NEW s \in Texts, NEW i \in 1..Len(s), NEW p \in {"arn", "ip", "id"},
         NEW st \in Redactions, NEW z, z = Consumed(p, s, st, i)
  PROVE  \/ i < st.next /\ z = st
         \/ Carries(p, s, st, i, z)
         \/ \E v \in Texts, m \in Nat : Places(p, s, st, i, z, v, m)
<1>1. st \in Redactions /\ i \in Nat /\ st.next \in Nat /\ st.table \in Seq(Texts)
  BY DEF Redactions
<1>2. CASE i < st.next
  BY <1>2 DEF Consumed
<1>3. CASE ~ (i < st.next) /\ MatchLength(p, s, i) = 0
  <2>1. z = [st EXCEPT !.text = Append(@, s[i])]
    BY <1>3 DEF Consumed
  <2> QED
    BY <1>1, <1>3, <2>1 DEF Redactions, Carries
<1>4. CASE ~ (i < st.next) /\ MatchLength(p, s, i) # 0
  <2> DEFINE n == MatchLength(p, s, i)
             v == SubSeq(s, i, i + n - 1)
             t == Record(st.table, v)
  <2>1. z = [table |-> t, next |-> i + n, text |-> Append(st.text, PlaceholderOf(t, v))]
    BY <1>4 DEF Consumed
  <2>2. v \in Texts
    BY FragmentsOfMatch
  <2>3. n \in 1..(Len(s) - i + 1)
    BY <1>4, MatchFits DEF Texts
  <2>4. Value(v)
    <3>1. \A k \in i..(i + n - 1) : s[k] \in Atoms
      BY <1>1, <2>3 DEF Texts
    <3>2. Len(v) = n /\ v[1] = s[i]
      <4>1. i \in Int /\ i + n - 1 \in Int /\ i <= i + n - 1 /\ (i + n - 1) - i + 1 = n
        BY <1>1, <2>3
      <4>2. i + 1 - 1 = i /\ 1 \in 1..n
        BY <1>1, <2>3
      <4> HIDE DEF n
      <4>3. /\ Len(v) = IF i <= i + n - 1 THEN (i + n - 1) - i + 1 ELSE 0
            /\ \A k \in 1..((i + n - 1) - i + 1) : v[k] = s[i + k - 1]
        BY <3>1, <4>1, SubSeqProperties
      <4> HIDE DEF v
      <4> QED
        BY <4>1, <4>2, <4>3
    <3>3. CASE p = "arn"
      <4>1. n >= 3
        BY <1>1, <1>4, <3>3, ArnIs
      <4> HIDE DEF n, v
      <4> QED
        BY <2>3, <3>2, <4>1 DEF Value
    <3>4. CASE p # "arn"
      <4>1. n = 1 /\ s[i].kind = p
        BY <1>4, <3>4 DEF MatchLength
      <4> HIDE DEF n, v
      <4> QED
        BY <3>2, <3>4, <4>1 DEF Value
    <3> QED
      BY <3>3, <3>4
  <2> HIDE DEF n, v
  <2>5. t = Record(st.table, v) /\ v \in Texts /\ st.table \in Seq(Texts)
    BY <1>1, <2>2
  <2> HIDE DEF t
  <2>6. /\ Adds(t, st.table, v)
        /\ \E m \in 1..Len(t) : PlaceholderOf(t, v) = Token(m) /\ t[m] = v
    BY <2>5, Recorded
  <2>7. PICK m \in 1..Len(t) : PlaceholderOf(t, v) = Token(m) /\ t[m] = v
    BY <2>6
  <2>8. z.table = t /\ z.next = i + n /\ z.text = Append(st.text, Token(m))
    BY <2>1, <2>7
  <2>9. i >= st.next /\ n # 0 /\ m \in Nat
    BY <1>1, <1>4 DEF n
  <2>10. v = SubSeq(s, i, i + n - 1)
    BY DEF v
  <2> QED
    BY <2>2, <2>4, <2>6, <2>7, <2>8, <2>9, <2>10 DEF n, Places
<1> QED
  BY <1>2, <1>3, <1>4

\* Tables only grow, a value is in there once, and a state stays in its place.
LEMMA TableGrows ==
  ASSUME NEW p \in {"arn", "ip", "id"}, NEW r \in Redactions, NEW st, Pass(st, p, r),
         NEW i \in 0..Len(r.text)
  PROVE  /\ Longer(r.table, st[i].table)
         /\ Distinct(r.table) => Distinct(st[i].table)
         /\ Values(r.table) => Values(st[i].table)
<1> DEFINE Good(k) == /\ Longer(r.table, st[k].table)
                      /\ Distinct(r.table) => Distinct(st[k].table)
                      /\ Values(r.table) => Values(st[k].table)
           P == {k \in 0..Len(r.text) : Good(k)}
<1>1. r.text \in Texts /\ Len(r.text) \in Nat /\ r.table \in Seq(Texts) /\ Len(r.table) \in Nat
  <2>1. r.text \in Seq(Atoms) /\ r.table \in Seq(Texts)
    BY DEF Redactions, Texts
  <2> QED
    BY <2>1 DEF Texts
<1>2. Good(0)
  <2>1. st[0].table = r.table
    BY DEF Pass
  <2> QED
    BY <1>1, <2>1 DEF Longer
<1>3. ASSUME NEW k \in 1..Len(r.text), Good(k - 1) PROVE Good(k)
  <2> DEFINE a == st[k - 1]
             z == st[k]
  <2>1. a \in Redactions /\ z = Consumed(p, r.text, a, k)
    BY <1>1 DEF Pass
  <2>2. a.table \in Seq(Texts) /\ Len(a.table) \in Nat
    BY <2>1 DEF Redactions
  <2>3. Longer(r.table, a.table) /\ (Distinct(r.table) => Distinct(a.table))
          /\ (Values(r.table) => Values(a.table))
    BY <1>3
  <2> SUFFICES /\ Longer(r.table, z.table)
               /\ Distinct(r.table) => Distinct(z.table)
               /\ Values(r.table) => Values(z.table)
    OBVIOUS
  <2> HIDE DEF a, z
  <2>4. CASE z = a \/ z.table = a.table
    BY <2>3, <2>4
  <2>5. CASE \E v \in Texts : Value(v) /\ Adds(z.table, a.table, v)
    <3>1. PICK v \in Texts : Value(v) /\ Adds(z.table, a.table, v)
      BY <2>5
    <3>2. Longer(r.table, z.table)
      BY <1>1, <2>2, <2>3, <3>1 DEF Adds, Longer
    <3>3. Values(a.table) => Values(z.table)
      <4>1. \A n \in 1..Len(z.table) : n <= Len(a.table) => n \in 1..Len(a.table)
        BY <2>2, <3>1
      <4> QED
        BY <3>1, <4>1 DEF Adds, Values
    <3> QED
      BY <2>3, <3>1, <3>2, <3>3 DEF Adds
  <2>6. \/ z = a \/ z.table = a.table
        \/ \E v \in Texts : Value(v) /\ Adds(z.table, a.table, v)
    <3>1. \/ z = a
          \/ Carries(p, r.text, a, k, z)
          \/ \E v \in Texts, m \in Nat : Places(p, r.text, a, k, z, v, m)
      BY <1>1, <2>1, Matched
    <3> QED
      BY <3>1 DEF Carries, Places
  <2> QED
    BY <2>4, <2>5, <2>6
<1>4. \A k \in 0..Len(r.text) : Good(k)
  <2> HIDE DEF Good
  <2>1. 0 \in P /\ \A k \in 1..Len(r.text) : k - 1 \in P => k \in P
    BY <1>1, <1>2, <1>3
  <2>2. \A k \in 0..Len(r.text) : k \in P
    <3> HIDE DEF P
    <3> QED
      BY <1>1, <2>1, UpTo
  <2> QED
    BY <2>2
<1> QED
  BY <1>4

-----------------------------------------------------------------------------
(* What a pass makes of the text.                                             *)

\* A placeholder for the value.
Shown(tab, f, u) == \E m \in 1..Len(tab) : f = Token(m) /\ tab[m] = u

LEMMA StaysShown ==
  ASSUME NEW tab \in Seq(Texts), NEW t \in Seq(Texts), Longer(tab, t), NEW f, NEW u, Shown(tab, f, u)
  PROVE  Shown(t, f, u)
<1>1. Len(tab) \in Nat /\ Len(t) \in Nat
  OBVIOUS
<1>2. PICK m \in 1..Len(tab) : f = Token(m) /\ tab[m] = u
  BY DEF Shown
<1>3. m \in 1..Len(t) /\ t[m] = u
  BY <1>1, <1>2 DEF Longer
<1> QED
  BY <1>2, <1>3 DEF Shown

LEMMA OneFragment ==
  ASSUME NEW S, NEW s \in Seq(S), NEW i \in 1..Len(s)
  PROVE  SubSeq(s, i, i) = <<s[i]>>
<1>1. s[i] \in S /\ i \in Int /\ \A j \in i..i : s[j] \in S
  OBVIOUS
<1> DEFINE o == <<s[i]>>
<1>2. o \in Seq(S) /\ Len(o) = 1 /\ o[1] = s[i]
  BY <1>1
<1>3. SubSeq(s, i, i) \in Seq(S) /\ Len(SubSeq(s, i, i)) = 1
      /\ \A k \in 1..1 : SubSeq(s, i, i)[k] = s[i + k - 1]
  BY <1>1, SubSeqProperties
<1>4. i + 1 - 1 = i /\ \A k \in 1..1 : k = 1
  BY <1>1
<1> HIDE DEF o
<1>5. SubSeq(s, i, i) = o
  BY <1>2, <1>3, <1>4, SeqEqual
<1> QED
  BY <1>5 DEF o

\* Addresses and ids are replaced where they stand.
InPlace(p, s, z, i) ==
  /\ Len(z.text) = i /\ z.next <= i + 1
  /\ \A k \in 1..i : IF s[k].kind = p THEN Shown(z.table, z.text[k], <<s[k]>>) ELSE z.text[k] = s[k]

LEMMA OneInPlace ==
  ASSUME NEW p \in {"ip", "id"}, NEW s \in Texts, NEW i \in 1..Len(s), NEW a \in Redactions,
         InPlace(p, s, a, i - 1), NEW z \in Redactions, z = Consumed(p, s, a, i)
  PROVE  InPlace(p, s, z, i)
<1>1. /\ a.text \in Seq(Atoms) /\ Len(a.text) = i - 1 /\ a.next \in Nat /\ a.next <= i /\ i \in Nat
      /\ a.table \in Seq(Texts) /\ z.table \in Seq(Texts) /\ z.next \in Nat
  BY DEF Redactions, InPlace, Texts
<1>2. s[i] \in Atoms
  BY DEF Texts
<1>3. MatchLength(p, s, i) = IF s[i].kind = p THEN 1 ELSE 0
  BY DEF MatchLength
<1>4. \A k \in 1..i : k = i \/ k \in 1..(i - 1)
  BY <1>1
<1>5. CASE Carries(p, s, a, i, z)
  <2>1. Len(z.text) = i /\ z.text[i] = s[i] /\ \A k \in 1..(i - 1) : z.text[k] = a.text[k]
    BY <1>1, <1>2, <1>5, AppendProperties DEF Carries
  <2>2. s[i].kind # p
    BY <1>3, <1>5 DEF Carries
  <2> QED
    BY <1>1, <1>4, <1>5, <2>1, <2>2 DEF InPlace, Carries
<1>6. CASE \E v \in Texts, m \in Nat : Places(p, s, a, i, z, v, m)
  <2>1. PICK v \in Texts, m \in Nat : Places(p, s, a, i, z, v, m)
    BY <1>6
  <2>2. /\ Len(z.text) = i /\ z.text[i] = Token(m)
        /\ \A k \in 1..(i - 1) : z.text[k] = a.text[k]
    BY <1>1, <2>1, TokenIsAtom, AppendProperties DEF Places
  <2>3. s[i].kind = p /\ MatchLength(p, s, i) = 1
    BY <1>3, <2>1 DEF Places
  <2>4. v = <<s[i]>>
    <3>1. v = SubSeq(s, i, i)
      <4>1. v = SubSeq(s, i, i + 1 - 1)
        BY <2>1, <2>3, Zenon DEF Places
      <4>2. i + 1 - 1 = i
        BY <1>1
      <4> QED
        BY <4>1, <4>2, Zenon
    <3>2. s \in Seq(Atoms)
      BY DEF Texts
    <3>3. SubSeq(s, i, i) = <<s[i]>>
      BY <3>2, OneFragment
    <3> QED
      BY <3>1, <3>3
  <2>5. Shown(z.table, z.text[i], <<s[i]>>)
    BY <2>1, <2>2, <2>4 DEF Shown, Places
  <2>6. ASSUME NEW k \in 1..(i - 1), s[k].kind = p PROVE Shown(z.table, z.text[k], <<s[k]>>)
    <3>1. Shown(a.table, a.text[k], <<s[k]>>)
      BY <2>6 DEF InPlace
    <3>2. Longer(a.table, z.table)
      BY <2>1 DEF Adds, Places
    <3> QED
      BY <1>1, <2>2, <3>1, <3>2, StaysShown
  <2>7. \A k \in 1..(i - 1) : s[k].kind # p => z.text[k] = s[k]
    BY <2>2 DEF InPlace
  <2>8. z.next = i + 1
    BY <2>1, <2>3 DEF Places
  <2>9. ASSUME NEW k \in 1..i
        PROVE  IF s[k].kind = p THEN Shown(z.table, z.text[k], <<s[k]>>) ELSE z.text[k] = s[k]
    <3>1. CASE k = i
      BY <2>3, <2>5, <3>1
    <3>2. CASE k \in 1..(i - 1)
      BY <2>6, <2>7, <3>2
    <3> QED
      BY <1>4, <3>1, <3>2
  <2> QED
    BY <1>1, <2>2, <2>8, <2>9 DEF InPlace
<1>7. ~ (i < a.next)
  BY <1>1
<1>8. \/ i < a.next /\ z = a
      \/ Carries(p, s, a, i, z)
      \/ \E v \in Texts, m \in Nat : Places(p, s, a, i, z, v, m)
  BY Matched
<1> QED
  BY <1>5, <1>6, <1>7, <1>8

LEMMA AllInPlace ==
  ASSUME NEW p \in {"ip", "id"}, NEW r \in Redactions, NEW st, Pass(st, p, r)
  PROVE  InPlace(p, r.text, st[Len(r.text)], Len(r.text))
<1> DEFINE n == Len(r.text)
           P == {i \in 0..n : InPlace(p, r.text, st[i], i)}
<1>1. r.text \in Texts /\ n \in Nat
  <2>1. r.text \in Seq(Atoms)
    BY DEF Redactions, Texts
  <2> QED
    BY <2>1 DEF Texts
<1>2. 0 \in P
  <2>1. st[0].text = <<>> /\ st[0].next = 1
    BY DEF Pass
  <2>2. InPlace(p, r.text, st[0], 0)
    BY <2>1 DEF InPlace
  <2> QED
    BY <1>1, <2>2
<1>3. ASSUME NEW i \in 1..n, i - 1 \in P PROVE i \in P
  <2>1. st[i - 1] \in Redactions /\ st[i] \in Redactions
    BY <1>1 DEF Pass
  <2>2. st[i] = Consumed(p, r.text, st[i - 1], i)
    BY DEF Pass
  <2>3. InPlace(p, r.text, st[i - 1], i - 1)
    BY <1>3
  <2>4. InPlace(p, r.text, st[i], i)
    BY <1>1, <2>1, <2>2, <2>3, OneInPlace
  <2> QED
    BY <2>4
<1>4. n \in P
  <2>1. n \in 0..n
    BY <1>1
  <2> HIDE DEF P, n
  <2> QED
    BY <1>1, <1>2, <1>3, <2>1, UpTo
<1> QED
  BY <1>4

-----------------------------------------------------------------------------
(* What the pass for ARNs makes of the text: one fragment for each unit.       *)

LEMMA UnitIs ==
  ASSUME NEW s \in Texts, NEW i \in 1..Len(s)
  PROVE  UnitFrom(s, i) = IF IsArn(s, i) THEN SubSeq(s, i, RunEnd(s, i)) ELSE <<s[i]>>
<1>1. Len(s) \in Nat /\ s \in Seq(Atoms)
  BY DEF Texts
<1>2. UnitAt(s, i) \in SUBSET Nat
  BY <1>1 DEF UnitAt
<1>3. CASE IsArn(s, i)
  <2>1. s[i].kind # "sep"
    BY <1>3 DEF IsArn
  <2>2. RunEnd(s, i) \in i..Len(s) /\ \A j \in i..Len(s) : Joined(s, i, j) <=> j <= RunEnd(s, i)
    BY <2>1, RunEndIs
  <2>3. RunEnd(s, i) \in UnitAt(s, i)
    BY <1>3, <2>2 DEF UnitAt
  <2>4. \A j \in UnitAt(s, i) : j <= RunEnd(s, i)
    BY <2>2 DEF UnitAt
  <2>5. Max(UnitAt(s, i)) = RunEnd(s, i)
    BY <1>2, <2>3, <2>4, MaxIs
  <2> QED
    BY <1>3, <2>5 DEF UnitFrom
<1>4. CASE ~IsArn(s, i)
  <2>1. i \in UnitAt(s, i) /\ \A j \in UnitAt(s, i) : j <= i
    BY <1>1, <1>4 DEF UnitAt
  <2>2. Max(UnitAt(s, i)) = i
    BY <1>2, <2>1, MaxIs
  <2>3. SubSeq(s, i, i) = <<s[i]>>
    BY <1>1, OneFragment
  <2> QED
    BY <1>4, <2>2, <2>3 DEF UnitFrom
<1> QED
  BY <1>3, <1>4

\* Two runs that overlap end together.
LEMMA SameEnd ==
  ASSUME NEW s \in Texts, NEW j \in 1..Len(s), NEW i \in j..Len(s), IsArn(s, j), IsArn(s, i),
         i <= RunEnd(s, j)
  PROVE  RunEnd(s, i) <= RunEnd(s, j)
<1>1. Len(s) \in Nat
  BY DEF Texts
<1>2. i \in 1..Len(s) /\ s[i].kind # "sep" /\ s[j].kind # "sep"
  BY <1>1 DEF IsArn
<1>3. /\ RunEnd(s, i) \in i..Len(s) /\ \A k \in i..Len(s) : Joined(s, i, k) <=> k <= RunEnd(s, i)
      /\ RunEnd(s, j) \in j..Len(s) /\ \A k \in j..Len(s) : Joined(s, j, k) <=> k <= RunEnd(s, j)
  BY <1>2, RunEndIs
<1>4. Joined(s, i, RunEnd(s, i)) /\ Joined(s, j, i)
  BY <1>1, <1>3
<1>5. \A k \in j..RunEnd(s, i) : k \in j..i \/ k \in i..RunEnd(s, i)
  BY <1>1, <1>3
<1>6. Joined(s, j, RunEnd(s, i))
  BY <1>4, <1>5 DEF Joined
<1>7. RunEnd(s, i) \in j..Len(s)
  BY <1>1, <1>3
<1> QED
  BY <1>3, <1>6, <1>7

\* The starts up to a position, counted.
Started(s, i) == Cardinality(Starts(s) \cap 1..i)

LEMMA OneMoreStart ==
  ASSUME NEW s \in Texts, NEW i \in 1..Len(s)
  PROVE  /\ Started(s, i - 1) \in Nat
         /\ Started(s, i) = IF i \in Starts(s) THEN Started(s, i - 1) + 1 ELSE Started(s, i - 1)
<1> DEFINE T == Starts(s) \cap 1..(i - 1)
<1>1. IsFiniteSet(1..(i - 1)) /\ T \subseteq 1..(i - 1)
  BY FS_Interval
<1>2. IsFiniteSet(T)
  BY <1>1, FS_Subset
<1>3. Cardinality(T) \in Nat
  BY <1>2, FS_CardinalityType
<1>4. i \notin T
  OBVIOUS
<1>5. 1..i = (1..(i - 1)) \cup {i}
  OBVIOUS
<1>6. CASE i \in Starts(s)
  <2>1. Starts(s) \cap 1..i = T \cup {i}
    BY <1>5, <1>6
  <2>2. Cardinality(T \cup {i}) = Cardinality(T) + 1
    BY <1>2, <1>4, FS_AddElement
  <2> QED
    BY <1>3, <1>6, <2>1, <2>2 DEF Started
<1>7. CASE i \notin Starts(s)
  <2>1. Starts(s) \cap 1..i = T
    BY <1>5, <1>7
  <2> QED
    BY <1>3, <1>7, <2>1 DEF Started
<1> QED
  BY <1>6, <1>7

LEMMA StartsApart ==
  ASSUME NEW s \in Texts, NEW i \in Starts(s), NEW j \in Starts(s), Started(s, i) = Started(s, j)
  PROVE  i = j
<1> SUFFICES ASSUME NEW a \in Starts(s), NEW b \in Starts(s), Started(s, a) = Started(s, b), a < b
             PROVE  FALSE
  <2>1. i \in Int /\ j \in Int
    BY DEF Starts
  <2> QED
    BY <2>1
<1>1. a \in Nat /\ b \in Nat
  BY DEF Starts
<1>2. IsFiniteSet(1..b)
  BY <1>1, FS_Interval
<1>3. IsFiniteSet(Starts(s) \cap 1..b)
  BY <1>2, FS_Subset
<1>4. Starts(s) \cap 1..a \in SUBSET (Starts(s) \cap 1..b)
  BY <1>1
<1>5. Starts(s) \cap 1..a = Starts(s) \cap 1..b
  BY <1>3, <1>4, FS_Subset DEF Started
<1>6. b \in Starts(s) \cap 1..b /\ b \notin Starts(s) \cap 1..a
  BY <1>1
<1> QED
  BY <1>5, <1>6

\* What the pass has made of the first i fragments.
Cuts(tab, s, f, j) ==
  IF IsArn(s, j) THEN Shown(tab, f, UnitFrom(s, j)) ELSE f = s[j]
Cut(s, z, i) ==
  /\ Len(z.text) = Started(s, i)
  /\ z.next = 1 \/ \E j \in 1..i : IsArn(s, j) /\ z.next = RunEnd(s, j) + 1
  /\ \A j \in 1..i : IsArn(s, j) => RunEnd(s, j) < z.next
  /\ \A n \in 1..Len(z.text) :
       \E j \in Starts(s) : j <= i /\ Started(s, j) = n /\ Cuts(z.table, s, z.text[n], j)

LEMMA StartsAre ==
  ASSUME NEW s \in Texts, NEW i \in 1..Len(s), NEW a \in Redactions, Cut(s, a, i - 1)
  PROVE  i \in Starts(s) <=> i >= a.next
<1>1. Len(s) \in Nat /\ a.next \in Nat
  BY DEF Texts, Redactions
<1>2. ASSUME NEW j \in 1..(i - 1), IsArn(s, j)
      PROVE  /\ RunEnd(s, j) \in Nat
             /\ Joined(s, j, i) <=> i <= RunEnd(s, j)
  <2>1. j \in 1..Len(s) /\ s[j].kind # "sep" /\ i \in j..Len(s)
    BY <1>1, <1>2 DEF IsArn
  <2>2. RunEnd(s, j) \in j..Len(s) /\ (Joined(s, j, i) <=> i <= RunEnd(s, j))
    BY <2>1, RunEndIs
  <2> QED
    BY <1>1, <2>2
<1>3. ASSUME i >= a.next PROVE i \in Starts(s)
  <2>1. ASSUME NEW j \in 1..(i - 1), IsArn(s, j), Joined(s, j, i) PROVE FALSE
    <3>1. RunEnd(s, j) < a.next
      BY <2>1 DEF Cut
    <3> QED
      BY <1>1, <1>2, <1>3, <2>1, <3>1
  <2> QED
    BY <2>1 DEF Starts
<1>4. ASSUME i < a.next PROVE i \notin Starts(s)
  <2>1. PICK j \in 1..(i - 1) : IsArn(s, j) /\ a.next = RunEnd(s, j) + 1
    BY <1>4 DEF Cut
  <2>2. Joined(s, j, i)
    BY <1>1, <1>2, <1>4, <2>1
  <2> QED
    BY <2>1, <2>2 DEF Starts
<1> QED
  BY <1>1, <1>3, <1>4

LEMMA StaysCut ==
  ASSUME NEW s \in Texts, NEW tab \in Seq(Texts), NEW t \in Seq(Texts), Longer(tab, t),
         NEW f, NEW j, Cuts(tab, s, f, j)
  PROVE  Cuts(t, s, f, j)
<1>1. CASE IsArn(s, j)
  <2>1. Shown(tab, f, UnitFrom(s, j))
    BY <1>1 DEF Cuts
  <2>2. Shown(t, f, UnitFrom(s, j))
    BY <2>1, StaysShown
  <2> QED
    BY <1>1, <2>2 DEF Cuts
<1>2. CASE ~IsArn(s, j)
  BY <1>2 DEF Cuts
<1> QED
  BY <1>1, <1>2

\* A start at i, and all that started before.
StartsWith(s, i, a, z, f) ==
  /\ Cut(s, a, i - 1) /\ f \in Atoms /\ i >= a.next /\ z.text = Append(a.text, f)
  /\ a.table \in Seq(Texts) /\ z.table \in Seq(Texts) /\ Longer(a.table, z.table)
  /\ Cuts(z.table, s, f, i)

LEMMA OneStarts ==
  ASSUME NEW s \in Texts, NEW i \in 1..Len(s), NEW a \in Redactions, NEW z \in Redactions,
         NEW f, StartsWith(s, i, a, z, f)
  PROVE  /\ Len(z.text) = Started(s, i)
         /\ \A n \in 1..Len(z.text) :
              \E j \in Starts(s) : j <= i /\ Started(s, j) = n /\ Cuts(z.table, s, z.text[n], j)
<1>0. /\ Cut(s, a, i - 1) /\ f \in Atoms /\ i >= a.next /\ z.text = Append(a.text, f)
      /\ a.table \in Seq(Texts) /\ z.table \in Seq(Texts) /\ Longer(a.table, z.table)
      /\ Cuts(z.table, s, f, i)
  BY DEF StartsWith
<1>1. i \in Starts(s)
  BY <1>0, StartsAre
<1>2. Started(s, i - 1) \in Nat /\ Started(s, i) = Started(s, i - 1) + 1
  BY <1>1, OneMoreStart
<1>3. Len(a.text) = Started(s, i - 1) /\ a.text \in Seq(Atoms)
  BY <1>0 DEF Cut, Redactions, Texts
<1>4. /\ Len(z.text) = Len(a.text) + 1 /\ z.text[Len(a.text) + 1] = f
      /\ \A n \in 1..Len(a.text) : z.text[n] = a.text[n]
  BY <1>0, <1>3, AppendProperties
<1>5. ASSUME NEW n \in 1..Len(z.text)
      PROVE  \E j \in Starts(s) : j <= i /\ Started(s, j) = n /\ Cuts(z.table, s, z.text[n], j)
  <2>1. CASE n = Len(a.text) + 1
    <3>1. Started(s, i) = n /\ Cuts(z.table, s, z.text[n], i) /\ i <= i
      BY <1>0, <1>2, <1>3, <1>4, <2>1
    <3> QED
      BY <1>1, <3>1
  <2>2. CASE n # Len(a.text) + 1
    <3>1. n \in 1..Len(a.text)
      BY <1>2, <1>3, <1>4, <2>2
    <3>2. PICK j \in Starts(s) : j <= i - 1 /\ Started(s, j) = n /\ Cuts(a.table, s, a.text[n], j)
      BY <1>0, <3>1 DEF Cut
    <3>3. Cuts(z.table, s, z.text[n], j)
      BY <1>0, <1>4, <3>1, <3>2, StaysCut
    <3>4. j <= i
      BY <3>2 DEF Starts
    <3> QED
      BY <3>2, <3>3, <3>4
  <2> QED
    BY <2>1, <2>2
<1> QED
  BY <1>2, <1>3, <1>4, <1>5

LEMMA OneCut ==
  ASSUME NEW s \in Texts, NEW i \in 1..Len(s), NEW a \in Redactions, Cut(s, a, i - 1),
         NEW z \in Redactions, z = Consumed("arn", s, a, i)
  PROVE  Cut(s, z, i)
<1>1. /\ Len(s) \in Nat /\ i \in Nat /\ i - 1 \in Nat /\ a.next \in Nat /\ z.next \in Nat
      /\ a.table \in Seq(Texts) /\ z.table \in Seq(Texts)
  BY DEF Texts, Redactions
<1>2. \A j \in 1..i : j = i \/ j \in 1..(i - 1)
  BY <1>1
<1>3. \A j \in 1..(i - 1) : j \in 1..i
  BY <1>1
<1>4. s[i] \in Atoms
  BY DEF Texts
<1>5. /\ MatchLength("arn", s, i) = IF IsArn(s, i) THEN RunEnd(s, i) - i + 1 ELSE 0
      /\ IsArn(s, i) => RunEnd(s, i) \in (i + 2)..Len(s)
  BY ArnIs
<1>6. CASE i < a.next /\ z = a
  <2>1. i \notin Starts(s)
    BY <1>1, <1>6, StartsAre
  <2>2. Started(s, i) = Started(s, i - 1)
    BY <2>1, OneMoreStart
  <2>3. PICK j \in 1..(i - 1) : IsArn(s, j) /\ a.next = RunEnd(s, j) + 1
    BY <1>1, <1>6 DEF Cut
  <2>4. ASSUME IsArn(s, i) PROVE RunEnd(s, i) < z.next
    <3>1. j \in 1..Len(s) /\ i \in j..Len(s)
      BY <1>1
    <3>2. RunEnd(s, j) \in Nat
      <4>1. s[j].kind # "sep"
        BY <2>3 DEF IsArn
      <4>2. RunEnd(s, j) \in j..Len(s)
        BY <3>1, <4>1, RunEndIs
      <4> QED
        BY <3>1, <4>2
    <3>3. i <= RunEnd(s, j)
      BY <1>1, <1>6, <2>3, <3>2
    <3>4. RunEnd(s, i) <= RunEnd(s, j)
      BY <2>3, <2>4, <3>1, <3>3, SameEnd
    <3> QED
      BY <1>1, <1>5, <1>6, <2>3, <2>4, <3>2, <3>4
  <2>5. \A k \in 1..i : IsArn(s, k) => RunEnd(s, k) < z.next
    BY <1>2, <1>6, <2>4 DEF Cut
  <2>6. \A n \in 1..Len(z.text) :
          \E k \in Starts(s) : k <= i /\ Started(s, k) = n /\ Cuts(z.table, s, z.text[n], k)
    <3>1. TAKE n \in 1..Len(z.text)
    <3>2. PICK k \in Starts(s) : k <= i - 1 /\ Started(s, k) = n /\ Cuts(z.table, s, z.text[n], k)
      BY <1>6 DEF Cut
    <3>3. k <= i
      BY <1>1, <3>2 DEF Starts
    <3> QED
      BY <3>2, <3>3
  <2>7. Len(z.text) = Started(s, i)
    BY <1>6, <2>2 DEF Cut
  <2>8. z.next = 1 \/ \E k \in 1..i : IsArn(s, k) /\ z.next = RunEnd(s, k) + 1
    BY <1>3, <1>6, <2>3
  <2> QED
    BY <2>5, <2>6, <2>7, <2>8 DEF Cut
<1>7. CASE Carries("arn", s, a, i, z)
  <2>1. ~IsArn(s, i)
    BY <1>1, <1>5, <1>7 DEF Carries
  <2>2. i >= a.next /\ z.table = a.table /\ z.next = a.next /\ z.text = Append(a.text, s[i])
    BY <1>7 DEF Carries
  <2>3. Cuts(z.table, s, s[i], i)
    BY <2>1 DEF Cuts
  <2>4. Longer(a.table, z.table)
    BY <1>1, <2>2 DEF Longer
  <2>5. /\ Len(z.text) = Started(s, i)
        /\ \A n \in 1..Len(z.text) :
             \E j \in Starts(s) : j <= i /\ Started(s, j) = n /\ Cuts(z.table, s, z.text[n], j)
    <3>1. StartsWith(s, i, a, z, s[i])
      BY <1>1, <1>4, <2>2, <2>3, <2>4 DEF StartsWith
    <3> QED
      BY <3>1, OneStarts
  <2>6. \A k \in 1..i : IsArn(s, k) => RunEnd(s, k) < z.next
    BY <1>2, <2>1, <2>2 DEF Cut
  <2>7. z.next = 1 \/ \E k \in 1..i : IsArn(s, k) /\ z.next = RunEnd(s, k) + 1
    BY <1>3, <2>2 DEF Cut
  <2> QED
    BY <2>5, <2>6, <2>7 DEF Cut
<1>8. CASE \E v \in Texts, m \in Nat : Places("arn", s, a, i, z, v, m)
  <2>1. PICK v \in Texts, m \in Nat : Places("arn", s, a, i, z, v, m)
    BY <1>8
  <2>2. IsArn(s, i) /\ RunEnd(s, i) \in (i + 2)..Len(s) /\ MatchLength("arn", s, i) = RunEnd(s, i) - i + 1
    BY <1>5, <2>1 DEF Places
  <2>3. i >= a.next /\ z.next = RunEnd(s, i) + 1 /\ z.text = Append(a.text, Token(m))
    <3>1. i >= a.next /\ z.next = i + MatchLength("arn", s, i) /\ z.text = Append(a.text, Token(m))
      BY <2>1 DEF Places
    <3> QED
      BY <1>1, <2>2, <3>1
  <2>4. Cuts(z.table, s, Token(m), i)
    <3>1. v = SubSeq(s, i, RunEnd(s, i))
      <4>1. v = SubSeq(s, i, i + MatchLength("arn", s, i) - 1)
        BY <2>1, Zenon DEF Places
      <4>2. i + MatchLength("arn", s, i) - 1 = RunEnd(s, i)
        BY <1>1, <2>2
      <4> QED
        BY <4>1, <4>2, Zenon
    <3>2. UnitFrom(s, i) = v
      BY <2>2, <3>1, UnitIs
    <3>3. Shown(z.table, Token(m), v)
      BY <2>1 DEF Places, Shown
    <3> QED
      BY <2>2, <3>2, <3>3 DEF Cuts
  <2>5. Longer(a.table, z.table) /\ Token(m) \in Atoms
    BY <2>1, TokenIsAtom DEF Places, Adds
  <2>6. /\ Len(z.text) = Started(s, i)
        /\ \A n \in 1..Len(z.text) :
             \E j \in Starts(s) : j <= i /\ Started(s, j) = n /\ Cuts(z.table, s, z.text[n], j)
    <3>1. StartsWith(s, i, a, z, Token(m))
      BY <1>1, <2>3, <2>4, <2>5 DEF StartsWith
    <3> QED
      BY <3>1, OneStarts
  <2>7. ASSUME NEW k \in 1..i, IsArn(s, k) PROVE RunEnd(s, k) < z.next
    <3>1. CASE k = i
      BY <2>2, <2>3, <3>1
    <3>2. CASE k \in 1..(i - 1)
      <4>1. RunEnd(s, k) < a.next
        BY <2>7, <3>2 DEF Cut
      <4>2. k \in 1..Len(s)
        BY <1>1
      <4>3. RunEnd(s, k) \in Nat
        <5>1. RunEnd(s, k) \in (k + 2)..Len(s)
          BY <2>7, <4>2, ArnIs
        <5> QED
          BY <4>2, <5>1
      <4> QED
        BY <1>1, <2>2, <2>3, <4>1, <4>3
    <3> QED
      BY <1>2, <3>1, <3>2
  <2>8. \E k \in 1..i : IsArn(s, k) /\ z.next = RunEnd(s, k) + 1
    <3>1. i \in 1..i
      BY <1>1
    <3> QED
      BY <2>2, <2>3, <3>1
  <2> QED
    BY <2>6, <2>7, <2>8 DEF Cut
<1>9. \/ i < a.next /\ z = a
      \/ Carries("arn", s, a, i, z)
      \/ \E v \in Texts, m \in Nat : Places("arn", s, a, i, z, v, m)
  BY Matched
<1> QED
  BY <1>6, <1>7, <1>8, <1>9

LEMMA AllCut ==
  ASSUME NEW r \in Redactions, NEW st, Pass(st, "arn", r)
  PROVE  Cut(r.text, st[Len(r.text)], Len(r.text))
<1> DEFINE n == Len(r.text)
           P == {i \in 0..n : Cut(r.text, st[i], i)}
<1>1. r.text \in Texts /\ n \in Nat
  <2>1. r.text \in Seq(Atoms)
    BY DEF Redactions, Texts
  <2> QED
    BY <2>1 DEF Texts
<1>2. 0 \in P
  <2>1. st[0].text = <<>> /\ st[0].next = 1
    BY DEF Pass
  <2>2. Started(r.text, 0) = 0
    <3>1. Starts(r.text) \cap 1..0 = {}
      OBVIOUS
    <3> QED
      BY <3>1, FS_EmptySet DEF Started
  <2>3. Cut(r.text, st[0], 0)
    BY <2>1, <2>2 DEF Cut
  <2> QED
    BY <1>1, <2>3
<1>3. ASSUME NEW i \in 1..n, i - 1 \in P PROVE i \in P
  <2>1. st[i - 1] \in Redactions /\ st[i] \in Redactions
    BY <1>1 DEF Pass
  <2>2. st[i] = Consumed("arn", r.text, st[i - 1], i)
    BY DEF Pass
  <2>3. Cut(r.text, st[i - 1], i - 1)
    BY <1>3
  <2>4. Cut(r.text, st[i], i)
    BY <1>1, <2>1, <2>2, <2>3, OneCut
  <2> QED
    BY <2>4
<1>4. n \in P
  <2>1. n \in 0..n
    BY <1>1
  <2> HIDE DEF P, n
  <2> QED
    BY <1>1, <1>2, <1>3, <2>1, UpTo
<1> QED
  BY <1>4

\* The text of the pass has one fragment for each unit, which cuts it.
LEMMA UnitsCut ==
  ASSUME NEW s \in Texts, NEW z \in Redactions, Cut(s, z, Len(s))
  PROVE  /\ Len(Units(s)) = Len(z.text)
         /\ \A n \in 1..Len(z.text) :
              /\ StartOf(s, n) \in Starts(s) /\ Units(s)[n] = UnitFrom(s, StartOf(s, n))
              /\ Cuts(z.table, s, z.text[n], StartOf(s, n))
<1>1. Len(s) \in Nat /\ z.text \in Seq(Atoms) /\ Len(z.text) \in Nat
  <2>1. z.text \in Seq(Atoms) /\ Len(s) \in Nat
    BY DEF Texts, Redactions
  <2> QED
    BY <2>1
<1>2. Cardinality(Starts(s)) = Len(z.text)
  <2>1. Starts(s) \cap 1..Len(s) = Starts(s)
    BY DEF Starts
  <2> QED
    BY <2>1 DEF Cut, Started
<1>3. Units(s) = [n \in 1..Len(z.text) |-> UnitFrom(s, StartOf(s, n))]
  BY <1>2 DEF Units
<1>4. Len(Units(s)) = Len(z.text)
  BY <1>1, <1>3
<1>5. ASSUME NEW n \in 1..Len(z.text)
      PROVE  StartOf(s, n) \in Starts(s) /\ Cuts(z.table, s, z.text[n], StartOf(s, n))
  <2>1. PICK j \in Starts(s) : Started(s, j) = n /\ Cuts(z.table, s, z.text[n], j)
    BY DEF Cut
  <2>2. StartOf(s, n) = CHOOSE i \in Starts(s) : Started(s, i) = n
    BY DEF StartOf, Started
  <2>3. StartOf(s, n) \in Starts(s) /\ Started(s, StartOf(s, n)) = n
    BY <2>1, <2>2
  <2>4. StartOf(s, n) = j
    BY <2>1, <2>3, StartsApart
  <2> QED
    BY <2>1, <2>4
<1> QED
  BY <1>3, <1>4, <1>5

-----------------------------------------------------------------------------
(* The three passes of Redact, one after the other.                           *)

LEMMA ReplaceTyped ==
  ASSUME NEW p \in {"arn", "ip", "id"}, NEW r \in Redactions
  PROVE  Replace(p, r) \in Redactions
<1>1. PICK st : Pass(st, p, r) /\ Replace(p, r) = st[Len(r.text)]
  BY ReplacePasses
<1>2. Len(r.text) \in 0..Len(r.text)
  <2>1. r.text \in Seq(Atoms)
    BY DEF Redactions, Texts
  <2> QED
    BY <2>1
<1> QED
  BY <1>1, <1>2 DEF Pass

Begun(tab, s) == [table |-> tab, text |-> s, next |-> 1]

LEMMA RedactIs ==
  ASSUME NEW tab \in Seq(Texts), NEW s \in Texts
  PROVE  /\ Begun(tab, s) \in Redactions
         /\ Redact(tab, s) = Replace("id", Replace("ip", Replace("arn", Begun(tab, s))))
<1> DEFINE base == Begun(tab, s)
           n == Len(Patterns)
           step == [c \in Redactions \X (1..n) |-> Replace(Patterns[c[2]], c[1])]
           Folding(F) ==
             F = [S \in SUBSET (DOMAIN Patterns) |->
                   IF S = {} THEN base ELSE Replace(Patterns[Max(S)], F[S \ {Max(S)}])]
           it == CHOOSE F : Folding(F)
<1>1. Redact(tab, s) = it[DOMAIN Patterns]
  BY DEF Redact, FoldLeft, MapThenFoldSet, Begun
<1>2. base \in Redactions
  BY DEF Redactions, Begun
<1>3. /\ n = 3 /\ n \in Nat /\ DOMAIN Patterns = 1..n
      /\ Patterns[1] = "arn" /\ Patterns[2] = "ip" /\ Patterns[3] = "id"
      /\ \A i \in 1..n : Patterns[i] \in {"arn", "ip", "id"}
  <2>1. /\ n = 3 /\ n \in Nat /\ DOMAIN Patterns = 1..n
        /\ Patterns[1] = "arn" /\ Patterns[2] = "ip" /\ Patterns[3] = "id"
    BY DEF Patterns
  <2>2. \A i \in 1..n : i = 1 \/ i = 2 \/ i = 3
    BY <2>1
  <2> HIDE DEF n
  <2> QED
    BY <2>1, <2>2
<1> HIDE DEF n, base
<1>4. Steps(step, n, Redactions)
  <2>1. \A c \in Redactions \X (1..n) : Replace(Patterns[c[2]], c[1]) \in Redactions
    <3>1. TAKE c \in Redactions \X (1..n)
    <3>2. c[1] \in Redactions /\ Patterns[c[2]] \in {"arn", "ip", "id"}
      BY <1>3
    <3> QED
      BY <3>2, ReplaceTyped
  <2> QED
    BY <2>1 DEF Steps
<1>5. PICK G \in [SUBSET (1..n) -> Redactions] : Folds(G, n, base, step)
  <2> HIDE DEF step
  <2> QED
    BY <1>2, <1>3, <1>4, FoldExists
<1>6. ASSUME NEW S \in SUBSET (1..n), S # {}
      PROVE  Max(S) \in 1..n /\ S \ {Max(S)} \in SUBSET (1..n)
  <2>1. S \in SUBSET (0..n)
    BY <1>3, <1>6
  <2> QED
    BY <1>3, <1>6, <2>1, MaxOf
<1>7. ASSUME NEW b \in Redactions, NEW i \in 1..n PROVE step[<<b, i>>] = Replace(Patterns[i], b)
  <2>1. <<b, i>> \in Redactions \X (1..n)
    OBVIOUS
  <2> QED
    BY <2>1
<1> HIDE DEF step
<1>8. Folding(G)
  <2>1. ASSUME NEW S \in SUBSET (1..n)
        PROVE  G[S] = IF S = {} THEN base ELSE Replace(Patterns[Max(S)], G[S \ {Max(S)}])
    <3>1. G[S] = IF S = {} THEN base ELSE step[<<G[S \ {Max(S)}], Max(S)>>]
      BY <1>5 DEF Folds
    <3> QED
      BY <1>6, <1>7, <3>1
  <2>2. G = [S \in SUBSET (1..n) |-> G[S]]
    OBVIOUS
  <2> QED
    BY <1>3, <2>1, <2>2
<1>9. Folding(it)
  <2> HIDE DEF Folding
  <2> QED
    BY <1>8
<1>10. \E st : Runs(st, n, Redactions, base, step) /\ it[1..n] = st[n]
  <2> HIDE DEF it
  <2>1. it[{}] = base
    BY <1>9
  <2>2. ASSUME NEW S \in SUBSET (1..n), S # {}, it[S \ {Max(S)}] \in Redactions
        PROVE  it[S] = step[<<it[S \ {Max(S)}], Max(S)>>]
    <3>1. it[S] = Replace(Patterns[Max(S)], it[S \ {Max(S)}])
      BY <1>3, <1>9, <2>2
    <3> HIDE DEF Folding
    <3> QED
      BY <1>6, <1>7, <2>2, <3>1
  <2>3. Follows(it, n, Redactions, base, step)
    BY <2>1, <2>2 DEF Follows
  <2>4. n \in Nat /\ base \in Redactions /\ Steps(step, n, Redactions)
    BY <1>2, <1>3, <1>4
  <2> HIDE DEF Folding
  <2> QED
    BY <2>3, <2>4, FoldRuns
<1> HIDE DEF it, Folding
<1>11. PICK st : Runs(st, n, Redactions, base, step) /\ it[1..n] = st[n]
  BY <1>10
<1>12. /\ st \in [0..n -> Redactions] /\ st[0] = base
       /\ \A i \in 1..n : st[i] = step[<<st[i - 1], i>>]
  BY <1>11 DEF Runs
<1>13. 1 - 1 = 0 /\ 2 - 1 = 1 /\ 3 - 1 = 2 /\ 0 \in 0..n /\ 1 \in 0..n /\ 2 \in 0..n
  BY <1>3
<1>14. /\ 1 \in 1..n /\ 2 \in 1..n /\ 3 \in 1..n
       /\ st[0] = base /\ st[0] \in Redactions /\ st[1] \in Redactions /\ st[2] \in Redactions
       /\ st[1] = step[<<st[0], 1>>] /\ st[2] = step[<<st[1], 2>>] /\ st[3] = step[<<st[2], 3>>]
  <2>1. 1 \in 1..n /\ 2 \in 1..n /\ 3 \in 1..n
    BY <1>3
  <2>2. st[0] = base /\ st[0] \in Redactions /\ st[1] \in Redactions /\ st[2] \in Redactions
    BY <1>12, <1>13
  <2>3. /\ st[1] = step[<<st[1 - 1], 1>>] /\ st[2] = step[<<st[2 - 1], 2>>]
        /\ st[3] = step[<<st[3 - 1], 3>>]
    BY <1>12, <2>1, Zenon
  <2> QED
    BY <1>13, <2>1, <2>2, <2>3
<1>15. st[1] = Replace("arn", st[0]) /\ st[2] = Replace("ip", st[1]) /\ st[3] = Replace("id", st[2])
  BY <1>3, <1>7, <1>14
<1>16. Redact(tab, s) = st[3]
  BY <1>1, <1>3, <1>11
<1> QED
  BY <1>2, <1>14, <1>15, <1>16 DEF base

-----------------------------------------------------------------------------
(* What Redact makes of the table and of the text.                            *)

LEMMA ReplaceIs ==
  ASSUME NEW p \in {"arn", "ip", "id"}, NEW r \in Redactions, NEW z, z = Replace(p, r)
  PROVE  /\ z \in Redactions /\ Longer(r.table, z.table)
         /\ Distinct(r.table) => Distinct(z.table)
         /\ Values(r.table) => Values(z.table)
         /\ p = "arn" => Cut(r.text, z, Len(r.text))
         /\ p # "arn" => InPlace(p, r.text, z, Len(r.text))
<1>1. PICK st : Pass(st, p, r) /\ z = st[Len(r.text)]
  BY ReplacePasses
<1>2. Len(r.text) \in 0..Len(r.text)
  <2>1. r.text \in Seq(Atoms)
    BY DEF Redactions, Texts
  <2> QED
    BY <2>1
<1>3. z \in Redactions
  BY ReplaceTyped
<1>4. /\ Longer(r.table, z.table)
      /\ Distinct(r.table) => Distinct(z.table)
      /\ Values(r.table) => Values(z.table)
  BY <1>1, <1>2, TableGrows
<1>5. p = "arn" => Cut(r.text, z, Len(r.text))
  BY <1>1, AllCut
<1>6. p # "arn" => InPlace(p, r.text, z, Len(r.text))
  BY <1>1, AllInPlace
<1> QED
  BY <1>3, <1>4, <1>5, <1>6

\* What a fragment of a redacted text stands for.
Says(tab, f, u) == Shown(tab, f, u) \/ (f.kind # "token" /\ u = <<f>>)
SaysAll(tab, t, us) == Len(t) = Len(us) /\ \A n \in 1..Len(t) : Says(tab, t[n], us[n])

LEMMA StillSays ==
  ASSUME NEW p \in {"ip", "id"}, NEW r \in Redactions, NEW z \in Redactions, Longer(r.table, z.table),
         InPlace(p, r.text, z, Len(r.text)), NEW us, SaysAll(r.table, r.text, us)
  PROVE  SaysAll(z.table, z.text, us)
<1>1. r.table \in Seq(Texts) /\ z.table \in Seq(Texts)
  BY DEF Redactions
<1>2. Len(z.text) = Len(r.text) /\ Len(r.text) = Len(us)
  BY DEF InPlace, SaysAll
<1>3. ASSUME NEW n \in 1..Len(r.text) PROVE Says(z.table, z.text[n], us[n])
  <2>1. Says(r.table, r.text[n], us[n])
    BY DEF SaysAll
  <2>2. CASE r.text[n].kind = p
    <3>1. ~Shown(r.table, r.text[n], us[n])
      <4>1. \A m \in 1..Len(r.table) : Token(m).kind # p
        BY DEF Token
      <4> QED
        BY <2>2, <4>1 DEF Shown
    <3>2. us[n] = <<r.text[n]>>
      BY <2>1, <3>1 DEF Says
    <3>3. Shown(z.table, z.text[n], <<r.text[n]>>)
      BY <2>2 DEF InPlace
    <3> QED
      BY <3>2, <3>3 DEF Says
  <2>3. CASE r.text[n].kind # p
    <3>1. z.text[n] = r.text[n]
      BY <2>3 DEF InPlace
    <3>2. CASE Shown(r.table, r.text[n], us[n])
      <4>1. Shown(z.table, r.text[n], us[n])
        BY <1>1, <3>2, StaysShown
      <4> QED
        BY <3>1, <4>1 DEF Says
    <3>3. CASE ~Shown(r.table, r.text[n], us[n])
      BY <2>1, <3>1, <3>3 DEF Says
    <3> QED
      BY <3>2, <3>3
  <2> QED
    BY <2>2, <2>3
<1> QED
  BY <1>2, <1>3 DEF SaysAll

Tokenless(s) == \A i \in 1..Len(s) : s[i].kind # "token"

LEMMA CutSays ==
  ASSUME NEW s \in Texts, Tokenless(s), NEW z \in Redactions, Cut(s, z, Len(s))
  PROVE  SaysAll(z.table, z.text, Units(s))
<1>1. ASSUME NEW n \in 1..Len(z.text) PROVE Says(z.table, z.text[n], Units(s)[n])
  <2> DEFINE j == StartOf(s, n)
  <2>1. j \in Starts(s) /\ Units(s)[n] = UnitFrom(s, j) /\ Cuts(z.table, s, z.text[n], j)
    BY UnitsCut
  <2>2. j \in 1..Len(s)
    BY <2>1 DEF Starts
  <2> HIDE DEF j
  <2>3. CASE IsArn(s, j)
    BY <2>1, <2>3 DEF Cuts, Says
  <2>4. CASE ~IsArn(s, j)
    <3>1. z.text[n] = s[j] /\ s[j].kind # "token"
      BY <2>1, <2>2, <2>4 DEF Cuts, Tokenless
    <3>2. UnitFrom(s, j) = <<s[j]>>
      BY <2>2, <2>4, UnitIs
    <3> QED
      BY <2>1, <3>1, <3>2 DEF Says
  <2> QED
    BY <2>3, <2>4
<1> QED
  BY <1>1, UnitsCut DEF SaysAll

LEMMA Redacted ==
  ASSUME NEW tab \in Seq(Texts), NEW s \in Texts, NEW z, z = Redact(tab, s)
  PROVE  /\ z \in Redactions /\ Longer(tab, z.table)
         /\ Distinct(tab) => Distinct(z.table)
         /\ Values(tab) => Values(z.table)
         /\ Plain(z.text)
         /\ Tokenless(s) => SaysAll(z.table, z.text, Units(s))
<1>1. PICK r0, r1, r2 : /\ r0 \in Redactions /\ r0 = Begun(tab, s)
                        /\ r1 = Replace("arn", r0) /\ r2 = Replace("ip", r1)
                        /\ z = Replace("id", r2)
  BY RedactIs
<1>2. r0.table = tab /\ r0.text = s
  BY <1>1 DEF Begun
<1>3. /\ r1 \in Redactions /\ Longer(tab, r1.table)
      /\ Distinct(tab) => Distinct(r1.table)
      /\ Values(tab) => Values(r1.table)
      /\ Cut(s, r1, Len(s))
  BY <1>1, <1>2, ReplaceIs
<1>4. /\ r2 \in Redactions /\ Longer(r1.table, r2.table)
      /\ Distinct(r1.table) => Distinct(r2.table)
      /\ Values(r1.table) => Values(r2.table)
      /\ InPlace("ip", r1.text, r2, Len(r1.text))
  BY <1>1, <1>3, ReplaceIs
<1>5. /\ z \in Redactions /\ Longer(r2.table, z.table)
      /\ Distinct(r2.table) => Distinct(z.table)
      /\ Values(r2.table) => Values(z.table)
      /\ InPlace("id", r2.text, z, Len(r2.text))
  BY <1>1, <1>4, ReplaceIs
<1>6. Longer(tab, z.table)
  <2>1. tab \in Seq(Texts) /\ r1.table \in Seq(Texts) /\ r2.table \in Seq(Texts) /\ z.table \in Seq(Texts)
    BY <1>3, <1>4, <1>5 DEF Redactions
  <2>2. Len(tab) \in Nat /\ Len(r1.table) \in Nat /\ Len(r2.table) \in Nat /\ Len(z.table) \in Nat
    BY <2>1
  <2>3. Longer(tab, r2.table)
    BY <1>3, <1>4, <2>2 DEF Longer
  <2> QED
    BY <1>5, <2>2, <2>3 DEF Longer
<1>7. ASSUME NEW i \in 1..Len(z.text) PROVE z.text[i].kind \notin {"id", "ip"}
  <2>1. \A t, m : Shown(t, z.text[i], m) => z.text[i].kind \notin {"id", "ip"}
    BY DEF Shown, Token
  <2>2. i \in 1..Len(r2.text) /\ i \in 1..Len(r1.text)
    BY <1>4, <1>5 DEF InPlace
  <2>3. CASE r2.text[i].kind = "id"
    BY <1>5, <2>1, <2>2, <2>3 DEF InPlace
  <2>4. CASE r2.text[i].kind # "id"
    <3>1. z.text[i] = r2.text[i]
      BY <1>5, <2>2, <2>4 DEF InPlace
    <3>2. CASE r1.text[i].kind = "ip"
      BY <1>4, <2>1, <2>2, <3>1, <3>2 DEF InPlace
    <3>3. CASE r1.text[i].kind # "ip"
      BY <1>4, <2>2, <2>4, <3>1, <3>3 DEF InPlace
    <3> QED
      BY <3>2, <3>3
  <2> QED
    BY <2>3, <2>4
<1>8. ASSUME Tokenless(s) PROVE SaysAll(z.table, z.text, Units(s))
  <2>1. SaysAll(r1.table, r1.text, Units(s))
    BY <1>3, <1>8, CutSays
  <2>2. SaysAll(r2.table, r2.text, Units(s))
    BY <1>3, <1>4, <2>1, StillSays
  <2> QED
    BY <1>4, <1>5, <2>2, StillSays
<1> QED
  BY <1>3, <1>4, <1>5, <1>6, <1>7, <1>8 DEF Plain

-----------------------------------------------------------------------------
(* Texts put together.                                                        *)

\* Induction over sequences, the property given as a set again.
LEMMA ByAppending ==
  ASSUME NEW S, NEW P, <<>> \in P,
         \A q \in Seq(S), e \in S : q \in P => Append(q, e) \in P
  PROVE  \A q \in Seq(S) : q \in P
<1> DEFINE Good(n) == \A q \in Seq(S) : Len(q) = n => q \in P
           bad == {n \in Nat : ~Good(n)}
<1>1. ASSUME bad # {} PROVE FALSE
  <2>1. PICK n \in bad : \A m \in bad : n <= m
    <3> HIDE DEF Good
    <3>1. bad \in SUBSET Nat
      OBVIOUS
    <3> HIDE DEF bad
    <3> QED
      BY <1>1, <3>1, Least
  <2>2. PICK q \in Seq(S) : Len(q) = n /\ q \notin P
    BY <2>1
  <2>3. q # <<>>
    BY <2>2
  <2>4. PICK t \in Seq(S), e \in S : q = Append(t, e)
    BY <2>3, SequenceEmptyOrAppend
  <2>5. Len(t) \in Nat /\ n = Len(t) + 1
    BY <2>2, <2>4, AppendProperties
  <2>6. Len(t) \notin bad
    <3>1. ~ (n <= Len(t))
      BY <2>5
    <3> HIDE DEF bad
    <3> QED
      BY <2>1, <3>1
  <2>7. Good(Len(t))
    <3> HIDE DEF Good
    <3> QED
      BY <2>5, <2>6
  <2> QED
    BY <2>2, <2>4, <2>7
<1>2. ASSUME NEW q \in Seq(S) PROVE q \in P
  <2>1. Len(q) \in Nat
    OBVIOUS
  <2>2. Good(Len(q))
    <3> HIDE DEF Good
    <3> QED
      BY <1>1, <2>1
  <2> QED
    BY <2>2
<1> QED
  BY <1>2

Flattens(st, q, S) ==
  /\ st \in [0..Len(q) -> Seq(S)] /\ st[0] = <<>>
  /\ \A i \in 1..Len(q) : st[i] = st[i - 1] \o q[i]
  /\ FlattenSeq(q) = st[Len(q)]

LEMMA FlattenRuns ==
  ASSUME NEW S, NEW q \in Seq(Seq(S))
  PROVE  \E st : Flattens(st, q, S)
<1> DEFINE n == Len(q)
           B == Seq(S)
           none == <<>>
           step == [c \in B \X (1..n) |-> c[1] \o q[c[2]]]
<1>1. n \in Nat /\ none \in B /\ \A i \in 1..n : q[i] \in B
  OBVIOUS
<1>2. Steps(step, n, B)
  <2>1. \A c \in B \X (1..n) : c[1] \o q[c[2]] \in B
    <3>1. TAKE c \in B \X (1..n)
    <3>2. c[1] \in B /\ q[c[2]] \in B
      BY <1>1
    <3> QED
      BY <3>2, ConcatProperties
  <2> QED
    BY <2>1 DEF Steps
<1>3. \E st : Runs(st, n, B, none, step)
  <2>1. PICK G \in [SUBSET (1..n) -> B] : Folds(G, n, none, step)
    <3> HIDE DEF none, step, B
    <3> QED
      BY <1>1, <1>2, FoldExists
  <2>2. Follows(G, n, B, none, step)
    <3>1. G[{}] = none
      BY <2>1 DEF Folds
    <3>2. ASSUME NEW U \in SUBSET (1..n), U # {}
          PROVE  G[U] = step[<<G[U \ {Max(U)}], Max(U)>>]
      <4> HIDE DEF none, step, B, n
      <4> QED
        BY <2>1, <3>2 DEF Folds
    <3> HIDE DEF none, step, B, n
    <3> QED
      BY <3>1, <3>2 DEF Follows
  <2> HIDE DEF none, step, B, n
  <2>3. \E st : Runs(st, n, B, none, step) /\ G[1..n] = st[n]
    BY <1>1, <1>2, <2>2, FoldRuns
  <2> QED
    BY <2>3
<1>4. PICK st : Runs(st, n, B, none, step)
  BY <1>3
<1>5. /\ st \in [0..n -> B] /\ st[0] = none
      /\ \A i \in 1..n : st[i] = step[<<st[i - 1], i>>]
  <2> HIDE DEF none, step, B, n
  <2> QED
    BY <1>4 DEF Runs
<1>6. ASSUME NEW i \in 1..n PROVE st[i] = st[i - 1] \o q[i]
  <2>1. st[i - 1] \in B
    <3>1. i - 1 \in 0..n /\ st \in [0..n -> B]
      BY <1>1, <1>5
    <3> HIDE DEF B, n, step
    <3> QED
      BY <3>1
  <2>2. <<st[i - 1], i>> \in B \X (1..n)
    BY <2>1
  <2>3. step[<<st[i - 1], i>>] = st[i - 1] \o q[i]
    BY <2>2
  <2> HIDE DEF step
  <2> QED
    BY <1>5, <2>3
<1>7. CASE n = 0
  <2>1. FlattenSeq(q) = q /\ q = <<>>
    BY <1>7 DEF FlattenSeq
  <2> HIDE DEF step
  <2> QED
    BY <1>5, <1>6, <1>7, <2>1 DEF Flattens
<1>8. CASE n # 0
  <2> DEFINE Flat(f) == f = [i \in 1..n |-> IF i = 1 THEN q[i] ELSE f[i - 1] \o q[i]]
             it == CHOOSE f : Flat(f)
             g == [i \in 1..n |-> st[i]]
  <2>1. FlattenSeq(q) = it[n]
    BY <1>8 DEF FlattenSeq
  <2>2. Flat(g)
    <3>1. ASSUME NEW i \in 1..n PROVE g[i] = IF i = 1 THEN q[i] ELSE g[i - 1] \o q[i]
      <4>1. CASE i = 1
        <5>1. st[1] = <<>> \o q[1]
          <6>1. st[1] = st[1 - 1] \o q[1]
            BY <1>6, <4>1, Zenon
          <6>2. 1 - 1 = 0
            OBVIOUS
          <6> HIDE DEF step
          <6> QED
            BY <1>5, <6>1, <6>2
        <5>2. <<>> \o q[1] = q[1]
          BY <1>1, <4>1, ConcatEmptySeq
        <5> HIDE DEF step
        <5> QED
          BY <4>1, <5>1, <5>2
      <4>2. CASE i # 1
        <5>1. i - 1 \in 1..n
          BY <1>1, <4>2
        <5> HIDE DEF step
        <5> QED
          BY <1>6, <4>2, <5>1
      <4> QED
        BY <4>1, <4>2
    <3>2. g = [i \in 1..n |-> g[i]]
      OBVIOUS
    <3> HIDE DEF g
    <3> QED
      BY <3>1, <3>2
  <2>3. Flat(it)
    <3> HIDE DEF Flat, g
    <3> QED
      BY <2>2
  <2> HIDE DEF it
  <2>4. \A i \in 0..n : i = 0 \/ it[i] = st[i]
    <3> DEFINE P == {i \in 0..n : i = 0 \/ it[i] = st[i]}
    <3>1. 0 \in P
      BY <1>1
    <3>2. ASSUME NEW i \in 1..n, i - 1 \in P PROVE i \in P
      <4>1. it[i] = IF i = 1 THEN q[i] ELSE it[i - 1] \o q[i]
        BY <2>3
      <4>2. st[i] = IF i = 1 THEN q[i] ELSE st[i - 1] \o q[i]
        <5>1. g[i] = IF i = 1 THEN q[i] ELSE g[i - 1] \o q[i]
          BY <2>2
        <5>2. i # 1 => g[i - 1] = st[i - 1]
          BY <1>1
        <5> QED
          BY <5>1, <5>2
      <4>3. i # 1 => it[i - 1] = st[i - 1]
        BY <3>2
      <4> HIDE DEF Flat, g
      <4>4. it[i] = st[i]
        BY <4>1, <4>2, <4>3
      <4> QED
        BY <4>4
    <3> HIDE DEF P
    <3>3. \A i \in 0..n : i \in P
      BY <1>1, <3>1, <3>2, UpTo
    <3> QED
      BY <3>3 DEF P
  <2>5. it[n] = st[n]
    BY <1>1, <1>8, <2>4
  <2> HIDE DEF step
  <2> QED
    BY <1>5, <1>6, <2>1, <2>5 DEF Flattens
<1> QED
  BY <1>7, <1>8

LEMMA FlattenTyped ==
  ASSUME NEW S, NEW q \in Seq(Seq(S))
  PROVE  FlattenSeq(q) \in Seq(S)
<1>1. PICK st : Flattens(st, q, S)
  BY FlattenRuns
<1>2. Len(q) \in 0..Len(q)
  OBVIOUS
<1> QED
  BY <1>1, <1>2 DEF Flattens

LEMMA FlattenNone == FlattenSeq(<<>>) = <<>>
  BY DEF FlattenSeq

LEMMA FlattenAppend ==
  ASSUME NEW S, NEW q \in Seq(Seq(S)), NEW e \in Seq(S)
  PROVE  FlattenSeq(Append(q, e)) = FlattenSeq(q) \o e
<1> DEFINE r == Append(q, e)
           n == Len(q)
<1>1. /\ r \in Seq(Seq(S)) /\ Len(r) = n + 1 /\ n \in Nat
      /\ \A i \in 1..n : r[i] = q[i]
      /\ r[n + 1] = e
  BY AppendProperties
<1> HIDE DEF r
<1>2. PICK a : Flattens(a, q, S)
  BY FlattenRuns
<1>3. PICK b : Flattens(b, r, S)
  BY <1>1, FlattenRuns
<1>4. \A i \in 0..n : a[i] = b[i]
  <2> DEFINE P == {i \in 0..n : a[i] = b[i]}
  <2>1. 0 \in P
    BY <1>1, <1>2, <1>3 DEF Flattens
  <2>2. ASSUME NEW i \in 1..n, i - 1 \in P PROVE i \in P
    <3>1. a[i] = a[i - 1] \o q[i]
      BY <1>2 DEF Flattens
    <3>2. b[i] = b[i - 1] \o r[i]
      <4>1. i \in 1..Len(r)
        BY <1>1
      <4> QED
        BY <1>3, <4>1 DEF Flattens
    <3>3. a[i] = b[i]
      BY <1>1, <2>2, <3>1, <3>2
    <3> QED
      BY <3>3
  <2> HIDE DEF P
  <2>3. \A i \in 0..n : i \in P
    BY <1>1, <2>1, <2>2, UpTo
  <2> QED
    BY <2>3 DEF P
<1>5. b[n + 1] = b[n] \o e
  <2>1. n + 1 \in 1..Len(r) /\ (n + 1) - 1 = n
    BY <1>1
  <2>2. b[n + 1] = b[(n + 1) - 1] \o r[n + 1]
    BY <1>3, <2>1 DEF Flattens
  <2> QED
    BY <1>1, <2>1, <2>2
<1>6. FlattenSeq(q) = a[n] /\ FlattenSeq(r) = b[n + 1]
  BY <1>1, <1>2, <1>3 DEF Flattens
<1>7. a[n] = b[n]
  BY <1>1, <1>4
<1> QED
  BY <1>5, <1>6, <1>7 DEF r

LEMMA FlattenConcat ==
  ASSUME NEW S, NEW a \in Seq(Seq(S)), NEW b \in Seq(Seq(S))
  PROVE  FlattenSeq(a \o b) = FlattenSeq(a) \o FlattenSeq(b)
<1> DEFINE P == {q \in Seq(Seq(S)) : FlattenSeq(a \o q) = FlattenSeq(a) \o FlattenSeq(q)}
<1>1. <<>> \in P
  <2>1. a \o <<>> = a /\ FlattenSeq(a) \o <<>> = FlattenSeq(a)
    <3>1. FlattenSeq(a) \in Seq(S)
      BY FlattenTyped
    <3> QED
      BY <3>1, ConcatEmptySeq
  <2>2. <<>> \in Seq(Seq(S))
    OBVIOUS
  <2>3. FlattenSeq(a \o <<>>) = FlattenSeq(a) \o FlattenSeq(<<>>)
    BY <2>1, FlattenNone, Zenon
  <2> QED
    BY <2>2, <2>3
<1>2. ASSUME NEW q \in Seq(Seq(S)), NEW e \in Seq(S), q \in P PROVE Append(q, e) \in P
  <2>1. Append(q, e) = q \o <<e>> /\ <<e>> \in Seq(Seq(S)) /\ Append(q, e) \in Seq(Seq(S))
    BY AppendIsConcat, AppendProperties
  <2>2. a \o q \in Seq(Seq(S))
    BY ConcatProperties
  <2>3. a \o Append(q, e) = Append(a \o q, e)
    <3>1. a \o (q \o <<e>>) = (a \o q) \o <<e>>
      BY <2>1, ConcatAssociative
    <3>2. Append(a \o q, e) = (a \o q) \o <<e>>
      BY <2>2, AppendIsConcat
    <3> QED
      BY <2>1, <3>1, <3>2, Zenon
  <2>4. FlattenSeq(Append(a \o q, e)) = FlattenSeq(a \o q) \o e
    BY <2>2, FlattenAppend
  <2>5. FlattenSeq(Append(q, e)) = FlattenSeq(q) \o e
    BY FlattenAppend
  <2>6. FlattenSeq(a \o q) = FlattenSeq(a) \o FlattenSeq(q)
    BY <1>2
  <2>7. (FlattenSeq(a) \o FlattenSeq(q)) \o e = FlattenSeq(a) \o (FlattenSeq(q) \o e)
    <3>1. FlattenSeq(a) \in Seq(S) /\ FlattenSeq(q) \in Seq(S)
      BY FlattenTyped
    <3> QED
      BY <3>1, ConcatAssociative
  <2>8. FlattenSeq(a \o Append(q, e)) = FlattenSeq(a) \o FlattenSeq(Append(q, e))
    BY <2>3, <2>4, <2>5, <2>6, <2>7, Zenon
  <2> QED
    BY <2>1, <2>8
<1>3. b \in P
  <2> HIDE DEF P
  <2> QED
    BY <1>1, <1>2, ByAppending
<1> QED
  BY <1>3

-----------------------------------------------------------------------------
(* A value put in for a placeholder.                                          *)

Pieces(t, f, v) == [i \in 1..Len(t) |-> IF t[i] = f THEN v ELSE <<t[i]>>]
Put(t, f, v) == FlattenSeq(Pieces(t, f, v))

LEMMA PiecesTyped ==
  ASSUME NEW t \in Texts, NEW f, NEW v \in Texts
  PROVE  /\ Pieces(t, f, v) \in Seq(Texts) /\ Len(Pieces(t, f, v)) = Len(t)
         /\ \A i \in 1..Len(t) : Pieces(t, f, v)[i] = IF t[i] = f THEN v ELSE <<t[i]>>
<1>1. Len(t) \in Nat /\ t \in Seq(Atoms)
  BY DEF Texts
<1>2. \A i \in 1..Len(t) : (IF t[i] = f THEN v ELSE <<t[i]>>) \in Texts
  <2>1. TAKE i \in 1..Len(t)
  <2>2. t[i] \in Atoms
    BY <1>1
  <2>3. <<t[i]>> \in Texts
    BY <2>2 DEF Texts
  <2> QED
    BY <2>3
<1>3. Pieces(t, f, v) \in [1..Len(t) -> Texts]
  BY <1>2 DEF Pieces
<1>4. Pieces(t, f, v) \in Seq(Texts)
  BY <1>1, <1>3, SeqDef
<1>5. DOMAIN Pieces(t, f, v) = 1..Len(t)
  BY DEF Pieces
<1>6. Len(Pieces(t, f, v)) = Len(t)
  BY <1>1, <1>4, <1>5, LenProperties
<1> QED
  BY <1>4, <1>6 DEF Pieces

LEMMA PutTyped ==
  ASSUME NEW t \in Texts, NEW f, NEW v \in Texts
  PROVE  Put(t, f, v) \in Texts
BY PiecesTyped, FlattenTyped DEF Put, Texts

LEMMA PutNone ==
  ASSUME NEW f, NEW v \in Texts
  PROVE  Put(<<>>, f, v) = <<>>
<1>1. <<>> \in Texts
  BY DEF Texts
<1>2. Pieces(<<>>, f, v) = <<>>
  <2>1. Pieces(<<>>, f, v) \in Seq(Texts) /\ Len(Pieces(<<>>, f, v)) = 0
    BY <1>1, PiecesTyped
  <2> QED
    BY <2>1
<1> QED
  BY <1>2, FlattenNone DEF Put

LEMMA FlattenOne ==
  ASSUME NEW v \in Texts
  PROVE  FlattenSeq(<<v>>) = v
<1>1. <<>> \in Seq(Seq(Atoms)) /\ v \in Seq(Atoms)
  BY DEF Texts
<1>2. FlattenSeq(Append(<<>>, v)) = FlattenSeq(<<>>) \o v
  BY <1>1, FlattenAppend
<1>3. Append(<<>>, v) = <<v>>
  OBVIOUS
<1>4. <<>> \o v = v
  BY <1>1, ConcatEmptySeq
<1> QED
  BY <1>2, <1>3, <1>4, FlattenNone

LEMMA PutOne ==
  ASSUME NEW g \in Atoms, NEW f, NEW v \in Texts
  PROVE  Put(<<g>>, f, v) = IF g = f THEN v ELSE <<g>>
<1> DEFINE w == IF g = f THEN v ELSE <<g>>
<1>1. <<g>> \in Texts /\ Len(<<g>>) = 1 /\ w \in Texts
  BY DEF Texts
<1>2. Pieces(<<g>>, f, v) = <<w>>
  BY <1>1 DEF Pieces
<1> HIDE DEF w
<1>3. FlattenSeq(<<w>>) = w
  BY <1>1, FlattenOne
<1> QED
  BY <1>2, <1>3 DEF Put, w

LEMMA PutConcat ==
  ASSUME NEW a \in Texts, NEW b \in Texts, NEW f, NEW v \in Texts
  PROVE  Put(a \o b, f, v) = Put(a, f, v) \o Put(b, f, v)
<1> DEFINE c == a \o b
           pa == Pieces(a, f, v)
           pb == Pieces(b, f, v)
           pc1 == Pieces(c, f, v)
<1>1. /\ c \in Texts /\ Len(c) = Len(a) + Len(b) /\ Len(a) \in Nat /\ Len(b) \in Nat
      /\ \A i \in 1..(Len(a) + Len(b)) : c[i] = IF i <= Len(a) THEN a[i] ELSE b[i - Len(a)]
  <2>1. a \in Seq(Atoms) /\ b \in Seq(Atoms)
    BY DEF Texts
  <2>2. Len(a) \in Nat /\ Len(b) \in Nat
    BY <2>1
  <2> QED
    BY <2>1, <2>2, ConcatProperties DEF Texts
<1> HIDE DEF c
<1>2. /\ pa \in Seq(Texts) /\ Len(pa) = Len(a)
      /\ \A i \in 1..Len(a) : pa[i] = IF a[i] = f THEN v ELSE <<a[i]>>
      /\ pb \in Seq(Texts) /\ Len(pb) = Len(b)
      /\ \A i \in 1..Len(b) : pb[i] = IF b[i] = f THEN v ELSE <<b[i]>>
      /\ pc1 \in Seq(Texts) /\ Len(pc1) = Len(c)
      /\ \A i \in 1..Len(c) : pc1[i] = IF c[i] = f THEN v ELSE <<c[i]>>
  BY <1>1, PiecesTyped
<1> HIDE DEF pa, pb, pc1
<1>3. /\ pa \o pb \in Seq(Texts) /\ Len(pa \o pb) = Len(pa) + Len(pb)
      /\ \A i \in 1..(Len(pa) + Len(pb)) :
           (pa \o pb)[i] = IF i <= Len(pa) THEN pa[i] ELSE pb[i - Len(pa)]
  <2>1. pa \in Seq(Texts) /\ pb \in Seq(Texts)
    BY <1>2
  <2> QED
    BY <2>1, ConcatProperties
<1>4. ASSUME NEW i \in 1..Len(pc1) PROVE pc1[i] = (pa \o pb)[i]
  <2>1. i \in 1..Len(c) /\ i \in 1..(Len(a) + Len(b)) /\ i \in 1..(Len(pa) + Len(pb))
    BY <1>1, <1>2
  <2>2. CASE i <= Len(a)
    <3>1. i \in 1..Len(a)
      BY <1>1, <2>1, <2>2
    <3>2. c[i] = a[i] /\ (pa \o pb)[i] = pa[i]
      BY <1>1, <1>2, <1>3, <2>1, <2>2
    <3>3. pc1[i] = IF c[i] = f THEN v ELSE <<c[i]>>
      BY <1>2, <2>1
    <3>4. pa[i] = IF a[i] = f THEN v ELSE <<a[i]>>
      BY <1>2, <3>1
    <3> QED
      BY <3>2, <3>3, <3>4, Zenon
  <2>3. CASE ~ (i <= Len(a))
    <3>1. i - Len(a) \in 1..Len(b)
      BY <1>1, <2>1, <2>3
    <3>2. c[i] = b[i - Len(a)] /\ (pa \o pb)[i] = pb[i - Len(a)]
      BY <1>1, <1>2, <1>3, <2>1, <2>3
    <3>3. pc1[i] = IF c[i] = f THEN v ELSE <<c[i]>>
      BY <1>2, <2>1
    <3>4. pb[i - Len(a)] = IF b[i - Len(a)] = f THEN v ELSE <<b[i - Len(a)]>>
      BY <1>2, <3>1
    <3> QED
      BY <3>2, <3>3, <3>4, Zenon
  <2> QED
    BY <2>2, <2>3
<1>5. pc1 = pa \o pb
  <2>1. Len(pc1) = Len(pa \o pb)
    BY <1>1, <1>2, <1>3
  <2> QED
    BY <1>2, <1>3, <1>4, <2>1, SeqEqual
<1>6. FlattenSeq(pa \o pb) = FlattenSeq(pa) \o FlattenSeq(pb)
  BY <1>2, FlattenConcat DEF Texts
<1>7. FlattenSeq(pc1) = FlattenSeq(pa) \o FlattenSeq(pb)
  BY <1>5, <1>6, Zenon
<1> QED
  BY <1>7 DEF Put, pa, pb, pc1, c

\* A text without the placeholder stays what it is.
LEMMA PutNowhere ==
  ASSUME NEW t \in Texts, NEW f, NEW v \in Texts, \A i \in 1..Len(t) : t[i] # f
  PROVE  Put(t, f, v) = t
<1> DEFINE Free(q) == \A i \in 1..Len(q) : q[i] # f
           P == {q \in Seq(Atoms) : Free(q) => Put(q, f, v) = q}
<1>1. <<>> \in P
  <2>1. <<>> \in Seq(Atoms) /\ Put(<<>>, f, v) = <<>>
    BY PutNone
  <2> HIDE DEF Free
  <2> QED
    BY <2>1
<1>2. ASSUME NEW q \in Seq(Atoms), NEW e \in Atoms, q \in P PROVE Append(q, e) \in P
  <2>1. /\ Append(q, e) = q \o <<e>> /\ <<e>> \in Texts /\ q \in Texts /\ Append(q, e) \in Seq(Atoms)
    <3>1. Append(q, e) = q \o <<e>>
      BY AppendIsConcat
    <3>2. <<e>> \in Texts /\ q \in Texts /\ Append(q, e) \in Seq(Atoms)
      BY DEF Texts
    <3> QED
      BY <3>1, <3>2
  <2>2. Put(q \o <<e>>, f, v) = Put(q, f, v) \o Put(<<e>>, f, v)
    <3> DEFINE o == <<e>>
    <3>1. o \in Texts /\ q \in Texts
      BY <2>1
    <3> HIDE DEF o
    <3>2. Put(q \o o, f, v) = Put(q, f, v) \o Put(o, f, v)
      BY <3>1, PutConcat
    <3> QED
      BY <3>2 DEF o
  <2>3. Put(<<e>>, f, v) = IF e = f THEN v ELSE <<e>>
    BY PutOne
  <2>4. ASSUME Free(Append(q, e)) PROVE Put(Append(q, e), f, v) = Append(q, e)
    <3>1. /\ Len(q) \in Nat /\ Len(Append(q, e)) = Len(q) + 1
          /\ Append(q, e)[Len(q) + 1] = e
          /\ \A i \in 1..Len(q) : Append(q, e)[i] = q[i]
      BY AppendProperties
    <3>2. e # f
      <4>1. Len(q) + 1 \in 1..Len(Append(q, e))
        BY <3>1
      <4> QED
        BY <2>4, <3>1, <4>1
    <3>3. Free(q)
      <4>1. \A i \in 1..Len(q) : i \in 1..Len(Append(q, e))
        BY <3>1
      <4> QED
        BY <2>4, <3>1, <4>1
    <3>4. Put(q, f, v) = q
      <4> HIDE DEF Free
      <4> QED
        BY <1>2, <3>3
    <3>5. Put(<<e>>, f, v) = <<e>>
      BY <2>3, <3>2
    <3> QED
      BY <2>1, <2>2, <3>4, <3>5, Zenon
  <2> HIDE DEF Free
  <2> QED
    BY <2>1, <2>4
<1>3. t \in P
  <2>1. t \in Seq(Atoms)
    BY DEF Texts
  <2>2. \A q \in Seq(Atoms), e \in Atoms : q \in P => Append(q, e) \in P
    BY <1>2
  <2> HIDE DEF P
  <2> QED
    BY <1>1, <2>1, <2>2, ByAppending
<1>4. Free(t)
  OBVIOUS
<1> HIDE DEF Free
<1> QED
  BY <1>3, <1>4

\* Putting a value into texts put together.
PutEach(q, f, v) == [i \in 1..Len(q) |-> Put(q[i], f, v)]

LEMMA PutEachTyped ==
  ASSUME NEW q \in Seq(Texts), NEW f, NEW v \in Texts
  PROVE  /\ PutEach(q, f, v) \in Seq(Texts) /\ Len(PutEach(q, f, v)) = Len(q)
         /\ \A i \in 1..Len(q) : PutEach(q, f, v)[i] = Put(q[i], f, v)
<1>1. Len(q) \in Nat /\ \A i \in 1..Len(q) : q[i] \in Texts
  OBVIOUS
<1>2. \A i \in 1..Len(q) : Put(q[i], f, v) \in Texts
  BY <1>1, PutTyped
<1>3. PutEach(q, f, v) \in [1..Len(q) -> Texts]
  BY <1>2 DEF PutEach
<1>4. PutEach(q, f, v) \in Seq(Texts)
  BY <1>1, <1>3, SeqDef
<1>5. DOMAIN PutEach(q, f, v) = 1..Len(q)
  BY DEF PutEach
<1>6. Len(PutEach(q, f, v)) = Len(q)
  BY <1>1, <1>4, <1>5, LenProperties
<1> QED
  BY <1>4, <1>6 DEF PutEach

LEMMA PutEachAppend ==
  ASSUME NEW q \in Seq(Texts), NEW e \in Texts, NEW f, NEW v \in Texts
  PROVE  PutEach(Append(q, e), f, v) = Append(PutEach(q, f, v), Put(e, f, v))
<1> DEFINE r == Append(q, e)
           a == PutEach(r, f, v)
           p == PutEach(q, f, v)
           x == Put(e, f, v)
           b == Append(p, x)
           n == Len(q)
<1>1. /\ r \in Seq(Texts) /\ Len(r) = n + 1 /\ n \in Nat
      /\ \A i \in 1..n : r[i] = q[i]
      /\ r[n + 1] = e
  BY AppendProperties
<1> HIDE DEF r
<1>2. /\ a \in Seq(Texts) /\ Len(a) = Len(r)
      /\ \A i \in 1..Len(r) : a[i] = Put(r[i], f, v)
  BY <1>1, PutEachTyped
<1>3. /\ p \in Seq(Texts) /\ Len(p) = n
      /\ \A i \in 1..n : p[i] = Put(q[i], f, v)
  BY PutEachTyped
<1>4. x \in Texts
  BY PutTyped
<1> HIDE DEF a, p, x
<1>5. /\ b \in Seq(Texts) /\ Len(b) = Len(p) + 1
      /\ \A i \in 1..Len(p) : b[i] = p[i]
      /\ b[Len(p) + 1] = x
  BY <1>3, <1>4, AppendProperties
<1> HIDE DEF b
<1>6. ASSUME NEW i \in 1..Len(a) PROVE a[i] = b[i]
  <2>1. i \in 1..Len(r) /\ (i = n + 1 \/ i \in 1..n)
    BY <1>1, <1>2
  <2>2. CASE i = n + 1
    <3>1. a[i] = Put(e, f, v)
      BY <1>1, <1>2, <2>1, <2>2
    <3> QED
      BY <1>3, <1>5, <2>2, <3>1 DEF x
  <2>3. CASE i \in 1..n
    <3>1. a[i] = Put(q[i], f, v)
      BY <1>1, <1>2, <2>1, <2>3
    <3> QED
      BY <1>3, <1>5, <2>3, <3>1
  <2> QED
    BY <2>1, <2>2, <2>3
<1>7. Len(a) = Len(b)
  BY <1>1, <1>2, <1>3, <1>5
<1>8. a = b
  BY <1>2, <1>5, <1>6, <1>7, SeqEqual
<1> QED
  BY <1>8 DEF a, b, p, x, r

LEMMA PutFlatten ==
  ASSUME NEW q \in Seq(Texts), NEW f, NEW v \in Texts
  PROVE  Put(FlattenSeq(q), f, v) = FlattenSeq(PutEach(q, f, v))
<1> DEFINE P == {r \in Seq(Texts) : Put(FlattenSeq(r), f, v) = FlattenSeq(PutEach(r, f, v))}
<1>1. <<>> \in P
  <2>1. <<>> \in Seq(Texts)
    OBVIOUS
  <2>2. PutEach(<<>>, f, v) = <<>>
    <3>1. PutEach(<<>>, f, v) \in Seq(Texts) /\ Len(PutEach(<<>>, f, v)) = 0
      BY <2>1, PutEachTyped
    <3> QED
      BY <3>1
  <2>3. Put(FlattenSeq(<<>>), f, v) = FlattenSeq(PutEach(<<>>, f, v))
    BY <2>2, FlattenNone, PutNone, Zenon
  <2> QED
    BY <2>1, <2>3
<1>2. ASSUME NEW r \in Seq(Texts), NEW e \in Texts, r \in P PROVE Append(r, e) \in P
  <2>1. FlattenSeq(r) \in Texts /\ PutEach(r, f, v) \in Seq(Texts) /\ Put(e, f, v) \in Texts
    BY FlattenTyped, PutEachTyped, PutTyped DEF Texts
  <2>2. FlattenSeq(Append(r, e)) = FlattenSeq(r) \o e
    BY FlattenAppend DEF Texts
  <2>3. Put(FlattenSeq(r) \o e, f, v) = Put(FlattenSeq(r), f, v) \o Put(e, f, v)
    BY <2>1, PutConcat
  <2>4. PutEach(Append(r, e), f, v) = Append(PutEach(r, f, v), Put(e, f, v))
    BY PutEachAppend
  <2>5. FlattenSeq(Append(PutEach(r, f, v), Put(e, f, v)))
          = FlattenSeq(PutEach(r, f, v)) \o Put(e, f, v)
    BY <2>1, FlattenAppend DEF Texts
  <2>6. Put(FlattenSeq(r), f, v) = FlattenSeq(PutEach(r, f, v))
    BY <1>2
  <2>7. Put(FlattenSeq(Append(r, e)), f, v) = FlattenSeq(PutEach(Append(r, e), f, v))
    BY <2>2, <2>3, <2>4, <2>5, <2>6, Zenon
  <2>8. Append(r, e) \in Seq(Texts)
    OBVIOUS
  <2> QED
    BY <2>7, <2>8
<1>3. \A r \in Seq(Texts), e \in Texts : r \in P => Append(r, e) \in P
  BY <1>2
<1>4. q \in P
  <2> HIDE DEF P
  <2> QED
    BY <1>1, <1>3, ByAppending
<1> QED
  BY <1>4

-----------------------------------------------------------------------------
(* What Restore makes of a text that copies units of the payload.             *)

Restores(st, tab, order, s) ==
  /\ st \in [0..Len(tab) -> Texts] /\ st[0] = s
  /\ \A i \in 1..Len(tab) : st[i] = Put(st[i - 1], Token(order[i]), tab[order[i]])
  /\ Restore(tab, order, s) = st[Len(tab)]

LEMMA RestoreRuns ==
  ASSUME NEW tab \in Seq(Texts), NEW order \in Orders(tab), NEW s \in Texts
  PROVE  \E st : Restores(st, tab, order, s)
<1> DEFINE n == Len(tab)
           Step(k, b) ==
             FlattenSeq([i \in 1..Len(b) |-> IF b[i] = Token(k) THEN tab[k] ELSE <<b[i]>>])
           step == [c \in Texts \X (1..n) |-> Put(c[1], Token(order[c[2]]), tab[order[c[2]]])]
           Folding(F) ==
             F = [S \in SUBSET (DOMAIN order) |->
                   IF S = {} THEN s ELSE Step(order[Max(S)], F[S \ {Max(S)}])]
           it == CHOOSE F : Folding(F)
<1>1. Restore(tab, order, s) = it[DOMAIN order]
  BY DEF Restore, FoldLeft, MapThenFoldSet
<1>2. n \in Nat /\ order \in [1..n -> 1..n] /\ DOMAIN order = 1..n
      /\ \A i \in 1..n : order[i] \in 1..n /\ tab[order[i]] \in Texts
  <2>1. n \in Nat /\ order \in [1..n -> 1..n] /\ \A i \in 1..n : tab[i] \in Texts
    BY DEF Orders
  <2> HIDE DEF n
  <2> QED
    BY <2>1
<1>3. ASSUME NEW k, NEW b PROVE Step(k, b) = Put(b, Token(k), tab[k])
  BY DEF Put, Pieces
<1> HIDE DEF Step, n
<1>4. Steps(step, n, Texts)
  <2>1. \A c \in Texts \X (1..n) : Put(c[1], Token(order[c[2]]), tab[order[c[2]]]) \in Texts
    <3>1. TAKE c \in Texts \X (1..n)
    <3>2. c[1] \in Texts /\ tab[order[c[2]]] \in Texts
      BY <1>2
    <3> QED
      BY <3>2, PutTyped
  <2> QED
    BY <2>1 DEF Steps
<1>5. PICK G \in [SUBSET (1..n) -> Texts] : Folds(G, n, s, step)
  <2> HIDE DEF step
  <2> QED
    BY <1>2, <1>4, FoldExists
<1>6. ASSUME NEW S \in SUBSET (1..n), S # {}
      PROVE  Max(S) \in 1..n /\ S \ {Max(S)} \in SUBSET (1..n)
  <2>1. S \in SUBSET (0..n)
    BY <1>2, <1>6
  <2> QED
    BY <1>2, <1>6, <2>1, MaxOf
<1>7. ASSUME NEW b \in Texts, NEW i \in 1..n
      PROVE  /\ step[<<b, i>>] = Put(b, Token(order[i]), tab[order[i]])
             /\ step[<<b, i>>] = Step(order[i], b)
  <2>1. <<b, i>> \in Texts \X (1..n)
    OBVIOUS
  <2>2. step[<<b, i>>] = Put(b, Token(order[i]), tab[order[i]])
    BY <2>1
  <2> HIDE DEF step
  <2> QED
    BY <1>3, <2>2, Zenon
<1> HIDE DEF step
<1>8. Folding(G)
  <2>1. ASSUME NEW S \in SUBSET (1..n)
        PROVE  G[S] = IF S = {} THEN s ELSE Step(order[Max(S)], G[S \ {Max(S)}])
    <3>1. G[S] = IF S = {} THEN s ELSE step[<<G[S \ {Max(S)}], Max(S)>>]
      BY <1>5 DEF Folds
    <3> QED
      BY <1>6, <1>7, <3>1
  <2>2. G = [S \in SUBSET (1..n) |-> G[S]]
    OBVIOUS
  <2> QED
    BY <1>2, <2>1, <2>2
<1>9. Folding(it)
  <2> HIDE DEF Folding
  <2> QED
    BY <1>8
<1> HIDE DEF it
<1>10. Follows(it, n, Texts, s, step)
  <2>1. it[{}] = s
    BY <1>9
  <2>2. ASSUME NEW S \in SUBSET (1..n), S # {}, it[S \ {Max(S)}] \in Texts
        PROVE  it[S] = step[<<it[S \ {Max(S)}], Max(S)>>]
    <3>1. it[S] = Step(order[Max(S)], it[S \ {Max(S)}])
      BY <1>2, <1>9, <2>2
    <3> HIDE DEF Folding
    <3> QED
      BY <1>6, <1>7, <2>2, <3>1
  <2> HIDE DEF Folding
  <2> QED
    BY <2>1, <2>2 DEF Follows
<1> HIDE DEF Folding
<1>11. \E st : Runs(st, n, Texts, s, step) /\ it[1..n] = st[n]
  <2>1. n \in Nat /\ Steps(step, n, Texts)
    BY <1>2, <1>4
  <2> QED
    BY <1>10, <2>1, FoldRuns
<1>12. PICK st : Runs(st, n, Texts, s, step) /\ it[1..n] = st[n]
  BY <1>11
<1>13. /\ st \in [0..n -> Texts] /\ st[0] = s
       /\ \A i \in 1..n : st[i] = step[<<st[i - 1], i>>]
  BY <1>12 DEF Runs
<1>14. ASSUME NEW i \in 1..n PROVE st[i] = Put(st[i - 1], Token(order[i]), tab[order[i]])
  <2>1. i - 1 \in 0..n
    BY <1>2
  <2>2. st[i - 1] \in Texts
    BY <1>13, <2>1
  <2> QED
    BY <1>7, <1>13, <2>2
<1>15. Restore(tab, order, s) = st[n]
  BY <1>1, <1>2, <1>12
<1> QED
  BY <1>13, <1>14, <1>15 DEF Restores, n

\* After the first k values of the order: the placeholders for them are gone.
Half(x, us, order, k) ==
  [i \in 1..Len(x) |-> IF \E l \in 1..k : x[i] = Token(order[l]) THEN us[i] ELSE <<x[i]>>]

LEMMA HalfTyped ==
  ASSUME NEW x \in Texts, NEW us \in Seq(Texts), Len(us) = Len(x), NEW order, NEW k
  PROVE  /\ Half(x, us, order, k) \in Seq(Texts) /\ Len(Half(x, us, order, k)) = Len(x)
         /\ \A i \in 1..Len(x) : Half(x, us, order, k)[i]
              = IF \E l \in 1..k : x[i] = Token(order[l]) THEN us[i] ELSE <<x[i]>>
<1>1. Len(x) \in Nat /\ \A i \in 1..Len(x) : x[i] \in Atoms
  BY DEF Texts
<1>2. \A i \in 1..Len(x) : us[i] \in Texts /\ <<x[i]>> \in Texts
  <2>1. TAKE i \in 1..Len(x)
  <2>2. x[i] \in Atoms
    BY <1>1
  <2>3. <<x[i]>> \in Texts
    BY <2>2 DEF Texts
  <2>4. us[i] \in Texts
    OBVIOUS
  <2> QED
    BY <2>3, <2>4
<1>3. Half(x, us, order, k) \in [1..Len(x) -> Texts]
  BY <1>2 DEF Half
<1>4. Half(x, us, order, k) \in Seq(Texts)
  BY <1>1, <1>3, SeqDef
<1>5. DOMAIN Half(x, us, order, k) = 1..Len(x)
  BY DEF Half
<1>6. Len(Half(x, us, order, k)) = Len(x)
  BY <1>1, <1>4, <1>5, LenProperties
<1> QED
  BY <1>4, <1>6 DEF Half

\* A text is made of its fragments.
LEMMA FlattenFragments ==
  ASSUME NEW x \in Texts, NEW q \in Seq(Texts), Len(q) = Len(x),
         \A i \in 1..Len(x) : q[i] = <<x[i]>>
  PROVE  FlattenSeq(q) = x
<1> DEFINE none == [kind |-> "none", n |-> 0]
<1>1. \A i \in 1..Len(x) : x[i] # none
  <2>1. TAKE i \in 1..Len(x)
  <2>2. x[i] \in Atoms
    BY DEF Texts
  <2>3. x[i].kind # "none"
    BY <2>2 DEF Atoms
  <2> QED
    BY <2>3
<1> HIDE DEF none
<1>2. Put(x, none, x) = x
  BY <1>1, PutNowhere
<1>3. /\ Pieces(x, none, x) \in Seq(Texts) /\ Len(Pieces(x, none, x)) = Len(x)
      /\ \A i \in 1..Len(x) : Pieces(x, none, x)[i] = IF x[i] = none THEN x ELSE <<x[i]>>
  BY PiecesTyped
<1>4. Pieces(x, none, x) = q
  <2> DEFINE p == Pieces(x, none, x)
  <2>1. p \in Seq(Texts) /\ Len(p) = Len(q) /\ \A i \in 1..Len(p) : p[i] = q[i]
    BY <1>1, <1>3
  <2> HIDE DEF p
  <2>2. p = q
    BY <2>1, SeqEqual
  <2> QED
    BY <2>2 DEF p
<1> QED
  BY <1>2, <1>4 DEF Put

LEMMA HalfOn ==
  ASSUME NEW tab \in Seq(Texts), NEW order \in Orders(tab), NEW x \in Texts,
         NEW us \in Seq(Texts), SaysAll(tab, x, us), \A i \in 1..Len(us) : Tokenless(us[i]),
         NEW k \in 1..Len(tab)
  PROVE  PutEach(Half(x, us, order, k - 1), Token(order[k]), tab[order[k]]) = Half(x, us, order, k)
<1> DEFINE f == Token(order[k])
           v == tab[order[k]]
           h == Half(x, us, order, k - 1)
           g == Half(x, us, order, k)
           e == PutEach(h, f, v)
<1>1. Len(us) = Len(x) /\ Len(x) \in Nat /\ Len(tab) \in Nat
  BY DEF SaysAll, Texts
<1>2. order[k] \in 1..Len(tab) /\ v \in Texts
  BY DEF Orders
<1>3. /\ h \in Seq(Texts) /\ Len(h) = Len(x)
      /\ \A i \in 1..Len(x) :
           h[i] = IF \E l \in 1..(k - 1) : x[i] = Token(order[l]) THEN us[i] ELSE <<x[i]>>
      /\ g \in Seq(Texts) /\ Len(g) = Len(x)
      /\ \A i \in 1..Len(x) :
           g[i] = IF \E l \in 1..k : x[i] = Token(order[l]) THEN us[i] ELSE <<x[i]>>
  BY <1>1, HalfTyped
<1> HIDE DEF v, h, g
<1>4. /\ e \in Seq(Texts) /\ Len(e) = Len(h)
      /\ \A i \in 1..Len(h) : e[i] = Put(h[i], f, v)
  BY <1>2, <1>3, PutEachTyped
<1> HIDE DEF e
<1>5. \A l \in 1..k : l = k \/ l \in 1..(k - 1)
  BY <1>1
<1>6. \A l \in 1..(k - 1) : l \in 1..k
  BY <1>1
<1>7. ASSUME NEW i \in 1..Len(x) PROVE e[i] = g[i]
  <2>1. e[i] = Put(h[i], f, v)
    BY <1>3, <1>4
  <2>2. us[i] \in Texts /\ Tokenless(us[i]) /\ Says(tab, x[i], us[i]) /\ x[i] \in Atoms
    BY <1>1 DEF SaysAll, Texts
  <2>3. CASE \E l \in 1..(k - 1) : x[i] = Token(order[l])
    <3>1. h[i] = us[i] /\ g[i] = us[i]
      BY <1>3, <1>6, <2>3
    <3>2. \A j \in 1..Len(us[i]) : us[i][j] # f
      <4>1. f.kind = "token"
        BY DEF Token
      <4> QED
        BY <2>2, <4>1 DEF Tokenless
    <3> HIDE DEF f
    <3>3. Put(us[i], f, v) = us[i]
      BY <1>2, <2>2, <3>2, PutNowhere
    <3> QED
      BY <2>1, <3>1, <3>3
  <2>4. CASE ~ (\E l \in 1..(k - 1) : x[i] = Token(order[l])) /\ x[i] = f
    <3>1. h[i] = <<x[i]>>
      BY <1>3, <2>4
    <3>2. g[i] = us[i]
      <4>1. k \in 1..k
        BY <1>1
      <4> QED
        BY <1>3, <2>4, <4>1
    <3>3. us[i] = v
      <4>1. Shown(tab, x[i], us[i])
        BY <2>2, <2>4 DEF Says, Token
      <4>2. PICK m \in 1..Len(tab) : x[i] = Token(m) /\ tab[m] = us[i]
        BY <4>1 DEF Shown
      <4>3. m = order[k]
        BY <2>4, <4>2 DEF Token
      <4> QED
        BY <4>2, <4>3 DEF v
    <3> HIDE DEF f
    <3>4. Put(<<x[i]>>, f, v) = v
      BY <1>2, <2>2, <2>4, PutOne
    <3> QED
      BY <2>1, <3>1, <3>2, <3>3, <3>4
  <2>5. CASE ~ (\E l \in 1..(k - 1) : x[i] = Token(order[l])) /\ x[i] # f
    <3>1. h[i] = <<x[i]>> /\ g[i] = <<x[i]>>
      <4>1. ~ \E l \in 1..k : x[i] = Token(order[l])
        BY <1>5, <2>5
      <4> HIDE DEF f
      <4> QED
        BY <1>3, <2>5, <4>1
    <3> HIDE DEF f
    <3>2. Put(<<x[i]>>, f, v) = <<x[i]>>
      BY <1>2, <2>2, <2>5, PutOne
    <3> QED
      BY <2>1, <3>1, <3>2
  <2> QED
    BY <2>3, <2>4, <2>5
<1>8. e = g
  <2>1. Len(e) = Len(g) /\ \A i \in 1..Len(e) : e[i] = g[i]
    BY <1>3, <1>4, <1>7
  <2> QED
    BY <1>3, <1>4, <2>1, SeqEqual
<1> QED
  BY <1>8 DEF e, g, h, v

LEMMA RestoreMeans ==
  ASSUME NEW tab \in Seq(Texts), NEW order \in Orders(tab), NEW x \in Texts,
         NEW us \in Seq(Texts), SaysAll(tab, x, us), \A i \in 1..Len(us) : Tokenless(us[i])
  PROVE  Restore(tab, order, x) = FlattenSeq(us)
<1> DEFINE n == Len(tab)
<1>1. Len(us) = Len(x) /\ Len(x) \in Nat /\ n \in Nat /\ order \in [1..n -> 1..n] /\ IsInjective(order)
  BY DEF SaysAll, Texts, Orders
<1>2. PICK st : Restores(st, tab, order, x)
  BY RestoreRuns
<1>3. ASSUME NEW k
      PROVE  /\ Half(x, us, order, k) \in Seq(Texts) /\ Len(Half(x, us, order, k)) = Len(x)
             /\ \A i \in 1..Len(x) : Half(x, us, order, k)[i]
                  = IF \E l \in 1..k : x[i] = Token(order[l]) THEN us[i] ELSE <<x[i]>>
  <2>1. Len(us) = Len(x)
    BY <1>1
  <2> QED
    BY <2>1, HalfTyped
<1>4. \A k \in 0..n : st[k] = FlattenSeq(Half(x, us, order, k))
  <2> DEFINE P == {k \in 0..n : st[k] = FlattenSeq(Half(x, us, order, k))}
  <2>1. 0 \in P
    <3>1. \A i \in 1..Len(x) : Half(x, us, order, 0)[i] = <<x[i]>>
      <4>1. \A i : ~ \E l \in 1..0 : x[i] = Token(order[l])
        OBVIOUS
      <4> QED
        BY <1>3, <4>1
    <3>2. FlattenSeq(Half(x, us, order, 0)) = x
      BY <1>3, <3>1, FlattenFragments
    <3> QED
      BY <1>1, <1>2, <3>2 DEF Restores
  <2>2. ASSUME NEW k \in 1..n, k - 1 \in P PROVE k \in P
    <3>1. st[k] = Put(st[k - 1], Token(order[k]), tab[order[k]])
      BY <1>2 DEF Restores
    <3>2. st[k - 1] = FlattenSeq(Half(x, us, order, k - 1))
      BY <2>2
    <3>3. tab[order[k]] \in Texts
      BY <1>1
    <3>4. Put(FlattenSeq(Half(x, us, order, k - 1)), Token(order[k]), tab[order[k]])
            = FlattenSeq(PutEach(Half(x, us, order, k - 1), Token(order[k]), tab[order[k]]))
      BY <1>3, <3>3, PutFlatten
    <3>5. PutEach(Half(x, us, order, k - 1), Token(order[k]), tab[order[k]]) = Half(x, us, order, k)
      BY HalfOn
    <3>6. st[k] = FlattenSeq(Half(x, us, order, k))
      BY <3>1, <3>2, <3>4, <3>5, Zenon
    <3> QED
      BY <3>6
  <2> HIDE DEF P, n
  <2>3. \A k \in 0..n : k \in P
    BY <1>1, <2>1, <2>2, UpTo
  <2> QED
    BY <2>3 DEF P
<1>5. Half(x, us, order, n) = us
  <2>1. ASSUME NEW m \in 1..n PROVE \E l \in 1..n : order[l] = m
    <3>1. IsFiniteSet(1..n)
      BY <1>1, FS_Interval
    <3>2. order \in Injection(1..n, 1..n)
      BY <1>1 DEF Injection
    <3>3. order \in Surjection(1..n, 1..n)
      BY <3>1, <3>2, FS_Injection
    <3> QED
      BY <3>3 DEF Surjection
  <2>2. ASSUME NEW i \in 1..Len(x) PROVE Half(x, us, order, n)[i] = us[i]
    <3>1. Says(tab, x[i], us[i])
      BY DEF SaysAll
    <3>2. CASE Shown(tab, x[i], us[i])
      <4>1. PICK m \in 1..n : x[i] = Token(m) /\ tab[m] = us[i]
        BY <3>2 DEF Shown
      <4>2. \E l \in 1..n : x[i] = Token(order[l])
        BY <2>1, <4>1
      <4> QED
        BY <1>3, <4>2
    <3>3. CASE ~Shown(tab, x[i], us[i])
      <4>1. us[i] = <<x[i]>>
        BY <3>1, <3>3 DEF Says
      <4> QED
        BY <1>3, <4>1
    <3> QED
      BY <3>2, <3>3
  <2> DEFINE h == Half(x, us, order, n)
  <2>3. h \in Seq(Texts) /\ Len(h) = Len(us) /\ \A i \in 1..Len(h) : h[i] = us[i]
    BY <1>1, <1>3, <2>2
  <2> HIDE DEF h
  <2>4. h = us
    BY <2>3, SeqEqual
  <2> QED
    BY <2>4 DEF h
<1>6. n \in 0..n /\ Restore(tab, order, x) = st[n]
  BY <1>1, <1>2 DEF Restores
<1> QED
  BY <1>4, <1>5, <1>6

LEMMA RestoreTyped ==
  ASSUME NEW tab \in Seq(Texts), NEW order \in Orders(tab), NEW s \in Texts
  PROVE  Restore(tab, order, s) \in Texts
<1>1. PICK st : Restores(st, tab, order, s)
  BY RestoreRuns
<1>2. Len(tab) \in 0..Len(tab)
  OBVIOUS
<1> QED
  BY <1>1, <1>2 DEF Restores

-----------------------------------------------------------------------------
(* The units of a payload are texts without placeholders.                     *)

LEMMA UnitsTyped ==
  ASSUME NEW s \in Texts
  PROVE  /\ Units(s) \in Seq(Texts)
         /\ Tokenless(s) => \A n \in 1..Len(Units(s)) : Tokenless(Units(s)[n])
<1>1. <<>> \in Seq(Texts)
  OBVIOUS
<1>2. Begun(<<>>, s) \in Redactions
  BY <1>1, RedactIs
<1>3. Begun(<<>>, s).text = s
  BY DEF Begun
<1>4. PICK z \in Redactions : Cut(s, z, Len(s))
  BY <1>2, <1>3, ReplaceIs
<1>5. s \in Seq(Atoms) /\ Len(s) \in Nat
  BY DEF Texts
<1>6. ASSUME NEW j \in Starts(s)
      PROVE  UnitFrom(s, j) \in Texts /\ (Tokenless(s) => Tokenless(UnitFrom(s, j)))
  <2>1. j \in 1..Len(s)
    BY DEF Starts
  <2>2. CASE IsArn(s, j)
    <3>1. RunEnd(s, j) \in (j + 2)..Len(s)
      BY <2>1, <2>2, ArnIs
    <3>2. UnitFrom(s, j) = SubSeq(s, j, RunEnd(s, j))
      BY <2>1, <2>2, UnitIs
    <3> DEFINE e == RunEnd(s, j)
    <3>3. /\ j \in Int /\ e \in Int
          /\ \A i \in j..e : i \in 1..Len(s) /\ s[i] \in Atoms
      BY <1>5, <2>1, <3>1
    <3> HIDE DEF e
    <3>4. /\ SubSeq(s, j, e) \in Seq(Atoms)
          /\ Len(SubSeq(s, j, e)) = IF j <= e THEN e - j + 1 ELSE 0
          /\ \A i \in 1..(e - j + 1) : SubSeq(s, j, e)[i] = s[j + i - 1]
      BY <3>3, SubSeqProperties
    <3>5. ASSUME Tokenless(s), NEW i \in 1..Len(SubSeq(s, j, e))
          PROVE  SubSeq(s, j, e)[i].kind # "token"
      <4>1. i \in 1..(e - j + 1) /\ j + i - 1 \in j..e
        BY <3>3, <3>4, <3>5
      <4>2. SubSeq(s, j, e)[i] = s[j + i - 1] /\ j + i - 1 \in 1..Len(s)
        BY <3>3, <3>4, <4>1
      <4> QED
        BY <3>5, <4>2 DEF Tokenless
    <3> QED
      BY <3>2, <3>4, <3>5 DEF e, Tokenless, Texts
  <2>3. CASE ~IsArn(s, j)
    <3>1. UnitFrom(s, j) = <<s[j]>>
      BY <2>1, <2>3, UnitIs
    <3>2. s[j] \in Atoms
      BY <1>5, <2>1
    <3> DEFINE o == <<s[j]>>
    <3>3. o \in Texts /\ Len(o) = 1 /\ o[1] = s[j]
      BY <3>2 DEF Texts
    <3>4. Tokenless(s) => s[j].kind # "token"
      BY <2>1 DEF Tokenless
    <3> HIDE DEF o
    <3>5. Tokenless(s) => Tokenless(o)
      BY <3>3, <3>4 DEF Tokenless
    <3> QED
      BY <3>1, <3>3, <3>5 DEF o
  <2> QED
    BY <2>2, <2>3
<1>7. /\ Len(Units(s)) = Len(z.text) /\ Len(z.text) \in Nat
      /\ \A n \in 1..Len(z.text) :
           StartOf(s, n) \in Starts(s) /\ Units(s)[n] = UnitFrom(s, StartOf(s, n))
  <2>1. z.text \in Seq(Atoms)
    BY DEF Redactions, Texts
  <2>2. Len(z.text) \in Nat
    BY <2>1
  <2> QED
    BY <1>4, <2>2, UnitsCut
<1>8. Units(s) \in [1..Len(z.text) -> Texts]
  <2>1. Units(s) = [n \in 1..Cardinality(Starts(s)) |-> UnitFrom(s, StartOf(s, n))]
    BY DEF Units
  <2>2. Cardinality(Starts(s)) = Len(z.text)
    <3>1. Starts(s) \cap 1..Len(s) = Starts(s)
      BY DEF Starts
    <3> QED
      BY <1>4, <3>1 DEF Cut, Started
  <2>3. \A n \in 1..Len(z.text) : UnitFrom(s, StartOf(s, n)) \in Texts
    BY <1>6, <1>7
  <2> QED
    BY <2>1, <2>2, <2>3
<1>9. Units(s) \in Seq(Texts)
  BY <1>7, <1>8, SeqDef
<1>10. Tokenless(s) => \A n \in 1..Len(Units(s)) : Tokenless(Units(s)[n])
  BY <1>6, <1>7
<1> QED
  BY <1>9, <1>10

-----------------------------------------------------------------------------
(* The payload as JSON writes it has the same units, but for single           *)
(* fragments behind a break.                                                  *)

Unglued(s) == \A i \in 1..Len(s) : s[i].kind \notin GluedKinds

LEMMA EncodedIs ==
  ASSUME NEW s \in Texts, Unglued(s)
  PROVE  /\ Encoded(s) \in Texts /\ Len(Encoded(s)) = Len(s)
         /\ Tokenless(s) => Tokenless(Encoded(s))
         /\ \A i \in 1..Len(s) :
              /\ Copy(Encoded(s)[i]) = s[i]
              /\ Encoded(s)[i] = s[i]
                   \/ /\ i > 1 /\ s[i - 1] = Break /\ Encoded(s)[i] = Glued(s[i])
                      /\ s[i].kind \in {"id", "ip"} /\ Encoded(s)[i].kind \in GluedKinds
<1> DEFINE e == Encoded(s)
<1>1. s \in Seq(Atoms) /\ Len(s) \in Nat
  BY DEF Texts
<1>2. ASSUME NEW a \in Atoms PROVE Glued(a) \in Atoms /\ Glued(a).kind \in GluedKinds
  BY DEF Glued, Atoms, GluedKinds
<1>3. ASSUME NEW a \in Atoms, a.kind \in {"id", "ip"} PROVE Copy(Glued(a)) = a
  BY <1>3 DEF Glued, Copy, Atoms
<1>4. ASSUME NEW i \in 1..Len(s)
      PROVE  /\ e[i] \in Atoms /\ Copy(e[i]) = s[i]
             /\ e[i] = s[i]
                  \/ /\ i > 1 /\ s[i - 1] = Break /\ e[i] = Glued(s[i])
                     /\ s[i].kind \in {"id", "ip"} /\ e[i].kind \in GluedKinds
  <2>1. s[i] \in Atoms /\ s[i].kind \notin GluedKinds
    BY <1>1 DEF Unglued
  <2>2. e[i] = IF i > 1 /\ s[i - 1] = Break /\ s[i].kind \in {"id", "ip"} THEN Glued(s[i]) ELSE s[i]
    BY DEF Encoded
  <2>3. CASE i > 1 /\ s[i - 1] = Break /\ s[i].kind \in {"id", "ip"}
    BY <1>2, <1>3, <2>1, <2>2, <2>3
  <2>4. CASE ~(i > 1 /\ s[i - 1] = Break /\ s[i].kind \in {"id", "ip"})
    <3>1. e[i] = s[i]
      BY <2>2, <2>4
    <3>2. Copy(s[i]) = s[i]
      BY <2>1 DEF Copy, GluedKinds
    <3> QED
      BY <2>1, <3>1, <3>2
  <2> QED
    BY <2>3, <2>4
<1>5. e \in [1..Len(s) -> Atoms] /\ DOMAIN e = 1..Len(s)
  BY <1>4 DEF Encoded
<1> HIDE DEF e
<1>6. e \in Seq(Atoms)
  BY <1>1, <1>5, SeqDef
<1>7. Len(e) = Len(s)
  BY <1>1, <1>5, <1>6, LenProperties
<1>8. Tokenless(s) => Tokenless(e)
  <2>1. ASSUME Tokenless(s), NEW i \in 1..Len(s) PROVE e[i].kind # "token"
    BY <1>4, <2>1 DEF Tokenless, GluedKinds
  <2> QED
    BY <1>7, <2>1 DEF Tokenless
<1> QED
  BY <1>4, <1>6, <1>7, <1>8 DEF e, Texts

LEMMA UnitsStart ==
  ASSUME NEW s \in Texts
  PROVE  /\ Len(Units(s)) \in Nat
         /\ \A n \in 1..Len(Units(s)) :
              StartOf(s, n) \in Starts(s) /\ Units(s)[n] = UnitFrom(s, StartOf(s, n))
<1>1. <<>> \in Seq(Texts)
  OBVIOUS
<1>2. Begun(<<>>, s) \in Redactions
  BY <1>1, RedactIs
<1>3. Begun(<<>>, s).text = s
  BY DEF Begun
<1>4. PICK z \in Redactions : Cut(s, z, Len(s))
  BY <1>2, <1>3, ReplaceIs
<1>5. z.text \in Seq(Atoms)
  BY DEF Redactions, Texts
<1>6. Len(z.text) \in Nat
  BY <1>5
<1> QED
  BY <1>4, <1>6, UnitsCut

LEMMA SameUnits ==
  ASSUME NEW s \in Texts, Unglued(s)
  PROVE  /\ Len(Units(Encoded(s))) = Len(Units(s))
         /\ \A n \in 1..Len(Units(s)) : \E i \in 1..Len(s) :
              \/ Len(Units(s)[n]) > 1 /\ Units(Encoded(s))[n] = Units(s)[n]
              \/ Units(s)[n] = <<s[i]>> /\ Units(Encoded(s))[n] = <<Encoded(s)[i]>>
<1> DEFINE e == Encoded(s)
<1>1. /\ e \in Texts /\ Len(e) = Len(s)
      /\ \A i \in 1..Len(s) : e[i] = s[i]
           \/ /\ i > 1 /\ s[i - 1] = Break /\ s[i].kind \in {"id", "ip"} /\ e[i].kind \in GluedKinds
  BY EncodedIs
<1>2. Len(s) \in Nat /\ s \in Seq(Atoms) /\ e \in Seq(Atoms)
  BY <1>1 DEF Texts
<1> HIDE DEF e
<1>3. \A i \in 1..Len(s) : (e[i].kind = "sep" <=> s[i].kind = "sep")
                        /\ (e[i].kind = "arn" <=> s[i].kind = "arn")
  BY <1>1 DEF GluedKinds
<1>4. \A i \in 1..Len(s) : i > 1 /\ s[i - 1].kind # "sep" => e[i] = s[i]
  <2>1. Break.kind = "sep"
    BY DEF Break
  <2> QED
    BY <1>1, <2>1
<1>5. ASSUME NEW i \in 1..Len(s) PROVE IsArn(e, i) <=> IsArn(s, i)
  <2>1. CASE i + 2 <= Len(s)
    <3>1. i + 1 \in 1..Len(s) /\ i + 2 \in 1..Len(s) /\ i + 1 > 1 /\ (i + 1) - 1 = i
      BY <1>2, <2>1
    <3>2. s[i].kind = "arn" => e[i + 1] = s[i + 1]
      BY <1>4, <3>1
    <3> QED
      BY <1>1, <1>3, <3>1, <3>2 DEF IsArn
  <2>2. CASE ~(i + 2 <= Len(s))
    BY <1>1, <2>2 DEF IsArn
  <2> QED
    BY <2>1, <2>2
<1>6. ASSUME NEW i \in 1..Len(s), NEW j \in 1..Len(s) PROVE Joined(e, i, j) <=> Joined(s, i, j)
  <2>1. \A k \in i..j : k \in 1..Len(s)
    BY <1>2
  <2> QED
    BY <1>3, <2>1 DEF Joined
<1>7. Starts(e) = Starts(s)
  <2>1. ASSUME NEW i \in 1..Len(s), NEW j \in 1..(i - 1)
        PROVE  IsArn(e, j) /\ Joined(e, j, i) <=> IsArn(s, j) /\ Joined(s, j, i)
    <3>1. j \in 1..Len(s)
      BY <1>2
    <3> QED
      BY <1>5, <1>6, <3>1
  <2> QED
    BY <1>1, <2>1 DEF Starts
<1>8. Len(Units(e)) = Len(Units(s))
  <2>1. /\ Units(e) = [n \in 1..Cardinality(Starts(s)) |-> UnitFrom(e, StartOf(e, n))]
        /\ Units(s) = [n \in 1..Cardinality(Starts(s)) |-> UnitFrom(s, StartOf(s, n))]
    BY <1>7 DEF Units
  <2>2. DOMAIN Units(e) = DOMAIN Units(s)
    BY <2>1
  <2>3. Units(e) \in Seq(Texts) /\ Units(s) \in Seq(Texts)
    BY <1>1, UnitsTyped
  <2>4. DOMAIN Units(e) = 1..Len(Units(e)) /\ DOMAIN Units(s) = 1..Len(Units(s))
        /\ Len(Units(e)) \in Nat /\ Len(Units(s)) \in Nat
    BY <2>3
  <2> DEFINE a == Len(Units(e))
             b == Len(Units(s))
  <2>5. a \in Nat /\ b \in Nat /\ 1..a = 1..b
    BY <2>2, <2>4
  <2> HIDE DEF a, b
  <2>6. a = b
    <3>1. a > 0 => a \in 1..b
      BY <2>5
    <3>2. b > 0 => b \in 1..a
      BY <2>5
    <3> QED
      BY <2>5, <3>1, <3>2
  <2> QED
    BY <2>6 DEF a, b
<1>9. ASSUME NEW n \in 1..Len(Units(s))
      PROVE  \E i \in 1..Len(s) :
               \/ Len(Units(s)[n]) > 1 /\ Units(e)[n] = Units(s)[n]
               \/ Units(s)[n] = <<s[i]>> /\ Units(e)[n] = <<e[i]>>
  <2> DEFINE i == StartOf(s, n)
  <2>1. i \in Starts(s) /\ Units(s)[n] = UnitFrom(s, i)
    BY UnitsStart
  <2>2. StartOf(e, n) = i
    BY <1>7 DEF StartOf
  <2>3. Units(e)[n] = UnitFrom(e, i)
    BY <1>1, <1>8, <2>2, UnitsStart
  <2>4. i \in 1..Len(s) /\ i \in 1..Len(e)
    BY <1>1, <2>1 DEF Starts
  <2> HIDE DEF i
  <2>5. CASE IsArn(s, i)
    <3> DEFINE x == RunEnd(s, i)
               v == SubSeq(s, i, x)
               w == SubSeq(e, i, x)
    <3>1. x \in (i + 2)..Len(s)
      BY <2>4, <2>5, ArnIs
    <3>2. s[i].kind = "arn" /\ s[i].kind # "sep" /\ e[i].kind # "sep" /\ IsArn(e, i)
      BY <1>3, <1>5, <2>4, <2>5 DEF IsArn
    <3>3. /\ x \in i..Len(s)
          /\ \A j \in i..Len(s) : Joined(s, i, j) <=> j <= x
      BY <2>4, <3>2, RunEndIs
    <3>4. RunEnd(e, i) = x
      <4>1. /\ RunEnd(e, i) \in i..Len(s)
            /\ \A j \in i..Len(s) : Joined(e, i, j) <=> j <= RunEnd(e, i)
        BY <1>1, <2>4, <3>2, RunEndIs
      <4>2. \A j \in i..Len(s) : j \in 1..Len(s)
        BY <1>2, <2>4
      <4>3. \A j \in i..Len(s) : j <= x <=> j <= RunEnd(e, i)
        BY <1>6, <2>4, <3>3, <4>1, <4>2
      <4> HIDE DEF x
      <4>4. x <= RunEnd(e, i) /\ RunEnd(e, i) <= x
        BY <1>2, <3>3, <4>1, <4>3
      <4> QED
        BY <1>2, <2>4, <3>3, <4>1, <4>4
    <3>5. Joined(s, i, x)
      BY <1>2, <2>4, <3>3
    <3> HIDE DEF x
    <3>6. \A k \in i..x : e[k] = s[k]
      <4>1. TAKE k \in i..x
      <4>2. CASE k = i
        <5>1. s[i].kind \notin {"id", "ip"}
          BY <3>2
        <5> QED
          BY <1>1, <2>4, <4>2, <5>1
      <4>3. CASE k > i
        <5>1. k - 1 \in i..x /\ k \in 1..Len(s) /\ k > 1
          BY <1>2, <2>4, <3>1, <4>3
        <5> QED
          BY <1>4, <3>5, <5>1 DEF Joined
      <4> QED
        BY <2>4, <3>1, <4>2, <4>3
    <3>7. i \in Int /\ x \in Int /\ \A k \in i..x : k \in 1..Len(s) /\ s[k] \in Atoms /\ e[k] \in Atoms
      BY <1>1, <1>2, <2>4, <3>1
    <3>8. /\ v \in Seq(Atoms) /\ w \in Seq(Atoms)
          /\ Len(v) = (IF i <= x THEN x - i + 1 ELSE 0) /\ Len(w) = (IF i <= x THEN x - i + 1 ELSE 0)
          /\ \A k \in 1..(x - i + 1) : v[k] = s[i + k - 1] /\ w[k] = e[i + k - 1]
      BY <3>7, SubSeqProperties
    <3> HIDE DEF v, w
    <3>9. Len(v) = Len(w) /\ Len(v) > 1 /\ Len(v) = x - i + 1
      BY <1>2, <2>4, <3>1, <3>8
    <3>10. \A k \in 1..Len(v) : v[k] = w[k]
      <4>1. TAKE k \in 1..Len(v)
      <4>2. k \in 1..(x - i + 1) /\ i + k - 1 \in i..x
        BY <3>7, <3>9
      <4> QED
        BY <3>6, <3>8, <4>2
    <3>11. v = w
      BY <3>8, <3>9, <3>10, SeqEqual
    <3>12. UnitFrom(s, i) = v /\ UnitFrom(e, i) = w
      BY <1>1, <2>4, <2>5, <3>2, <3>4, UnitIs DEF v, w, x
    <3> QED
      BY <2>1, <2>3, <2>4, <3>9, <3>11, <3>12
  <2>6. CASE ~IsArn(s, i)
    <3>1. UnitFrom(s, i) = <<s[i]>>
      BY <2>4, <2>6, UnitIs
    <3>2. ~IsArn(e, i)
      BY <1>5, <2>4, <2>6
    <3>3. UnitFrom(e, i) = <<e[i]>>
      BY <1>1, <2>4, <3>2, UnitIs
    <3> QED
      BY <2>1, <2>3, <2>4, <3>1, <3>3
  <2> QED
    BY <2>5, <2>6
<1> QED
  BY <1>8, <1>9 DEF e

\* What a fragment of the prompt says in JSON, its copy says of the payload.
LEMMA CopySays ==
  ASSUME NEW s \in Texts, Unglued(s), Tokenless(s), NEW tab, Values(tab),
         NEW n \in 1..Len(Units(s)), NEW f, Says(tab, f, Units(Encoded(s))[n])
  PROVE  /\ Says(tab, Copy(f), Units(s)[n])
         /\ f.kind \in GluedKinds => \E k \in 2..Len(s) : s[k - 1] = Break /\ f = Glued(s[k])
<1> DEFINE e == Encoded(s)
           u == Units(s)[n]
           w == Units(e)[n]
<1>1. /\ Len(s) \in Nat
      /\ \A i \in 1..Len(s) :
           /\ Copy(e[i]) = s[i] /\ s[i].kind # "token" /\ s[i].kind \notin GluedKinds
           /\ e[i] = s[i]
                \/ /\ i > 1 /\ s[i - 1] = Break /\ e[i] = Glued(s[i])
                   /\ s[i].kind \in {"id", "ip"} /\ e[i].kind \in GluedKinds
  BY EncodedIs DEF Tokenless, Unglued, Texts
<1>2. PICK i \in 1..Len(s) : \/ Len(u) > 1 /\ w = u
                             \/ u = <<s[i]>> /\ w = <<e[i]>>
  BY SameUnits
<1>3. Shown(tab, f, w) \/ (f.kind # "token" /\ w = <<f>>)
  BY DEF Says
<1> HIDE DEF e, u, w
<1>4. CASE Shown(tab, f, w)
  <2>1. PICK m \in 1..Len(tab) : f = Token(m) /\ tab[m] = w
    BY <1>4 DEF Shown
  <2>2. Copy(f) = f /\ f.kind = "token"
    BY <2>1 DEF Copy, Token
  <2>3. w = u
    <3>1. SUFFICES ASSUME u = <<s[i]>>, w = <<e[i]>>, e[i].kind \in GluedKinds PROVE FALSE
      BY <1>1, <1>2
    <3>2. Value(w)
      BY <2>1 DEF Values
    <3>3. Len(w) = 1 /\ w[1] = e[i]
      BY <3>1
    <3>4. e[i].kind \in {"ip", "id"}
      BY <3>2, <3>3 DEF Value
    <3> QED
      BY <3>1, <3>4 DEF GluedKinds
  <2> QED
    BY <1>4, <2>2, <2>3 DEF Says, u, GluedKinds
<1>5. CASE f.kind # "token" /\ w = <<f>>
  <2> DEFINE o == <<f>>
  <2>0. Len(o) = 1 /\ w = o
    BY <1>5
  <2> HIDE DEF o
  <2>1. u = <<s[i]>> /\ w = <<e[i]>>
    <3>1. ASSUME Len(u) > 1, w = u PROVE FALSE
      <4>1. Len(u) = 1
        BY <2>0, <3>1, Zenon
      <4> QED
        BY <3>1, <4>1
    <3> QED
      BY <1>2, <3>1, Zenon
  <2>2. f = e[i]
    BY <1>5, <2>1
  <2>3. Copy(f) = s[i] /\ s[i].kind # "token"
    BY <1>1, <2>2
  <2>4. Says(tab, Copy(f), u)
    BY <2>1, <2>3 DEF Says
  <2>5. f.kind \in GluedKinds => i \in 2..Len(s) /\ s[i - 1] = Break /\ f = Glued(s[i])
    BY <1>1, <2>2
  <2> QED
    BY <2>4, <2>5 DEF u
<1> QED
  BY <1>3, <1>4, <1>5

\* What the exchange starts from.
LEMMA TextsTyped ==
  /\ Systems \subseteq Texts /\ ExplainSystem \in Texts
  /\ \A s \in Payloads : s \in Texts /\ Tokenless(s) /\ Unglued(s)
<1>1. Fragments \subseteq Atoms /\ Fragments \cup {Token(1)} \subseteq Atoms
  BY FragmentsAssumption, TokenIsAtom
<1>2. \A s \in Systems : s \in Seq(Fragments \cup {Token(1)})
  BY TextsAssumption
<1>3. \A s \in Systems : s \in Seq(Atoms)
  BY <1>1, <1>2, SeqMonotonic
<1>4. ExplainSystem \in Seq(Atoms)
  BY <1>1, TextsAssumption, SeqMonotonic
<1>5. \A s \in Payloads : s \in Seq(Fragments)
  BY TextsAssumption
<1>6. ASSUME NEW s \in Payloads PROVE s \in Seq(Atoms) /\ Tokenless(s) /\ Unglued(s)
  <2>1. s \in Seq(Fragments)
    BY <1>5
  <2>2. s \in Seq(Atoms)
    BY <1>1, <2>1, SeqMonotonic
  <2>3. \A i \in 1..Len(s) : s[i] \in Fragments
    BY <2>1
  <2> QED
    BY <2>2, <2>3, FragmentsAssumption DEF Tokenless, Unglued
<1> QED
  BY <1>3, <1>4, <1>6 DEF Texts

-----------------------------------------------------------------------------
(* The types.                                                                 *)

\* The request does not change, and what is being asked for again may still be.
Asking ==
  /\ TypeOK /\ body \in Payloads
  /\ pc # "done" => attempt <= ValidateRetryMax /\ verdict = "none"

LEMMA CopyTyped == \A a \in Atoms : Copy(a) \in Atoms
  BY DEF Copy, Atoms

LEMMA CopiedTyped ==
  ASSUME Asking, NEW c \in Copies
  PROVE  c \in Seq(Nat) /\ Text(c) \in Texts /\ Len(Text(c)) = Len(c) /\ Len(c) \in Nat
         /\ \A i \in 1..Len(c) : c[i] \in 1..Len(prompt.body) /\ Text(c)[i] = Copy(prompt.body[c[i]])
<1>1. prompt.body \in Seq(Atoms) /\ Len(prompt.body) \in Nat
  <2>1. prompt.body \in Seq(Atoms)
    BY DEF Asking, TypeOK, Prompts, Texts
  <2> QED
    BY <2>1
<1>2. PICK k \in 1..MaxValue : c \in [1..k -> 1..Len(prompt.body)]
  BY DEF Copies
<1>3. k \in Nat
  BY BoundsAssumption
<1>4. c \in Seq(1..Len(prompt.body))
  BY <1>2, <1>3, SeqDef
<1>5. c \in Seq(Nat)
  <2>1. 1..Len(prompt.body) \subseteq Nat
    BY <1>1
  <2> QED
    BY <1>4, <2>1, SeqMonotonic
<1>6. Len(c) \in Nat /\ \A i \in 1..Len(c) : c[i] \in 1..Len(prompt.body)
  BY <1>4
<1>7. Text(c) \in [1..Len(c) -> Atoms]
  <2>1. \A i \in 1..Len(c) : Copy(prompt.body[c[i]]) \in Atoms
    BY <1>1, <1>6, CopyTyped
  <2> QED
    BY <2>1 DEF Text
<1>8. Text(c) \in Seq(Atoms)
  BY <1>6, <1>7, SeqDef
<1>9. Len(Text(c)) = Len(c)
  <2>1. DOMAIN Text(c) = 1..Len(c)
    BY DEF Text
  <2> QED
    BY <1>6, <1>8, <2>1, LenProperties
<1>10. \A i \in 1..Len(c) : Text(c)[i] = Copy(prompt.body[c[i]])
  BY DEF Text
<1> QED
  BY <1>5, <1>6, <1>8, <1>9, <1>10 DEF Texts

LEMMA InitAsking == Init => Asking
<1> SUFFICES ASSUME Init PROVE Asking
  OBVIOUS
<1>1. <<>> \in Texts /\ <<>> \in Seq(Texts) /\ <<>> \in Seq(Nat)
  BY DEF Texts
<1>2. system \in Texts /\ body \in Texts
  BY TextsTyped DEF Init
<1>3. NoPrompt \in Prompts
  BY <1>1 DEF NoPrompt, Prompts
<1>4. 0 \in 0..(ValidateRetryMax + 1) /\ 0 <= ValidateRetryMax
  BY BoundsAssumption
<1> QED
  BY <1>1, <1>2, <1>3, <1>4 DEF Init, Asking, TypeOK

\* Rejecting a reply, by which no more than the rejection is added to the prompt.
LEMMA RejectTyped ==
  ASSUME Asking, pc = "ask", NEW q \in Texts, Reject(q)
  PROVE  /\ prompt' \in Prompts /\ prompt'.system = prompt.system /\ prompt'.body = prompt.body
         /\ attempt' \in 0..(ValidateRetryMax + 1)
         /\ pc' \in {"ask", "done"} /\ verdict' \in {"none", "invalid-output"}
         /\ pc' # "done" => attempt' <= ValidateRetryMax /\ verdict' = "none"
         /\ copied' = copied /\ answer' = answer
<1>1. attempt \in Nat /\ attempt <= ValidateRetryMax /\ verdict = "none" /\ ValidateRetryMax \in Nat
  BY BoundsAssumption DEF Asking, TypeOK
<1>2. attempt' = attempt + 1
  BY DEF Reject
<1>3. prompt.quoted \o q \in Texts
  <2>1. prompt.quoted \in Seq(Atoms) /\ q \in Seq(Atoms)
    BY DEF Asking, TypeOK, Prompts, Texts
  <2> QED
    BY <2>1, ConcatProperties DEF Texts
<1>4. prompt' = [prompt EXCEPT !.quoted = prompt.quoted \o q] /\ prompt \in Prompts
  BY DEF Reject, Asking, TypeOK
<1>5. prompt' \in Prompts /\ prompt'.system = prompt.system /\ prompt'.body = prompt.body
  <2> DEFINE e == prompt.quoted \o q
  <2>1. e \in Texts /\ prompt' = [prompt EXCEPT !.quoted = e]
    BY <1>3, <1>4
  <2> HIDE DEF e
  <2> QED
    BY <1>4, <2>1 DEF Prompts
<1>6. IF OutOfAttempts(attempt + 1) THEN Leave("invalid-output") ELSE UNCHANGED <<pc, verdict>>
  BY DEF Reject
<1>7. CASE OutOfAttempts(attempt + 1)
  BY <1>1, <1>2, <1>5, <1>6, <1>7 DEF Leave, Reject
<1>8. CASE ~OutOfAttempts(attempt + 1)
  BY <1>1, <1>2, <1>5, <1>6, <1>8 DEF OutOfAttempts, Reject
<1> QED
  BY <1>7, <1>8

\* A reply is rejected, or accepted as what it means: what is copied, restored.
Accepted(c, value) ==
  /\ copied' = c /\ answer' = value /\ pc' = "done" /\ verdict' = "ok"
  /\ UNCHANGED <<attempt, prompt>>

LEMMA RepliesAre ==
  ASSUME Asking, CompleteReplies
  PROVE  /\ pc = "ask" /\ sent' = sent \cup {prompt} /\ UNCHANGED <<tool, system, body, table>>
         /\ \/ \E q \in Texts : Reject(q)
            \/ pc' = "done" /\ verdict' = "invalid-output" /\ UNCHANGED <<copied, answer, attempt, prompt>>
            \/ \E order \in Orders(table), c \in Copies :
                 LET value == Restore(table, order, Text(c))
                 IN  Accepted(c, IF tool = "propose" THEN value
                                 ELSE SubSeq(value, 1, Min({MaxSummary, Len(value)})))
<1>1. pc = "ask" /\ sent' = sent \cup {prompt} /\ UNCHANGED <<tool, system, body, table>>
  BY DEF CompleteReplies
<1>2. table \in Seq(Texts) /\ prompt.body \in Seq(Atoms)
  BY DEF Asking, TypeOK, Prompts, Texts
<1>3. CASE Proposal
  <2>1. tool = "propose"
    BY <1>3 DEF Proposal
  <2>2. PICK order \in Orders(table), a \in 1..Len(prompt.body), c \in Copies :
       LET attribute == Restore(table, order, <<Copy(prompt.body[a])>>)
           value == Restore(table, order, Text(c))
       IN  \/ Reject(<<>>)
           \/ Reject(value)
           \/ attribute \notin AllowedAttrs /\ Reject(attribute)
           \/ /\ attribute \in AllowedAttrs
              /\ copied' = c /\ answer' = value /\ Leave("ok")
              /\ UNCHANGED <<attempt, prompt>>
    BY <1>3 DEF Proposal
  <2> DEFINE attribute == Restore(table, order, <<Copy(prompt.body[a])>>)
             value == Restore(table, order, Text(c))
  <2>3. <<>> \in Texts /\ value \in Texts /\ attribute \in Texts
    <3>1. Text(c) \in Texts
      BY CopiedTyped
    <3>2. Copy(prompt.body[a]) \in Atoms
      BY <1>2, CopyTyped
    <3>3. <<Copy(prompt.body[a])>> \in Texts /\ <<>> \in Texts
      BY <3>2 DEF Texts
    <3>4. value \in Texts
      BY <1>2, <3>1, RestoreTyped
    <3>5. attribute \in Texts
      BY <1>2, <3>3, RestoreTyped
    <3> QED
      BY <3>3, <3>4, <3>5
  <2>4. \/ Reject(<<>>) \/ Reject(value) \/ Reject(attribute)
        \/ copied' = c /\ answer' = value /\ Leave("ok") /\ UNCHANGED <<attempt, prompt>>
    BY <2>2
  <2>5. CASE Reject(<<>>) \/ Reject(value) \/ Reject(attribute)
    <3> HIDE DEF attribute, value
    <3>1. \E q \in Texts : Reject(q)
      BY <2>3, <2>5
    <3> QED
      BY <1>1, <3>1
  <2>6. CASE copied' = c /\ answer' = value /\ Leave("ok") /\ UNCHANGED <<attempt, prompt>>
    <3>1. Accepted(c, value)
      BY <2>6 DEF Accepted, Leave
    <3> QED
      BY <1>1, <2>1, <3>1
  <2> QED
    BY <2>4, <2>5, <2>6
<1>4. CASE Explanation
  <2>1. tool # "propose" /\ UNCHANGED <<attempt, prompt>>
    BY <1>4 DEF Explanation
  <2>2. CASE Leave("invalid-output") /\ UNCHANGED <<copied, answer>>
    BY <1>1, <2>1, <2>2 DEF Leave
  <2>3. CASE \E order \in Orders(table), c \in Copies :
          LET summary == Restore(table, order, Text(c))
          IN  /\ copied' = c
              /\ answer' = SubSeq(summary, 1, Min({MaxSummary, Len(summary)}))
              /\ Leave("ok")
    <3>1. PICK order \in Orders(table), c \in Copies :
          LET summary == Restore(table, order, Text(c))
          IN  /\ copied' = c
              /\ answer' = SubSeq(summary, 1, Min({MaxSummary, Len(summary)}))
              /\ Leave("ok")
      BY <2>3
    <3> DEFINE summary == Restore(table, order, Text(c))
    <3>2. Accepted(c, SubSeq(summary, 1, Min({MaxSummary, Len(summary)})))
      BY <2>1, <3>1 DEF Accepted, Leave
    <3> QED
      BY <1>1, <2>1, <3>2
  <2> QED
    BY <1>4, <2>2, <2>3 DEF Explanation
<1> QED
  BY <1>3, <1>4 DEF CompleteReplies

\* What Build leaves behind.
LEMMA BuildIs ==
  ASSUME Asking, Build
  PROVE  /\ pc = "build" /\ pc' = "ask" /\ table' \in Seq(Texts) /\ prompt' \in Prompts
         /\ Distinct(table') /\ Values(table')
         /\ Plain(prompt'.system) /\ Plain(prompt'.body)
         /\ SaysAll(table', prompt'.body, Units(Encoded(body)))
         /\ UNCHANGED <<tool, system, body, sent, attempt, copied, answer, verdict>>
<1> DEFINE s == Redact(<<>>, system)
           b == Redact(s.table, Encoded(body))
           none == <<>>
<1>1. /\ pc = "build" /\ pc' = "ask" /\ table' = b.table
      /\ prompt' = [system |-> s.text, body |-> b.text, quoted |-> none]
      /\ UNCHANGED <<tool, system, body, sent, attempt, copied, answer, verdict>>
  BY DEF Build, RedactedSystem
<1>2. none \in Seq(Texts) /\ none \in Texts /\ Distinct(none) /\ Values(none)
  BY DEF Texts, Distinct, Values
<1>3. system \in Texts /\ Encoded(body) \in Texts /\ Tokenless(Encoded(body))
  BY TextsTyped, EncodedIs DEF Asking, TypeOK
<1>4. /\ s \in Redactions /\ Distinct(s.table) /\ Values(s.table) /\ Plain(s.text)
  <2>1. s = Redact(none, system)
    OBVIOUS
  <2> HIDE DEF s, none
  <2> QED
    BY <1>2, <1>3, <2>1, Redacted
<1> HIDE DEF s, none
<1>5. s.table \in Seq(Texts) /\ s.text \in Texts
  BY <1>4 DEF Redactions
<1>6. /\ b \in Redactions /\ Distinct(b.table) /\ Values(b.table) /\ Plain(b.text)
      /\ SaysAll(b.table, b.text, Units(Encoded(body)))
  <2>1. b = Redact(s.table, Encoded(body))
    OBVIOUS
  <2> HIDE DEF b
  <2> QED
    BY <1>3, <1>4, <1>5, <2>1, Redacted
<1> HIDE DEF b
<1>7. b.table \in Seq(Texts) /\ b.text \in Texts
  BY <1>6 DEF Redactions
<1>8. prompt' \in Prompts /\ prompt'.system = s.text /\ prompt'.body = b.text
  BY <1>1, <1>2, <1>5, <1>7 DEF Prompts
<1> QED
  BY <1>1, <1>4, <1>6, <1>7, <1>8

LEMMA NextAsking == Asking /\ [Next]_vars => Asking'
<1> SUFFICES ASSUME Asking, [Next]_vars PROVE Asking'
  OBVIOUS
<1>1. CASE Build
  BY <1>1, BuildIs DEF Asking, TypeOK
<1>2. CASE CompleteFails
  BY <1>2 DEF CompleteFails, Leave, Asking, TypeOK
<1>3. CASE CompleteReplies
  <2>1. /\ pc = "ask" /\ sent' = sent \cup {prompt} /\ UNCHANGED <<tool, system, body, table>>
        /\ \/ \E q \in Texts : Reject(q)
           \/ pc' = "done" /\ verdict' = "invalid-output" /\ UNCHANGED <<copied, answer, attempt, prompt>>
           \/ \E order \in Orders(table), c \in Copies :
                LET value == Restore(table, order, Text(c))
                IN  Accepted(c, IF tool = "propose" THEN value
                                ELSE SubSeq(value, 1, Min({MaxSummary, Len(value)})))
    BY <1>3, RepliesAre
  <2>2. \A p \in sent' : p \in Prompts
    BY <2>1 DEF Asking, TypeOK
  <2>3. CASE \E q \in Texts : Reject(q)
    <3>1. PICK q \in Texts : Reject(q)
      BY <2>3
    <3>2. /\ prompt' \in Prompts
          /\ attempt' \in 0..(ValidateRetryMax + 1)
          /\ pc' \in {"ask", "done"} /\ verdict' \in {"none", "invalid-output"}
          /\ pc' # "done" => attempt' <= ValidateRetryMax /\ verdict' = "none"
          /\ copied' = copied /\ answer' = answer
      BY <2>1, <3>1, RejectTyped
    <3> QED
      BY <2>1, <2>2, <3>2 DEF Asking, TypeOK
  <2>4. CASE pc' = "done" /\ verdict' = "invalid-output" /\ UNCHANGED <<copied, answer, attempt, prompt>>
    BY <2>1, <2>2, <2>4 DEF Asking, TypeOK
  <2>5. CASE \E order \in Orders(table), c \in Copies :
                LET value == Restore(table, order, Text(c))
                IN  Accepted(c, IF tool = "propose" THEN value
                                ELSE SubSeq(value, 1, Min({MaxSummary, Len(value)})))
    <3>1. PICK order \in Orders(table), c \in Copies :
                LET value == Restore(table, order, Text(c))
                IN  Accepted(c, IF tool = "propose" THEN value
                                ELSE SubSeq(value, 1, Min({MaxSummary, Len(value)})))
      BY <2>5
    <3> DEFINE value == Restore(table, order, Text(c))
               cut == Min({MaxSummary, Len(value)})
    <3>2. value \in Texts
      <4>1. Text(c) \in Texts /\ table \in Seq(Texts)
        BY CopiedTyped DEF Asking, TypeOK
      <4> QED
        BY <4>1, RestoreTyped
    <3>3. SubSeq(value, 1, cut) \in Texts
      <4>1. Len(value) \in Nat /\ value \in Seq(Atoms) /\ MaxSummary \in Nat
        BY <3>2, BoundsAssumption DEF Texts
      <4> HIDE DEF value
      <4>2. cut \in Nat /\ cut <= Len(value)
        <5>1. \E x \in {MaxSummary, Len(value)} : \A y \in {MaxSummary, Len(value)} : x =< y
          BY <4>1
        <5>2. cut \in {MaxSummary, Len(value)} /\ \A y \in {MaxSummary, Len(value)} : cut =< y
          BY <5>1 DEF Min
        <5> QED
          BY <4>1, <5>2
      <4> HIDE DEF cut
      <4>3. 1 \in Int /\ cut \in Int /\ \A i \in 1..cut : value[i] \in Atoms
        BY <4>1, <4>2
      <4> QED
        BY <4>3, SubSeqProperties DEF Texts
    <3>4. copied' = c /\ pc' = "done" /\ verdict' = "ok" /\ UNCHANGED <<attempt, prompt>>
          /\ answer' = IF tool = "propose" THEN value ELSE SubSeq(value, 1, cut)
      BY <3>1 DEF Accepted
    <3>5. copied' \in Seq(Nat)
      BY <3>4, CopiedTyped
    <3> HIDE DEF value, cut
    <3>6. answer' \in Texts
      BY <3>2, <3>3, <3>4
    <3> QED
      BY <2>1, <2>2, <3>4, <3>5, <3>6 DEF Asking, TypeOK
  <2> QED
    BY <2>1, <2>3, <2>4, <2>5
<1>4. CASE UNCHANGED vars
  BY <1>4 DEF vars, Asking, TypeOK
<1> QED
  BY <1>1, <1>2, <1>3, <1>4 DEF Next

LEMMA AlwaysAsking == Spec => []Asking
BY InitAsking, NextAsking, PTL DEF Spec

\* The types of the exchange hold, with at most one attempt more than there are
\* retries (Redaction.tla: TypeOK).
THEOREM ExchangeTyped == Spec => []TypeOK
<1>1. Asking => TypeOK
  BY DEF Asking
<1> QED
  BY <1>1, AlwaysAsking, PTL

-----------------------------------------------------------------------------
(* What leaves.                                                               *)

Behind(f) ==
  f.kind \in GluedKinds => \E k \in 2..Len(body) : body[k - 1] = Break /\ f = Glued(body[k])

Masked ==
  /\ pc # "build" =>
       /\ Plain(prompt.system) /\ Plain(prompt.body)
       /\ \A i \in 1..Len(prompt.body) : Behind(prompt.body[i])
  /\ PromptsAreRedacted

LEMMA BuildMasks ==
  ASSUME Asking, Build
  PROVE  \A i \in 1..Len(prompt'.body) : Behind(prompt'.body[i])
<1>1. body \in Texts /\ Unglued(body) /\ Tokenless(body)
  BY TextsTyped DEF Asking
<1>2. Values(table') /\ SaysAll(table', prompt'.body, Units(Encoded(body)))
  BY BuildIs
<1>3. Len(prompt'.body) = Len(Units(body))
  BY <1>1, <1>2, SameUnits DEF SaysAll
<1>4. ASSUME NEW n \in 1..Len(prompt'.body)
      PROVE  Behind(prompt'.body[n])
  <2>1. Says(table', prompt'.body[n], Units(Encoded(body))[n])
    BY <1>2 DEF SaysAll
  <2> QED
    BY <1>1, <1>2, <1>3, <2>1, CopySays DEF Behind
<1> QED
  BY <1>4

LEMMA NextMasked == Asking /\ Masked /\ [Next]_vars => Masked'
<1> SUFFICES ASSUME Asking, Masked, [Next]_vars PROVE Masked'
  OBVIOUS
<1>1. CASE Build
  <2>1. sent' = sent /\ body' = body /\ Plain(prompt'.system) /\ Plain(prompt'.body)
    BY <1>1, BuildIs
  <2>2. \A i \in 1..Len(prompt'.body) : Behind(prompt'.body[i])
    BY <1>1, BuildMasks
  <2> QED
    BY <2>1, <2>2 DEF Masked, PromptsAreRedacted, Behind
<1>2. CASE CompleteFails
  <2>1. /\ pc = "ask" /\ sent' = sent \cup {prompt}
        /\ UNCHANGED <<body, prompt>>
    BY <1>2 DEF CompleteFails
  <2> QED
    BY <2>1 DEF Masked, PromptsAreRedacted, Behind
<1>3. CASE CompleteReplies
  <2>1. /\ pc = "ask" /\ sent' = sent \cup {prompt} /\ body' = body
        /\ (\E q \in Texts : Reject(q)) \/ prompt' = prompt
    BY <1>3, RepliesAre DEF Accepted
  <2>2. prompt'.system = prompt.system /\ prompt'.body = prompt.body
    BY <2>1, RejectTyped
  <2> QED
    BY <2>1, <2>2 DEF Masked, PromptsAreRedacted, Behind
<1>4. CASE UNCHANGED vars
  BY <1>4 DEF vars, Masked, PromptsAreRedacted, Behind
<1> QED
  BY <1>1, <1>2, <1>3, <1>4 DEF Next

\* No prompt of any attempt holds an id, key or address, be it part of an ARN, but
\* for those right behind a line break of the payload and those that a rejection
\* quotes (Redaction.tla: PromptsAreRedacted).
THEOREM SecretsStay == Spec => []PromptsAreRedacted
<1>1. Init => Masked
  BY DEF Init, Masked, PromptsAreRedacted
<1>2. Masked => PromptsAreRedacted
  BY DEF Masked
<1> QED
  BY <1>1, <1>2, AlwaysAsking, NextMasked, PTL DEF Spec

-----------------------------------------------------------------------------
(* What the placeholders say.                                                 *)

Meant ==
  pc # "build" =>
    Distinct(table) /\ Values(table) /\ SaysAll(table, prompt.body, Units(Encoded(body)))
      /\ Plain(prompt.body)

LEMMA NextMeant == Asking /\ Meant /\ [Next]_vars => Meant'
<1> SUFFICES ASSUME Asking, Meant, [Next]_vars PROVE Meant'
  OBVIOUS
<1>1. CASE Build
  BY <1>1, BuildIs DEF Meant
<1>2. CASE CompleteFails
  BY <1>2 DEF CompleteFails, Leave, Meant
<1>3. CASE CompleteReplies
  <2>1. /\ pc = "ask" /\ table' = table /\ body' = body
        /\ (\E q \in Texts : Reject(q)) \/ prompt' = prompt
    BY <1>3, RepliesAre DEF Accepted
  <2>2. prompt'.body = prompt.body
    BY <2>1, RejectTyped
  <2> QED
    BY <2>1, <2>2 DEF Meant
<1>4. CASE UNCHANGED vars
  BY <1>4 DEF vars, Meant
<1> QED
  BY <1>1, <1>2, <1>3, <1>4 DEF Next

LEMMA AlwaysMeant == Spec => []Meant
<1>1. Init => Meant
  BY DEF Init, Meant
<1> QED
  BY <1>1, AlwaysAsking, NextMeant, PTL DEF Spec

LEMMA TellsApart ==
  ASSUME Asking, Meant
  PROVE  PlaceholdersTellValues
<1> SUFFICES ASSUME pc # "build"
             PROVE  LET u == Units(Encoded(body))
                    IN  /\ Len(prompt.body) = Len(u)
                        /\ \A i, j \in 1..Len(u) : prompt.body[i] = prompt.body[j] <=> u[i] = u[j]
  BY DEF PlaceholdersTellValues
<1> DEFINE u == Units(Encoded(body))
           t == prompt.body
<1>1. Len(t) = Len(u) /\ \A n \in 1..Len(u) : Says(table, t[n], u[n])
  BY DEF Meant, SaysAll
<1>2. Distinct(table) /\ Values(table) /\ \A n \in 1..Len(u) : t[n].kind \notin {"id", "ip"}
  BY <1>1 DEF Meant, Plain
<1> HIDE DEF u, t
<1>3. ASSUME NEW i \in 1..Len(u), NEW j \in 1..Len(u), Shown(table, t[i], u[i]), Shown(table, t[j], u[j])
      PROVE  t[i] = t[j] <=> u[i] = u[j]
  <2>1. PICK m \in 1..Len(table) : t[i] = Token(m) /\ table[m] = u[i]
    BY <1>3 DEF Shown
  <2>2. PICK n \in 1..Len(table) : t[j] = Token(n) /\ table[n] = u[j]
    BY <1>3 DEF Shown
  <2>3. Token(m) = Token(n) <=> m = n
    BY DEF Token
  <2>4. table[m] = table[n] <=> m = n
    BY <1>2 DEF Distinct
  <2> QED
    BY <2>1, <2>2, <2>3, <2>4
<1>4. ASSUME NEW i \in 1..Len(u), NEW j \in 1..Len(u), Shown(table, t[i], u[i]), ~Shown(table, t[j], u[j])
      PROVE  t[i] # t[j] /\ u[i] # u[j]
  <2>1. PICK m \in 1..Len(table) : t[i] = Token(m) /\ table[m] = u[i]
    BY <1>4 DEF Shown
  <2>2. t[j].kind # "token" /\ u[j] = <<t[j]>>
    BY <1>1, <1>4 DEF Says
  <2>3. t[i] # t[j]
    BY <2>1, <2>2 DEF Token
  <2>4. Value(u[i])
    BY <1>2, <2>1 DEF Values
  <2>5. ~Value(u[j])
    <3> DEFINE o == <<t[j]>>
    <3>1. Len(o) = 1 /\ o[1] = t[j]
      OBVIOUS
    <3> HIDE DEF o
    <3>2. ~Value(o)
      BY <1>2, <3>1 DEF Value
    <3> QED
      BY <2>2, <3>2 DEF o
  <2> QED
    BY <2>3, <2>4, <2>5
<1>5. ASSUME NEW i \in 1..Len(u), NEW j \in 1..Len(u), ~Shown(table, t[i], u[i]), ~Shown(table, t[j], u[j])
      PROVE  t[i] = t[j] <=> u[i] = u[j]
  <2>1. u[i] = <<t[i]>> /\ u[j] = <<t[j]>>
    BY <1>1, <1>5 DEF Says
  <2> QED
    BY <2>1
<1>6. \A i, j \in 1..Len(u) : t[i] = t[j] <=> u[i] = u[j]
  <2>1. TAKE i \in 1..Len(u), j \in 1..Len(u)
  <2>2. CASE Shown(table, t[i], u[i])
    BY <1>3, <1>4, <2>2
  <2>3. CASE ~Shown(table, t[i], u[i])
    BY <1>4, <1>5, <2>3
  <2> QED
    BY <2>2, <2>3
<1> QED
  BY <1>1, <1>6 DEF u, t

\* Equal values have equal placeholders and different ones different: the prompt
\* has one fragment for each unit of the payload (Redaction.tla:
\* PlaceholdersTellValues).
THEOREM EqualityStaysVisible == Spec => []PlaceholdersTellValues
BY AlwaysAsking, AlwaysMeant, TellsApart, PTL

-----------------------------------------------------------------------------
(* What comes back.                                                           *)

\* A copy of pieces of the prompt, restored in any order.
LEMMA CopyMeans ==
  ASSUME Asking, Meant, pc = "ask", NEW order \in Orders(table), NEW c \in Copies
  PROVE  Restore(table, order, Text(c)) = FlattenSeq([i \in 1..Len(c) |-> Units(body)[c[i]]])
<1> DEFINE x == Text(c)
           us == [i \in 1..Len(c) |-> Units(body)[c[i]]]
<1>1. /\ x \in Texts /\ Len(x) = Len(c) /\ Len(c) \in Nat
      /\ \A i \in 1..Len(c) : c[i] \in 1..Len(prompt.body) /\ x[i] = Copy(prompt.body[c[i]])
  BY CopiedTyped
<1>2. body \in Texts /\ Tokenless(body) /\ Unglued(body)
  BY TextsTyped DEF Asking
<1>3. /\ SaysAll(table, prompt.body, Units(Encoded(body))) /\ table \in Seq(Texts) /\ Values(table)
      /\ Units(body) \in Seq(Texts)
      /\ \A n \in 1..Len(Units(body)) : Tokenless(Units(body)[n])
  BY <1>2, UnitsTyped DEF Meant, Asking, TypeOK
<1>4. /\ Len(Units(body)) = Len(prompt.body)
      /\ \A n \in 1..Len(prompt.body) : Says(table, Copy(prompt.body[n]), Units(body)[n])
  <2>1. /\ Len(Units(body)) = Len(prompt.body)
        /\ \A n \in 1..Len(prompt.body) : Says(table, prompt.body[n], Units(Encoded(body))[n])
    BY <1>2, <1>3, SameUnits DEF SaysAll
  <2> QED
    BY <1>2, <1>3, <2>1, CopySays
<1> HIDE DEF x
<1>5. \A i \in 1..Len(c) : us[i] = Units(body)[c[i]] /\ us[i] \in Texts
  BY <1>1, <1>3, <1>4
<1>6. us \in Seq(Texts) /\ Len(us) = Len(c)
  <2>1. us \in [1..Len(c) -> Texts] /\ DOMAIN us = 1..Len(c)
    BY <1>5
  <2> HIDE DEF us
  <2>2. us \in Seq(Texts)
    BY <1>1, <2>1, SeqDef
  <2> QED
    BY <1>1, <2>1, <2>2, LenProperties
<1> HIDE DEF us
<1>7. SaysAll(table, x, us)
  <2>1. \A i \in 1..Len(x) : Says(table, x[i], us[i])
    BY <1>1, <1>4, <1>5
  <2> QED
    BY <1>1, <1>6, <2>1 DEF SaysAll
<1>8. \A i \in 1..Len(us) : Tokenless(us[i])
  BY <1>1, <1>3, <1>4, <1>5, <1>6
<1>9. Restore(table, order, x) = FlattenSeq(us)
  BY <1>1, <1>3, <1>6, <1>7, <1>8, RestoreMeans
<1> QED
  BY <1>9 DEF x, us

LEMMA NextCopies == Asking /\ Meant /\ CopiesComeBack /\ [Next]_vars => CopiesComeBack'
<1> SUFFICES ASSUME Asking, Meant, CopiesComeBack, [Next]_vars PROVE CopiesComeBack'
  OBVIOUS
<1>1. CASE Build
  <2>1. verdict' # "ok"
    BY <1>1, BuildIs DEF Asking
  <2> QED
    BY <2>1 DEF CopiesComeBack
<1>2. CASE CompleteFails
  <2>1. verdict' # "ok"
    BY <1>2 DEF CompleteFails, Leave
  <2> QED
    BY <2>1 DEF CopiesComeBack
<1>3. CASE CompleteReplies
  <2>1. /\ pc = "ask" /\ UNCHANGED <<tool, body>>
        /\ \/ \E q \in Texts : Reject(q)
           \/ verdict' = "invalid-output"
           \/ \E order \in Orders(table), c \in Copies :
                LET value == Restore(table, order, Text(c))
                IN  Accepted(c, IF tool = "propose" THEN value
                                ELSE SubSeq(value, 1, Min({MaxSummary, Len(value)})))
    BY <1>3, RepliesAre
  <2>2. CASE (\E q \in Texts : Reject(q)) \/ verdict' = "invalid-output"
    <3>1. verdict' # "ok"
      BY <2>1, <2>2, RejectTyped
    <3> QED
      BY <3>1 DEF CopiesComeBack
  <2>3. CASE \E order \in Orders(table), c \in Copies :
                LET value == Restore(table, order, Text(c))
                IN  Accepted(c, IF tool = "propose" THEN value
                                ELSE SubSeq(value, 1, Min({MaxSummary, Len(value)})))
    <3>1. PICK order \in Orders(table), c \in Copies :
                LET value == Restore(table, order, Text(c))
                IN  Accepted(c, IF tool = "propose" THEN value
                                ELSE SubSeq(value, 1, Min({MaxSummary, Len(value)})))
      BY <2>3
    <3> DEFINE meant == FlattenSeq([i \in 1..Len(c) |-> Units(body)[c[i]]])
    <3>2. Restore(table, order, Text(c)) = meant
      BY <2>1, CopyMeans
    <3>3. /\ copied' = c
          /\ answer' = IF tool = "propose" THEN meant
                       ELSE SubSeq(meant, 1, Min({MaxSummary, Len(meant)}))
      <4> HIDE DEF meant
      <4> QED
        BY <3>1, <3>2 DEF Accepted
    <3>4. tool' = tool /\ body' = body
      BY <2>1
    <3> QED
      BY <3>3, <3>4 DEF CopiesComeBack
  <2> QED
    BY <2>1, <2>2, <2>3
<1>4. CASE UNCHANGED vars
  BY <1>4 DEF vars, CopiesComeBack
<1> QED
  BY <1>1, <1>2, <1>3, <1>4 DEF Next

\* A reply that copies pieces of the prompt comes back with the values they stand
\* for, in whatever order the map of the table is gone through (Redaction.tla:
\* CopiesComeBack).
THEOREM CopiesComeBackAlways == Spec => []CopiesComeBack
<1>1. Init => CopiesComeBack
  BY DEF Init, CopiesComeBack
<1> QED
  BY <1>1, AlwaysAsking, AlwaysMeant, NextCopies, PTL DEF Spec
=============================================================================
