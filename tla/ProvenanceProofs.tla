--------------------------- MODULE ProvenanceProofs ---------------------------
(***************************************************************************)
(* The walk against the meaning of a configuration: the place it names is  *)
(* the one that decides, and its tier says where the value comes from, for *)
(* every configuration and depth of nesting.                               *)
(***************************************************************************)
EXTENDS ResolutionProofs

-----------------------------------------------------------------------------
(* The values of the variables, frame by frame.                            *)

\* Those of one frame, given the frame of its caller.
Frame(c, w, i, caller) ==
  [v \in Vars |-> IF i = 0 THEN RootValue(c, w, v)
                  ELSE Value(c.calls[i].args[v], ArgPlace(c, i, v), w, caller, "module default")]
IsScope(c, w, m, f) == f = [i \in 0..m |-> Frame(c, w, i, f[i - 1])]

\* The function that Meaning defines by recursion.
Scope(c, w) ==
  LET scope[i \in 0..Len(c.calls)] ==
        [v \in Vars |-> IF i = 0 THEN RootValue(c, w, v)
                        ELSE Value(c.calls[i].args[v], ArgPlace(c, i, v), w, scope[i - 1],
                                   "module default")]
  IN  scope

LEMMA MeaningIsValue ==
  ASSUME NEW c, NEW w
  PROVE  Meaning(c, w) =
           Value(c.resource.expr, ResourcePlace(c), w, Scope(c, w)[Len(c.calls)], "elsewhere")
BY DEF Meaning, Scope

\* The recursion is well-founded: there is no least level it does not reach.
LEMMA ScopesExist ==
  ASSUME NEW c, NEW w
  PROVE  \A m \in Nat : \E f : IsScope(c, w, m, f)
<1> DEFINE bad == {m \in Nat : ~\E f : IsScope(c, w, m, f)}
<1> SUFFICES ASSUME bad # {} PROVE FALSE
  OBVIOUS
<1>1. PICK x \in bad : \A y \in bad : x <= y
  BY Least
<1>2. CASE x = 0
  <2> DEFINE f == [i \in 0..0 |-> Frame(c, w, 0, 0)]
  <2>1. \A below : Frame(c, w, 0, below) = Frame(c, w, 0, 0)
    BY DEF Frame
  <2>2. f = [i \in 0..0 |-> Frame(c, w, i, f[i - 1])]
    <3>1. \A i \in 0..0 : f[i] = Frame(c, w, i, f[i - 1])
      <4> SUFFICES ASSUME NEW i \in 0..0 PROVE f[i] = Frame(c, w, i, f[i - 1])
        OBVIOUS
      <4>1. i = 0
        OBVIOUS
      <4>2. f[i] = Frame(c, w, 0, 0)
        OBVIOUS
      <4> HIDE DEF f
      <4> QED
        BY <2>1, <4>1, <4>2
    <3> HIDE DEF f
    <3>2. f = [i \in 0..0 |-> f[i]]
      BY DEF f
    <3> QED
      BY <3>1, <3>2
  <2>3. IsScope(c, w, 0, f)
    BY <2>2 DEF IsScope
  <2> QED
    BY <1>2, <2>3
<1>3. CASE x > 0
  <2>1. x - 1 \in Nat /\ x - 1 \notin bad
    BY <1>1, <1>3
  <2>2. PICK f : IsScope(c, w, x - 1, f)
    BY <2>1
  <2> DEFINE g == [i \in 0..x |-> IF i = x THEN Frame(c, w, x, f[x - 1]) ELSE f[i]]
  <2>3. ASSUME NEW i \in 0..x PROVE g[i] = Frame(c, w, i, g[i - 1])
    <3>1. CASE i = x
      <4>1. g[x - 1] = f[x - 1]
        BY <1>3
      <4> QED
        BY <1>3, <3>1, <4>1
    <3>2. CASE i < x /\ i > 0
      <4>1. g[i - 1] = f[i - 1] /\ g[i] = f[i]
        BY <1>3, <3>2
      <4>2. f[i] = Frame(c, w, i, f[i - 1])
        BY <2>1, <2>2, <3>2 DEF IsScope
      <4> QED
        BY <4>1, <4>2
    <3>3. CASE i = 0
      <4>1. g[0] = f[0]
        BY <1>3
      <4>2. f[0] = Frame(c, w, 0, f[0 - 1])
        BY <2>1, <2>2 DEF IsScope
      <4>3. \A b1, b2 : Frame(c, w, 0, b1) = Frame(c, w, 0, b2)
        BY DEF Frame
      <4> QED
        BY <3>3, <4>1, <4>2, <4>3
    <3> QED
      BY <1>1, <3>1, <3>2, <3>3
  <2>4. g = [i \in 0..x |-> Frame(c, w, i, g[i - 1])]
    <3>1. g = [i \in 0..x |-> g[i]]
      OBVIOUS
    <3> HIDE DEF g
    <3> QED
      BY <2>3, <3>1
  <2>5. IsScope(c, w, x, g)
    BY <2>4 DEF IsScope
  <2> QED
    BY <1>1, <2>5
<1> QED
  BY <1>1, <1>2, <1>3

\* What a variable is in the root, and in a called module.
LEMMA ScopeUnfolds ==
  ASSUME NEW c \in AllConfigs, NEW w, NEW v \in Vars
  PROVE  /\ Scope(c, w)[0][v] = RootValue(c, w, v)
         /\ \A i \in 1..Len(c.calls) :
              Scope(c, w)[i][v] =
                Value(c.calls[i].args[v], ArgPlace(c, i, v), w, Scope(c, w)[i - 1], "module default")
<1>1. Len(c.calls) \in Nat
  BY DEF AllConfigs
<1>2. PICK f : IsScope(c, w, Len(c.calls), f)
  BY <1>1, ScopesExist
<1>3. f = [i \in 0..Len(c.calls) |->
            [u \in Vars |-> IF i = 0 THEN RootValue(c, w, u)
                            ELSE Value(c.calls[i].args[u], ArgPlace(c, i, u), w, f[i - 1], "module default")]]
  BY <1>2 DEF IsScope, Frame
<1>4. Scope(c, w) = [i \in 0..Len(c.calls) |->
            [u \in Vars |-> IF i = 0 THEN RootValue(c, w, u)
                            ELSE Value(c.calls[i].args[u], ArgPlace(c, i, u), w, Scope(c, w)[i - 1],
                                       "module default")]]
  BY <1>3 DEF Scope
<1> DEFINE S == Scope(c, w)
<1>5. \A i \in 0..Len(c.calls) :
        S[i] = [u \in Vars |-> IF i = 0 THEN RootValue(c, w, u)
                               ELSE Value(c.calls[i].args[u], ArgPlace(c, i, u), w, S[i - 1], "module default")]
  <2> HIDE DEF S
  <2>1. S = [i \in 0..Len(c.calls) |->
              [u \in Vars |-> IF i = 0 THEN RootValue(c, w, u)
                              ELSE Value(c.calls[i].args[u], ArgPlace(c, i, u), w, S[i - 1], "module default")]]
    BY <1>4 DEF S
  <2> QED
    BY <2>1, Zenon
<1> HIDE DEF S
<1>6. S[0][v] = RootValue(c, w, v)
  <2>1. 0 \in 0..Len(c.calls)
    BY <1>1
  <2> QED
    BY <1>5, <2>1
<1>7. ASSUME NEW i \in 1..Len(c.calls)
      PROVE  S[i][v] = Value(c.calls[i].args[v], ArgPlace(c, i, v), w, S[i - 1], "module default")
  <2>1. i \in 0..Len(c.calls) /\ i # 0
    BY <1>1
  <2> QED
    BY <1>5, <2>1
<1> QED
  BY <1>6, <1>7 DEF S

-----------------------------------------------------------------------------
(* The invariant.  What Terraform makes of the attribute is what it makes of  *)
(* the expression the walk has arrived at, unless the walk has already passed *)
(* the place that was overwritten.                                            *)

Passed(w) ==
  IF expr.form = "bare" /\ expr.refs[1] \in Vars
    THEN Scope(cfg, w)[depth][expr.refs[1]] ELSE "elsewhere"

SameMeaning ==
  \A w : Meaning(cfg, w) = Passed(w) \/ (Meaning(cfg, w) = "live" /\ w # Nowhere)

Follows ==
  pc = "follow" =>
    /\ WellFormed(expr) /\ expr.form \in {"bare", "computed"}
    /\ cfg.resource.expr.form # "absent"
    /\ Visible(cfg) => PlainExpr(expr) /\ SameMeaning

OriginInv == cfg \in Configs /\ Follows /\ EditTakesEffect /\ TierTellsOrigin

\* Nowhere is no place of a configuration.
LEMMA NowhereElse ==
  ASSUME NEW c, NEW i, NEW k, NEW v \in Vars
  PROVE  /\ ResourcePlace(c) # Nowhere /\ ArgPlace(c, i, v) # Nowhere
         /\ TfvarsPlace(c, k, v) # Nowhere /\ DefaultPlace(c, v) # Nowhere
<1>1. Nowhere.block = <<"nowhere">>
  BY DEF Nowhere
<1>2. ResourcePlace(c).block = <<"resource">> /\ <<"resource">> # <<"nowhere">>
  BY DEF ResourcePlace
<1>3. ArgPlace(c, i, v).block = <<"module", i>> /\ <<"module", i>> # <<"nowhere">>
  BY DEF ArgPlace
<1>4. TfvarsPlace(c, k, v).block = <<>> /\ <<>> # <<"nowhere">>
  BY DEF TfvarsPlace
<1>5. DefaultPlace(c, v).block = <<"variable", v>> /\ <<"variable", v>> # <<"nowhere">>
  BY DEF DefaultPlace
<1> QED
  BY <1>1, <1>2, <1>3, <1>4, <1>5

\* The reference: the file that decides is the one the walk finds, when every
\* file that is loaded is one it reads.
LEMMA SameFile ==
  ASSUME cfg \in AllConfigs, Visible(cfg), NEW v \in Vars
  PROVE  /\ Loaded(cfg, v) = Defining(cfg, v)
         /\ Deciding(cfg, v) = FindTfvarsAttr(cfg, v)
         /\ \A k \in Defining(cfg, v) : cfg.tfvars[k].kind # "json"
<1> DEFINE Last(S) == CHOOSE k \in S : \A j \in S : LoadOrder(cfg, j) <= LoadOrder(cfg, k)
<1>1. \A k \in 1..Len(cfg.tfvars) : cfg.tfvars[k].kind \in {"terraform", "auto", "other"}
  <2>1. cfg.tfvars \in Seq(Tfvars)
    BY DEF AllConfigs
  <2>2. \A k \in 1..Len(cfg.tfvars) : cfg.tfvars[k] \in Tfvars
    BY <2>1
  <2> QED
    BY <2>2 DEF Tfvars, Visible
<1>2. Loaded(cfg, v) = Defining(cfg, v)
  BY <1>1 DEF Loaded, Defining, Candidates
<1>3. Deciding(cfg, v) = Last(Loaded(cfg, v))
  BY DEF Deciding, Rank, LoadOrder
<1>4. FindTfvarsAttr(cfg, v) = Last(Defining(cfg, v))
  BY DEF FindTfvarsAttr
<1> HIDE DEF Last
<1>5. Deciding(cfg, v) = FindTfvarsAttr(cfg, v)
  BY <1>2, <1>3, <1>4
<1>6. \A k \in Defining(cfg, v) : cfg.tfvars[k].kind # "json"
  BY DEF Defining, Candidates
<1> QED
  BY <1>2, <1>5, <1>6

\* The value of a root variable, and of an argument, as the walk finds them.
LEMMA RootMeans ==
  ASSUME cfg \in AllConfigs, Visible(cfg), NEW v \in Vars, NEW w
  PROVE  /\ Defining(cfg, v) # {} =>
              RootValue(cfg, w, v) =
                IF w = TfvarsPlace(cfg, FindTfvarsAttr(cfg, v), v) THEN "live" ELSE "code"
         /\ Defining(cfg, v) = {} /\ v \in cfg.defaults =>
              RootValue(cfg, w, v) = IF w = DefaultPlace(cfg, v) THEN "live" ELSE "code"
         /\ Defining(cfg, v) = {} /\ v \notin cfg.defaults => RootValue(cfg, w, v) = "unset"
<1>1. /\ Loaded(cfg, v) = Defining(cfg, v) /\ Deciding(cfg, v) = FindTfvarsAttr(cfg, v)
      /\ \A k \in Defining(cfg, v) : cfg.tfvars[k].kind # "json"
  BY SameFile
<1>2. v \notin cfg.env
  BY DEF Visible
<1>3. ASSUME Defining(cfg, v) # {}
      PROVE  RootValue(cfg, w, v) =
               IF w = TfvarsPlace(cfg, FindTfvarsAttr(cfg, v), v) THEN "live" ELSE "code"
  <2>1. FindTfvarsAttr(cfg, v) \in Defining(cfg, v)
    BY <1>3, TfvarsTyped
  <2> QED
    BY <1>1, <1>3, <2>1 DEF RootValue
<1> QED
  BY <1>1, <1>2, <1>3 DEF RootValue

LEMMA OriginInit == Init => OriginInv
BY DEF Init, OriginInv, Follows, EditTakesEffect, TierTellsOrigin, Deterministic

\* A walk that ends: what must be true of the tier and of the target.
LEMMA EndOrigin ==
  ASSUME OriginInv, UNCHANGED cfg, NEW t, NEW p, NEW r, End(t, p, r),
         Visible(cfg) /\ t \in {"tier0", "tier1"} => Meaning(cfg, p) = "live",
         Visible(cfg) /\ t # "error" /\ r \notin {"too deep", "non-local source"}
           => /\ t \in {"tier0", "tier1"} <=> Unset \/ SetLiteral
              /\ r = "not set by caller" <=> ModuleDefault
  PROVE  OriginInv'
<1>1. /\ cfg' \in Configs /\ Follows'
  BY DEF OriginInv, Follows, End
<1>2. /\ pc' = "done" /\ result' = [tier |-> t, target |-> p, why |-> r]
      /\ result'.tier = t /\ result'.target = p /\ result'.why = r
  BY DEF End
<1>3. EditTakesEffect'
  BY <1>2 DEF EditTakesEffect, Deterministic
<1>4. TierTellsOrigin'
  BY <1>2 DEF TierTellsOrigin, Deterministic, Unset, SetLiteral, ModuleDefault
<1> QED
  BY <1>1, <1>3, <1>4 DEF OriginInv

\* A walk that goes on.
LEMMA OnOrigin ==
  ASSUME OriginInv, UNCHANGED cfg, pc' # "done", Follows'
  PROVE  OriginInv'
BY DEF OriginInv, EditTakesEffect, TierTellsOrigin, Deterministic

\* The expression the walk goes on with has the meaning of the one before.
LEMMA NextExpr ==
  ASSUME cfg \in Configs, UNCHANGED cfg, NEW e, WellFormed(e), e.form \in {"bare", "computed"},
         NEW p, p # Nowhere, Visible(cfg) => PlainExpr(e), expr' = e,
         cfg.resource.expr.form # "absent", NEW d,
         Visible(cfg) =>
           \A w : \/ Meaning(cfg, w) = Value(e, p, w, Scope(cfg, w)[depth'], d)
                  \/ Meaning(cfg, w) = "live" /\ w # Nowhere
  PROVE  Follows'
<1>1. ASSUME Visible(cfg), NEW w
      PROVE  \/ Meaning(cfg, w) = Passed(w)'
             \/ Meaning(cfg, w) = "live" /\ w # Nowhere
  <2>1. CASE w = p
    BY <1>1, <2>1 DEF Value
  <2>2. CASE w # p
    <3>1. Value(e, p, w, Scope(cfg, w)[depth'], d) = Passed(w)'
      BY <2>2 DEF Value, Passed
    <3> QED
      BY <1>1, <3>1
  <2> QED
    BY <2>1, <2>2
<1>2. Visible(cfg) => SameMeaning'
  BY <1>1 DEF SameMeaning
<1> QED
  BY <1>2 DEF Follows

LEMMA OriginNext == TypeOK /\ OriginInv /\ [Next]_vars => OriginInv'
<1> SUFFICES ASSUME TypeOK, OriginInv, [Next]_vars PROVE OriginInv'
  OBVIOUS
<1>0. /\ cfg \in Configs /\ cfg \in AllConfigs /\ Len(cfg.calls) \in Nat
      /\ depth \in 0..Len(cfg.calls)
  BY DEF OriginInv, TypeOK, AllConfigs
<1>a. /\ Unset \/ SetLiteral <=> (cfg.resource.expr.form = "absent" \/ Meaning(cfg, Nowhere) = "code")
      /\ ModuleDefault <=> Meaning(cfg, Nowhere) = "module default"
  BY DEF Unset, SetLiteral, ModuleDefault
\* While it follows references, and the configuration hides nothing.
<1>b. ASSUME pc = "follow", Visible(cfg)
      PROVE  /\ PlainExpr(expr) /\ cfg.resource.expr.form # "absent"
             /\ \A w : Meaning(cfg, w) = Passed(w) \/ (Meaning(cfg, w) = "live" /\ w # Nowhere)
             /\ Meaning(cfg, Nowhere) = Passed(Nowhere)
  BY <1>b DEF OriginInv, Follows, SameMeaning
\* What a bare reference to a variable passes on.
<1>c. ASSUME pc = "follow", Visible(cfg), BareRef(expr), Name \in Vars
      PROVE  /\ \A w : depth > 0 =>
                  Passed(w) = Value(cfg.calls[depth].args[Name], ArgPlace(cfg, depth, Name), w,
                                    Scope(cfg, w)[depth - 1], "module default")
             /\ \A w : depth = 0 => Passed(w) = RootValue(cfg, w, Name)
  <2>1. expr.form = "bare"
    BY <1>b, <1>c DEF BareRef, PlainExpr
  <2>2. ASSUME NEW w PROVE Passed(w) = Scope(cfg, w)[depth][Name]
    BY <1>c, <2>1 DEF Passed, Name
  <2>3. ASSUME NEW w, depth > 0
        PROVE  Passed(w) = Value(cfg.calls[depth].args[Name], ArgPlace(cfg, depth, Name), w,
                                 Scope(cfg, w)[depth - 1], "module default")
    <3>1. depth \in 1..Len(cfg.calls)
      BY <1>0, <2>3
    <3> QED
      BY <1>0, <1>c, <2>2, <3>1, ScopeUnfolds
  <2>4. ASSUME NEW w, depth = 0 PROVE Passed(w) = RootValue(cfg, w, Name)
    BY <1>0, <1>c, <2>2, <2>4, ScopeUnfolds
  <2> QED
    BY <2>3, <2>4
<1>1. CASE Descend
  <2>1. UNCHANGED cfg /\ pc = "frames"
    BY <1>1 DEF Descend
  <2>2. CASE UNCHANGED pc
    BY <2>1, <2>2, OnOrigin DEF Follows
  <2>3. CASE End("error", NoPlace, "module call not found")
    BY <2>1, <2>3, EndOrigin
  <2>4. CASE End("tier3", NoPlace, "non-local source")
    BY <2>1, <2>4, EndOrigin
  <2> QED
    BY <1>1, <2>2, <2>3, <2>4 DEF Descend, Fail, GiveUp
<1>2. CASE FindResource
  <2> DEFINE e == cfg.resource.expr
  <2>0. UNCHANGED <<cfg, depth>> /\ depth = Len(cfg.calls)
    BY <1>2 DEF FindResource
  <2>1. CASE End("error", NoPlace, "resource not found") \/ End("error", NoPlace, "parse expression")
    BY <2>0, <2>1, EndOrigin
  <2>2. CASE (e.form = "absent" \/ IsConstant(e)) /\ End("tier0", ResourcePlace(cfg), "literal")
    <3>1. Meaning(cfg, ResourcePlace(cfg)) = "live"
      BY MeaningIsValue DEF Value
    <3>2. (Unset \/ SetLiteral) /\ ~ModuleDefault
      <4>1. CASE IsConstant(e)
        <5>1. ResourcePlace(cfg) # Nowhere
          BY DEF ResourcePlace, Nowhere
        <5> QED
          BY <1>a, <4>1, <5>1, MeaningIsValue DEF Value, IsConstant
      <4>2. CASE e.form = "absent"
        <5>1. ResourcePlace(cfg) # Nowhere
          BY DEF ResourcePlace, Nowhere
        <5> QED
          BY <1>a, <4>2, <5>1, MeaningIsValue DEF Value
      <4> QED
        BY <2>2, <4>1, <4>2
    <3> QED
      BY <2>0, <2>2, <3>1, <3>2, EndOrigin
  <2>3. CASE e.form \in {"bare", "computed"} /\ pc' = "follow" /\ expr' = e
    <3>1. WellFormed(e)
      BY <1>0, ExprsAssumption
    <3>2. ResourcePlace(cfg) # Nowhere
      BY DEF ResourcePlace, Nowhere
    <3>3. \A w : Meaning(cfg, w) = Value(e, ResourcePlace(cfg), w, Scope(cfg, w)[depth'], "elsewhere")
      BY <2>0, MeaningIsValue
    <3>4. Visible(cfg) => PlainExpr(e)
      BY DEF Visible
    <3>5. e.form # "absent"
      BY <2>3
    <3> HIDE DEF e
    <3>6. Follows'
      BY <1>0, <2>0, <2>3, <3>1, <3>2, <3>3, <3>4, <3>5, NextExpr DEF e
    <3> QED
      BY <2>0, <2>3, <3>6, OnOrigin
  <2> QED
    BY <1>2, <2>1, <2>2, <2>3 DEF FindResource, Fail
<1>3. CASE NotFollowed
  <2>1. pc = "follow" /\ UNCHANGED cfg
    BY <1>3 DEF NotFollowed, Following
  <2>2. ~BareRef(expr) \/ Name \notin Vars
    BY <1>3, NamesAssumption DEF NotFollowed
  <2>3. expr.form = "bare" => BareRef(expr)
    BY <2>1 DEF OriginInv, Follows, WellFormed, BareRef
  <2>4. Passed(Nowhere) = "elsewhere"
    BY <2>2, <2>3 DEF Passed, Name
  <2>5. Visible(cfg) => ~Unset /\ ~SetLiteral /\ ~ModuleDefault
    BY <1>a, <1>b, <2>1, <2>4
  <2>6. PICK t \in {"tier2", "tier3"}, r \in Reasons \ {"not set by caller"} : End(t, NoPlace, r)
    BY <1>3 DEF NotFollowed, GiveUp, Reasons
  <2> QED
    BY <2>1, <2>5, <2>6, EndOrigin
<1>4. CASE ModuleArg
  <2> DEFINE arg == cfg.calls[depth].args[Name]
             place == ArgPlace(cfg, depth, Name)
  <2>1. /\ pc = "follow" /\ UNCHANGED cfg /\ BareRef(expr) /\ Name \in Vars /\ depth > 0
    BY <1>4 DEF ModuleArg, Following
  <2>2. place # Nowhere /\ depth \in 1..Len(cfg.calls)
    BY <1>0, <2>1, NowhereElse
  <2>3. Visible(cfg) => \A w : Passed(w) = Value(arg, place, w, Scope(cfg, w)[depth - 1], "module default")
    BY <1>c, <2>1
  <2>4. CASE arg.form = "malformed" /\ End("error", NoPlace, "parse expression")
    BY <2>1, <2>4, EndOrigin
  <2>5. CASE arg.form = "absent" /\ End("tier3", NoPlace, "not set by caller")
    <3>1. Visible(cfg) => Passed(Nowhere) = "module default"
      BY <2>2, <2>3, <2>5 DEF Value
    <3>2. Visible(cfg) => ~Unset /\ ~SetLiteral /\ ModuleDefault
      BY <1>a, <1>b, <2>1, <3>1
    <3> QED
      BY <2>1, <2>5, <3>2, EndOrigin
  <2>6. CASE IsConstant(arg) /\ End("tier1", place, "module argument")
    <3>1. Visible(cfg) => Passed(Nowhere) = "code" /\ Passed(place) = "live"
      BY <2>2, <2>3, <2>6 DEF Value, IsConstant
    <3>2. Visible(cfg) => (Unset \/ SetLiteral) /\ ~ModuleDefault /\ Meaning(cfg, place) = "live"
      BY <1>a, <1>b, <2>1, <3>1
    <3> QED
      BY <2>1, <2>6, <3>2, EndOrigin
  <2>7. CASE /\ arg.form \in {"bare", "computed"} /\ depth' = depth - 1 /\ expr' = arg
             /\ UNCHANGED pc
    <3>1. WellFormed(arg)
      BY <1>0, <2>1, <2>2, ExprsAssumption
    <3>2. Visible(cfg) => PlainExpr(arg)
      BY <2>1, <2>2 DEF Visible
    <3>3. cfg.resource.expr.form # "absent"
      BY <2>1 DEF OriginInv, Follows
    <3>4. Visible(cfg) =>
            \A w : \/ Meaning(cfg, w) = Value(arg, place, w, Scope(cfg, w)[depth'], "module default")
                   \/ Meaning(cfg, w) = "live" /\ w # Nowhere
      BY <1>b, <2>1, <2>3, <2>7
    <3> HIDE DEF arg, place
    <3>5. Follows'
      BY <1>0, <2>1, <2>2, <2>7, <3>1, <3>2, <3>3, <3>4, NextExpr
    <3> QED
      BY <2>1, <2>7, <3>5, OnOrigin
  <2> QED
    BY <1>4, <2>4, <2>5, <2>6, <2>7 DEF ModuleArg, Fail, GiveUp, CallerFrame
<1>5. CASE RootVar
  <2>1. /\ pc = "follow" /\ UNCHANGED cfg /\ BareRef(expr) /\ Name \in Vars /\ depth = 0
    BY <1>5 DEF RootVar, Following
  <2>2. Visible(cfg) => \A w : Passed(w) = RootValue(cfg, w, Name)
    BY <1>c, <2>1
  <2>3. ASSUME NEW p, NEW r, End("tier1", p, r), p # Nowhere, r # "not set by caller",
               Visible(cfg) => \A w : RootValue(cfg, w, Name) = IF w = p THEN "live" ELSE "code"
        PROVE  OriginInv'
    <3>1. Visible(cfg) => Passed(Nowhere) = "code" /\ Passed(p) = "live"
      BY <2>2, <2>3
    <3>2. Visible(cfg) => (Unset \/ SetLiteral) /\ ~ModuleDefault /\ Meaning(cfg, p) = "live"
      BY <1>a, <1>b, <2>1, <3>1
    <3> QED
      BY <2>1, <2>3, <3>2, EndOrigin
  <2>4. CASE /\ Defining(cfg, Name) # {}
             /\ End("tier1", TfvarsPlace(cfg, FindTfvarsAttr(cfg, Name), Name), "tfvars")
    <3>1. TfvarsPlace(cfg, FindTfvarsAttr(cfg, Name), Name) # Nowhere
      BY <2>1, NowhereElse
    <3>2. Visible(cfg) => \A w : RootValue(cfg, w, Name) =
            IF w = TfvarsPlace(cfg, FindTfvarsAttr(cfg, Name), Name) THEN "live" ELSE "code"
      BY <1>0, <2>1, <2>4, RootMeans
    <3> QED
      BY <2>3, <2>4, <3>1, <3>2
  <2>5. CASE /\ Defining(cfg, Name) = {} /\ Name \in cfg.defaults
             /\ End("tier1", DefaultPlace(cfg, Name), "default")
    <3>1. DefaultPlace(cfg, Name) # Nowhere
      BY <2>1, NowhereElse
    <3>2. Visible(cfg) => \A w : RootValue(cfg, w, Name) =
            IF w = DefaultPlace(cfg, Name) THEN "live" ELSE "code"
      BY <1>0, <2>1, <2>5, RootMeans
    <3> QED
      BY <2>3, <2>5, <3>1, <3>2
  <2>6. CASE /\ Defining(cfg, Name) = {} /\ Name \notin cfg.defaults
             /\ End("tier3", NoPlace, "unset variable")
    <3>1. Visible(cfg) => Passed(Nowhere) = "unset"
      BY <1>0, <2>1, <2>2, <2>6, RootMeans
    <3>2. Visible(cfg) => ~Unset /\ ~SetLiteral /\ ~ModuleDefault
      BY <1>a, <1>b, <2>1, <3>1
    <3> QED
      BY <2>1, <2>6, <3>2, EndOrigin
  <2> QED
    BY <1>5, <2>4, <2>5, <2>6 DEF RootVar, GiveUp
<1>6. CASE TooDeep
  <2>1. UNCHANGED cfg /\ End("tier3", NoPlace, "too deep")
    BY <1>6 DEF TooDeep, GiveUp
  <2> QED
    BY <2>1, EndOrigin
<1>7. CASE UNCHANGED vars
  BY <1>7 DEF vars, OriginInv, Follows, SameMeaning, Passed, EditTakesEffect, TierTellsOrigin,
     Deterministic, Unset, SetLiteral, ModuleDefault
<1> QED
  BY <1>1, <1>2, <1>3, <1>4, <1>5, <1>6, <1>7 DEF Next

LEMMA OriginKept == ResSpec => []OriginInv
<1>1. ResInit => OriginInv
  BY OriginInit DEF ResInit
<1>2. ResTypeOK /\ OriginInv /\ [ResNext]_rvars => OriginInv'
  <2>1. [ResNext]_rvars => [Next]_vars
    BY DEF ResNext, Walk, EditTarget, AskServer, LeaveToHuman, Settle, rvars
  <2> QED
    BY <2>1, OriginNext DEF ResTypeOK
<1> QED
  BY <1>1, <1>2, ResTypeCorrect, PTL DEF ResSpec

\* The edit that the client makes without asking anybody takes effect: with the
\* live value at the place Walk names (internal/provenance), Terraform computes
\* the live value for the attribute, through any number of nested modules.
THEOREM EditsTakeEffect == ResSpec => []EditTakesEffect
<1>1. OriginInv => EditTakesEffect
  BY DEF OriginInv
<1> QED
  BY <1>1, OriginKept, PTL

\* The tier tells where the value comes from: tiers 0 and 1 exactly for what is
\* unset or is, unchanged, a literal that was set or that the root defaults to;
\* "not set by caller" exactly for the default inside a called module.
THEOREM TiersTellOrigin == ResSpec => []TierTellsOrigin
<1>1. OriginInv => TierTellsOrigin
  BY DEF OriginInv
<1> QED
  BY <1>1, OriginKept, PTL
=============================================================================
