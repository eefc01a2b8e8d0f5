--------------------------- MODULE ResolutionProofs ---------------------------
(***************************************************************************)
(* Theorems about the resolution of one attribute, for every configuration,*)
(* protected_paths, answer of the server and depth of nesting, with their  *)
(* TLAPS proofs.                                                           *)
(***************************************************************************)
EXTENDS Resolution, WellFoundedInduction, TLAPS

-----------------------------------------------------------------------------
(* Typing. *)

Links == [kind : Kinds, file : Located, name : Vars \cup {Attr}]

\* A configuration's arguments are expressions.
LEMMA CallTyped ==
  ASSUME cfg \in AllConfigs, NEW i \in 1..Len(cfg.calls), NEW v \in Vars
  PROVE  cfg.calls[i].args[v] \in Exprs /\ cfg.calls[i].file \in Located
<1>1. cfg.calls \in Seq(Calls)
  BY DEF AllConfigs
<1>2. cfg.calls[i] \in Calls
  BY <1>1
<1> QED
  BY <1>2 DEF Calls

Lower == {ss \in Nat \X Nat : ss[1] < ss[2]}
LEMMA LowerWellFounded == IsWellFoundedOn(Lower, Nat)
  BY NatLessThanWellFounded DEF OpToRel, Lower

\* A set of natural numbers has a least element.
LEMMA Least ==
  ASSUME NEW T \in SUBSET Nat, T # {}
  PROVE  \E x \in T : \A y \in T : x <= y
<1>1. PICK x \in T : \A y \in T : ~ (<<y, x>> \in Lower)
  BY LowerWellFounded, WFMin
<1>2. ASSUME NEW y \in T, y < x PROVE FALSE
  <2>1. <<y, x>> \in Lower
    BY <1>2 DEF Lower
  <2> QED
    BY <1>1, <2>1
<1> QED
  BY <1>2

\* Among the tfvars files that define a variable one is loaded last.
LEMMA TfvarsTyped ==
  ASSUME cfg \in AllConfigs, NEW v \in Vars, Defining(cfg, v) # {}
  PROVE  /\ FindTfvarsAttr(cfg, v) \in Defining(cfg, v)
         /\ FindTfvarsAttr(cfg, v) \in 1..Len(cfg.tfvars)
         /\ cfg.tfvars[FindTfvarsAttr(cfg, v)].file \in Files
<1> DEFINE n == Len(cfg.tfvars)
           Back(k) == n - LoadOrder(cfg, k)
<1>1. n \in Nat /\ Defining(cfg, v) \subseteq 1..n /\ cfg.tfvars \in Seq(Tfvars)
  BY DEF AllConfigs, Defining, Candidates
<1>2. \A k \in Defining(cfg, v) : LoadOrder(cfg, k) \in 0..n /\ Back(k) \in Nat
  BY <1>1 DEF LoadOrder
<1>3. PICK m \in {Back(k) : k \in Defining(cfg, v)} :
        \A y \in {Back(k) : k \in Defining(cfg, v)} : m <= y
  <2>1. {Back(k) : k \in Defining(cfg, v)} \in SUBSET Nat
    BY <1>2
  <2>2. {Back(k) : k \in Defining(cfg, v)} # {}
    OBVIOUS
  <2> HIDE DEF Back
  <2> QED
    BY <2>1, <2>2, Least
<1>4. \E k \in Defining(cfg, v) : \A j \in Defining(cfg, v) :
        LoadOrder(cfg, j) <= LoadOrder(cfg, k)
  <2>1. PICK k \in Defining(cfg, v) : m = Back(k)
    BY <1>3
  <2>2. ASSUME NEW j \in Defining(cfg, v) PROVE LoadOrder(cfg, j) <= LoadOrder(cfg, k)
    <3>1. Back(k) <= Back(j)
      BY <1>3, <2>1
    <3> QED
      BY <1>1, <1>2, <3>1
  <2> QED
    BY <2>2
<1>5. FindTfvarsAttr(cfg, v) \in Defining(cfg, v)
  BY <1>4 DEF FindTfvarsAttr
<1>6. FindTfvarsAttr(cfg, v) \in 1..n
  BY <1>1, <1>5
<1>7. cfg.tfvars[FindTfvarsAttr(cfg, v)] \in Tfvars
  BY <1>1, <1>6
<1> QED
  BY <1>5, <1>6, <1>7 DEF Tfvars

LEMMA PlacesTyped ==
  ASSUME cfg \in AllConfigs
  PROVE  /\ NoPlace \in Places /\ ResourcePlace(cfg) \in Places
         /\ \A v \in Vars : DefaultPlace(cfg, v) \in Places
         /\ \A i \in 1..Len(cfg.calls), v \in Vars : ArgPlace(cfg, i, v) \in Places
         /\ \A v \in Vars : Defining(cfg, v) # {} =>
              TfvarsPlace(cfg, FindTfvarsAttr(cfg, v), v) \in Places
<1>1. NoPlace \in Places
  BY DEF NoPlace, Places, Located
<1>2. ResourcePlace(cfg) \in Places
  BY DEF ResourcePlace, Places, AllConfigs
<1>3. \A v \in Vars : DefaultPlace(cfg, v) \in Places
  BY DEF DefaultPlace, Places, AllConfigs
<1>4. ASSUME NEW i \in 1..Len(cfg.calls), NEW v \in Vars PROVE ArgPlace(cfg, i, v) \in Places
  <2>1. cfg.calls[i].file \in Located /\ i \in Nat
    BY CallTyped DEF AllConfigs
  <2> QED
    BY <2>1 DEF ArgPlace, Places
<1>5. ASSUME NEW v \in Vars, Defining(cfg, v) # {}
      PROVE  TfvarsPlace(cfg, FindTfvarsAttr(cfg, v), v) \in Places
  BY <1>5, TfvarsTyped DEF TfvarsPlace, Places, Located
<1> QED
  BY <1>1, <1>2, <1>3, <1>4, <1>5

\* What changes in a step of the walk, with the type of its next value.
Outcome == pc \in {"frames", "follow", "done"}
           /\ result \in [tier : Tiers, target : Places, why : Reasons]

LEMMA EndTyped ==
  ASSUME NEW t \in Tiers, NEW p \in Places, NEW r \in Reasons, End(t, p, r)
  PROVE  Outcome'
  BY DEF End, Outcome

LEMMA LinkTyped ==
  ASSUME TypeOK, NEW k \in Kinds, NEW f \in Located, NEW n \in Vars \cup {Attr},
         chain' = Append(chain, Link(k, f, n))
  PROVE  chain' \in Seq(Links)
  BY DEF TypeOK, Link, Links

LEMMA WalkTyped == TypeOK /\ [Next]_vars => TypeOK'
<1> SUFFICES ASSUME TypeOK, [Next]_vars PROVE TypeOK'
  OBVIOUS
<1> SUFFICES /\ Outcome' /\ depth' \in 0..Len(cfg.calls) /\ hops' \in 0..MaxHops
             /\ expr' \in Exprs /\ chain' \in Seq(Links) /\ cfg' = cfg
  BY DEF TypeOK, Outcome, Links
<1>0. /\ Outcome /\ depth \in 0..Len(cfg.calls) /\ hops \in 0..MaxHops /\ MaxHops \in Nat
      /\ expr \in Exprs /\ chain \in Seq(Links) /\ cfg \in AllConfigs
      /\ Len(cfg.calls) \in Nat
  BY MaxHopsAssumption DEF TypeOK, Outcome, Links, AllConfigs
<1>1. CASE Descend
  <2>1. /\ depth' \in 0..Len(cfg.calls)
        /\ UNCHANGED <<cfg, expr, hops, chain>>
    <3>1. /\ UNCHANGED depth \/ (depth < Len(cfg.calls) /\ depth' = depth + 1)
          /\ UNCHANGED <<cfg, expr, hops, chain>>
      BY <1>1 DEF Descend
    <3> QED
      BY <1>0, <3>1
  <2>2. Outcome'
    <3>1. CASE UNCHANGED <<pc, result>>
      BY <1>0, <3>1 DEF Outcome
    <3>2. CASE Fail("module call not found") \/ GiveUp("tier3", "non-local source")
      BY <1>0, <3>2, EndTyped, PlacesTyped DEF Fail, GiveUp, Tiers, Reasons
    <3> QED
      BY <1>1, <3>1, <3>2 DEF Descend
  <2> QED
    BY <1>0, <2>1, <2>2
<1>2. CASE FindResource
  <2>1. UNCHANGED <<cfg, depth, hops>>
    BY <1>2 DEF FindResource
  <2>2. cfg.resource.expr \in Exprs /\ cfg.resource.file \in Located
    BY <1>0 DEF AllConfigs
  <2>3. expr' \in Exprs
    BY <1>0, <1>2, <2>2 DEF FindResource
  <2>4. chain' \in Seq(Links)
    <3>1. <<Link("resource_attr", cfg.resource.file, Attr)>> \in Seq(Links)
      BY <2>2 DEF Link, Links, Kinds
    <3> QED
      BY <1>0, <1>2, <3>1 DEF FindResource
  <2>5. Outcome'
    <3>1. CASE pc' = "follow" /\ UNCHANGED result
      BY <1>0, <3>1 DEF Outcome
    <3>2. CASE Fail("resource not found") \/ Fail("parse expression")
               \/ End("tier0", ResourcePlace(cfg), "literal")
      BY <1>0, <3>2, EndTyped, PlacesTyped DEF Fail, Tiers, Reasons
    <3> QED
      BY <1>2, <3>1, <3>2 DEF FindResource
  <2> QED
    BY <1>0, <2>1, <2>3, <2>4, <2>5
<1>3. CASE NotFollowed
  <2>1. UNCHANGED <<cfg, depth, expr, hops, chain>>
    BY <1>3 DEF NotFollowed
  <2>2. Outcome'
    BY <1>0, <1>3, EndTyped, PlacesTyped DEF NotFollowed, GiveUp, Tiers, Reasons
  <2> QED
    BY <1>0, <2>1, <2>2
<1>4. CASE ModuleArg
  <2>1. /\ depth \in 1..Len(cfg.calls) /\ Name \in Vars /\ cfg' = cfg
        /\ hops \in 0..(MaxHops - 1)
    <3>1. depth > 0 /\ hops < MaxHops /\ Name \in Vars /\ cfg' = cfg
      BY <1>4 DEF ModuleArg, Following
    <3> QED
      BY <1>0, <3>1
  <2>2. cfg.calls[depth].args[Name] \in Exprs /\ cfg.calls[depth].file \in Located
    BY <1>0, <2>1, CallTyped
  <2>3. chain' \in Seq(Links)
    BY <1>0, <1>4, <2>1, <2>2, LinkTyped DEF ModuleArg, Kinds
  <2>4. depth' \in 0..Len(cfg.calls) /\ hops' \in 0..MaxHops /\ expr' \in Exprs
    <3>1. \/ UNCHANGED <<depth, expr, hops>>
          \/ /\ depth' = depth - 1 /\ hops' = hops + 1
             /\ expr' = cfg.calls[depth].args[Name]
      BY <1>4 DEF ModuleArg, CallerFrame
    <3> QED
      BY <1>0, <2>1, <2>2, <3>1
  <2>5. Outcome'
    <3>1. CASE UNCHANGED <<pc, result>>
      BY <1>0, <3>1 DEF Outcome
    <3>2. CASE Fail("parse expression") \/ GiveUp("tier3", "not set by caller")
               \/ End("tier1", ArgPlace(cfg, depth, Name), "module argument")
      BY <1>0, <2>1, <3>2, EndTyped, PlacesTyped DEF Fail, GiveUp, Tiers, Reasons
    <3> QED
      BY <1>4, <3>1, <3>2 DEF ModuleArg
  <2> QED
    BY <2>1, <2>3, <2>4, <2>5
<1>5. CASE RootVar
  <2>1. Name \in Vars /\ UNCHANGED <<cfg, depth, expr, hops>>
    BY <1>5 DEF RootVar
  <2>2. CASE /\ Defining(cfg, Name) # {}
             /\ chain' = Append(chain, Link("tfvars",
                            cfg.tfvars[FindTfvarsAttr(cfg, Name)].file, Name))
             /\ End("tier1", TfvarsPlace(cfg, FindTfvarsAttr(cfg, Name), Name), "tfvars")
    <3>1. Outcome'
      BY <1>0, <2>1, <2>2, EndTyped, PlacesTyped DEF Tiers, Reasons
    <3>2. chain' \in Seq(Links)
      BY <1>0, <2>1, <2>2, LinkTyped, TfvarsTyped DEF Kinds, Located
    <3> QED
      BY <1>0, <2>1, <3>1, <3>2
  <2>3. CASE /\ chain' = Append(chain, Link("default", cfg.varFile[Name], Name))
             /\ End("tier1", DefaultPlace(cfg, Name), "default")
    <3>1. Outcome'
      BY <1>0, <2>1, <2>3, EndTyped, PlacesTyped DEF Tiers, Reasons
    <3>2. cfg.varFile[Name] \in Located
      BY <1>0, <2>1 DEF AllConfigs
    <3>3. chain' \in Seq(Links)
      BY <2>1, <2>3, <3>2, LinkTyped DEF Kinds
    <3> QED
      BY <1>0, <2>1, <3>1, <3>3
  <2>4. CASE /\ chain' = Append(chain, Link("root_var", NoFile, Name))
             /\ GiveUp("tier3", "unset variable")
    <3>1. Outcome'
      BY <1>0, <2>4, EndTyped, PlacesTyped DEF GiveUp, Tiers, Reasons
    <3>2. chain' \in Seq(Links)
      BY <2>1, <2>4, LinkTyped DEF Kinds, Located
    <3> QED
      BY <1>0, <2>1, <3>1, <3>2
  <2> QED
    BY <1>5, <2>2, <2>3, <2>4 DEF RootVar
<1>6. CASE TooDeep
  <2>1. UNCHANGED <<cfg, depth, expr, hops, chain>>
    BY <1>6 DEF TooDeep
  <2>2. Outcome'
    BY <1>0, <1>6, EndTyped, PlacesTyped DEF TooDeep, GiveUp, Tiers, Reasons
  <2> QED
    BY <1>0, <2>1, <2>2
<1>7. CASE UNCHANGED vars
  BY <1>0, <1>7 DEF vars, Outcome
<1> QED
  BY <1>1, <1>2, <1>3, <1>4, <1>5, <1>6, <1>7 DEF Next

LEMMA SettleTyped ==
  ASSUME ResTypeOK, NEW s \in {"resolved", "could-not-fix", "skipped-protected"},
         NEW es \in Seq(AllEdits), Settle(s, es)
  PROVE  ResTypeOK'
  BY WalkTyped DEF Settle, ResTypeOK

\* Every variable of the walk and of the resolution keeps its type; the loop of
\* the walk in particular stays within its bound.
THEOREM ResTypeCorrect == ResSpec => []ResTypeOK
<1>1. ResInit => ResTypeOK
  <2> SUFFICES ASSUME ResInit PROVE ResTypeOK
    OBVIOUS
  <2>1. cfg \in AllConfigs /\ Len(cfg.calls) \in Nat
    BY ConfigsAssumption DEF ResInit, Init, AllConfigs
  <2>2. Absent \in Exprs
    BY DEF Absent, Exprs, Forms
  <2>3. NoPlace \in Places
    BY <2>1, PlacesTyped
  <2>4. TypeOK
    BY <2>1, <2>2, <2>3, MaxHopsAssumption DEF ResInit, Init, TypeOK, Tiers, Reasons
  <2> QED
    BY <2>4 DEF ResInit, ResTypeOK
<1>2. ResTypeOK /\ [ResNext]_rvars => ResTypeOK'
  <2> SUFFICES ASSUME ResTypeOK, [ResNext]_rvars PROVE ResTypeOK'
    OBVIOUS
  <2>0. <<>> \in Seq(AllEdits)
    OBVIOUS
  <2>1. CASE Walk
    BY <2>1, WalkTyped DEF Walk, ResTypeOK
  <2>2. CASE UNCHANGED rvars
    BY <2>2, WalkTyped DEF rvars, ResTypeOK
  <2>4. CASE EditTarget
    <3>1. result.target \in Places
      BY DEF ResTypeOK, TypeOK
    <3>2. [file |-> result.target.file, block |-> result.target.block,
           attribute |-> result.target.attribute, op |-> "set"] \in AllEdits
      BY <3>1 DEF Places, AllEdits, Blocks
    <3>3. <<[file |-> result.target.file, block |-> result.target.block,
             attribute |-> result.target.attribute, op |-> "set"]>> \in Seq(AllEdits)
      BY <3>2
    <3> QED
      BY <2>4, <3>3, SettleTyped DEF EditTarget
  <2>5. CASE AskServer
    <3>1. \/ Settle("could-not-fix", <<>>) \/ Settle("skipped-protected", <<>>)
          \/ \E p \in Proposals : Settle("resolved", p)
      BY <2>5 DEF AskServer
    <3>2. \A p \in Proposals : p \in Seq(AllEdits)
      BY ProposalsAssumption
    <3> QED
      BY <2>0, <3>1, <3>2, SettleTyped
  <2>6. CASE LeaveToHuman
    BY <2>0, <2>6, SettleTyped DEF LeaveToHuman
  <2> QED
    BY <2>1, <2>2, <2>4, <2>5, <2>6 DEF ResNext
<1> QED
  BY <1>1, <1>2, PTL DEF ResSpec

-----------------------------------------------------------------------------
(* The chain is the route of the value.  While the walk follows references,   *)
(* the length of the chain and the frame of the expression determine one      *)
(* another: every call passed adds a link and leaves a frame.                 *)

Source == IF Len(chain) = 1 THEN cfg.resource.expr
          ELSE cfg.calls[depth + 1].args[chain[Len(chain)].name]
RouteInv ==
  /\ pc = "frames" => chain = <<>>
  /\ pc = "follow" => /\ Len(chain) >= 1 /\ depth = Len(cfg.calls) - Len(chain) + 1
                      /\ expr = Source
  /\ \A i \in 2..Len(chain) : chain[i].kind # "resource_attr"
  /\ ChainIsRoute

\* One more link, for the variable that the followed expression refers to.
LEMMA AppendRoute ==
  ASSUME TypeOK, RouteInv, pc = "follow", NEW l \in Links,
         Len(expr.refs) = 1, l.name = expr.refs[1], l.kind # "resource_attr",
         chain' = Append(chain, l), cfg' = cfg,
         depth > 0 => l.kind = "module_arg" /\ l.file = cfg.calls[depth].file,
         depth = 0 => pc' = "done"
  PROVE  /\ \A i \in 2..Len(chain') : chain'[i].kind # "resource_attr"
         /\ ChainIsRoute'
         /\ chain'[Len(chain')] = l /\ Len(chain') = Len(chain) + 1
<1> DEFINE n == Len(chain)
<1>1. /\ chain \in Seq(Links) /\ n \in Nat /\ n >= 1 /\ Len(cfg.calls) \in Nat
      /\ depth = Len(cfg.calls) - n + 1 /\ depth \in Nat /\ expr = Source
  BY DEF TypeOK, RouteInv, Links, AllConfigs
<1>2. /\ Len(chain') = n + 1 /\ chain'[n + 1] = l
      /\ \A i \in 1..n : chain'[i] = chain[i]
  BY <1>1
<1>3. \A i \in 2..Len(chain') : chain'[i].kind # "resource_attr"
  BY <1>1, <1>2 DEF RouteInv
<1>4. ASSUME NEW i \in 1..n PROVE OnRoute(i)'
  <2>1. CASE i = n
    <3>1. Len(cfg.calls) - i + 1 = depth
      BY <1>1, <2>1
    <3>2. chain'[i + 1] = l /\ chain'[i] = chain[n]
      BY <1>1, <1>2, <2>1
    <3>3. IF i = 1 THEN expr = cfg.resource.expr
          ELSE expr = cfg.calls[depth + 1].args[chain[i].name]
      BY <1>1, <2>1 DEF Source
    <3> QED
      BY <1>1, <1>2, <2>1, <3>1, <3>2, <3>3 DEF OnRoute
  <2>2. CASE i < n
    <3>1. i \in 1..(n - 1) /\ i + 1 \in 1..n /\ Len(cfg.calls) - i + 1 > 0
      BY <1>1, <2>2
    <3>2. chain'[i] = chain[i] /\ chain'[i + 1] = chain[i + 1]
      BY <1>2, <3>1
    <3> QED
      BY <1>1, <3>1, <3>2 DEF RouteInv, ChainIsRoute, OnRoute
  <2> QED
    BY <1>1, <2>1, <2>2
<1> QED
  BY <1>1, <1>2, <1>3, <1>4 DEF ChainIsRoute

LEMMA RouteEnd ==
  ASSUME RouteInv, pc # "done", pc' = "done", UNCHANGED <<chain, cfg>>
  PROVE  RouteInv'
  BY DEF RouteInv, ChainIsRoute, OnRoute

LEMMA RouteNext == TypeOK /\ RouteInv /\ [Next]_vars => RouteInv'
<1> SUFFICES ASSUME TypeOK, RouteInv, [Next]_vars PROVE RouteInv'
  OBVIOUS
<1>0. /\ chain \in Seq(Links) /\ cfg \in AllConfigs /\ Len(cfg.calls) \in Nat
      /\ depth \in 0..Len(cfg.calls) /\ Len(chain) \in Nat
  BY DEF TypeOK, Links, AllConfigs
<1>1. CASE Descend
  <2>1. chain = <<>> /\ UNCHANGED <<chain, cfg>> /\ pc' \in {"frames", "done"}
    BY <1>1 DEF Descend, Fail, GiveUp, End, RouteInv
  <2> QED
    BY <2>1 DEF RouteInv, ChainIsRoute
<1>2. CASE FindResource
  <2>1. CASE UNCHANGED chain /\ pc' = "done"
    BY <1>2, <2>1, RouteEnd DEF FindResource
  <2>2. CASE /\ chain' = <<Link("resource_attr", cfg.resource.file, Attr)>>
             /\ expr' = cfg.resource.expr
    <3>1. depth' = Len(cfg'.calls) /\ Len(chain') = 1 /\ pc' \in {"follow", "done"}
      BY <1>2, <2>2 DEF FindResource, Fail, End
    <3>2. cfg' = cfg
      BY <1>2 DEF FindResource
    <3>3. expr' = Source'
      BY <2>2, <3>1, <3>2 DEF Source
    <3>4. ChainIsRoute' /\ \A i \in 2..Len(chain') : chain'[i].kind # "resource_attr"
      BY <3>1 DEF ChainIsRoute
    <3>5. depth' = Len(cfg'.calls) - Len(chain') + 1
      BY <1>0, <3>1, <3>2
    <3> QED
      BY <3>1, <3>3, <3>4, <3>5 DEF RouteInv
  <2> QED
    BY <1>2, <2>1, <2>2 DEF FindResource, Fail, End
<1>3. CASE NotFollowed \/ TooDeep
  BY <1>3, RouteEnd DEF NotFollowed, TooDeep, Following, GiveUp, End
<1>4. CASE ModuleArg
  <2> DEFINE l == Link("module_arg", cfg.calls[depth].file, Name)
  <2>1. /\ pc = "follow" /\ Len(expr.refs) = 1 /\ depth > 0 /\ Name \in Vars
        /\ cfg' = cfg /\ chain' = Append(chain, l)
    BY <1>4 DEF ModuleArg, Following, BareRef
  <2>2. l \in Links /\ l.kind = "module_arg" /\ l.file = cfg.calls[depth].file
        /\ l.name = expr.refs[1]
    BY <1>0, <2>1, CallTyped DEF Link, Links, Kinds, Name
  <2> HIDE DEF l
  <2>3. /\ \A i \in 2..Len(chain') : chain'[i].kind # "resource_attr"
        /\ ChainIsRoute'
        /\ chain'[Len(chain')] = l /\ Len(chain') = Len(chain) + 1
    BY <2>1, <2>2, AppendRoute
  <2>4. CASE pc' = "done"
    BY <2>3, <2>4 DEF RouteInv
  <2>5. CASE pc' = "follow" /\ depth' = depth - 1 /\ expr' = cfg.calls[depth].args[Name]
    <3>1. Len(chain) >= 1 /\ depth = Len(cfg.calls) - Len(chain) + 1
      BY <2>1 DEF RouteInv
    <3>2. depth' = Len(cfg.calls) - Len(chain') + 1 /\ Len(chain') > 1 /\ depth' + 1 = depth
      BY <1>0, <2>3, <2>5, <3>1
    <3>3. expr' = Source'
      BY <2>1, <2>2, <2>3, <2>5, <3>2 DEF Source, Name
    <3> QED
      BY <2>1, <2>3, <2>5, <3>2, <3>3 DEF RouteInv
  <2> QED
    BY <1>4, <2>1, <2>4, <2>5 DEF ModuleArg, Fail, GiveUp, End, CallerFrame
<1>5. CASE RootVar
  <2>1. /\ pc = "follow" /\ pc' = "done" /\ Len(expr.refs) = 1 /\ depth = 0
        /\ Name \in Vars /\ cfg' = cfg
    BY <1>5 DEF RootVar, Following, BareRef, GiveUp, End
  <2>2. \E l \in Links : /\ chain' = Append(chain, l) /\ l.name = Name
                         /\ l.kind # "resource_attr"
    <3>1. CASE /\ Defining(cfg, Name) # {}
               /\ chain' = Append(chain, Link("tfvars",
                              cfg.tfvars[FindTfvarsAttr(cfg, Name)].file, Name))
      BY <1>0, <2>1, <3>1, TfvarsTyped DEF Link, Links, Kinds, Located
    <3>2. CASE chain' = Append(chain, Link("default", cfg.varFile[Name], Name))
      <4>1. cfg.varFile[Name] \in Located
        BY <1>0, <2>1 DEF AllConfigs
      <4> QED
        BY <2>1, <3>2, <4>1 DEF Link, Links, Kinds
    <3>3. CASE chain' = Append(chain, Link("root_var", NoFile, Name))
      BY <2>1, <3>3 DEF Link, Links, Kinds, Located
    <3> QED
      BY <1>5, <3>1, <3>2, <3>3 DEF RootVar
  <2>3. /\ \A i \in 2..Len(chain') : chain'[i].kind # "resource_attr"
        /\ ChainIsRoute'
    BY <2>1, <2>2, AppendRoute DEF Name
  <2> QED
    BY <2>1, <2>3 DEF RouteInv
<1>6. CASE UNCHANGED vars
  BY <1>6 DEF vars, RouteInv, ChainIsRoute, OnRoute, Source
<1> QED
  BY <1>1, <1>2, <1>3, <1>4, <1>5, <1>6 DEF Next

\* The links of the chain are the variables the value passes through, in order,
\* each argument in the file of its call, up to the root and no further.
THEOREM ChainAlwaysRoute == ResSpec => []ChainIsRoute
<1>1. ResInit => RouteInv
  BY DEF ResInit, Init, RouteInv, ChainIsRoute
<1>2. ResTypeOK /\ RouteInv /\ [ResNext]_rvars => RouteInv'
  <2>1. [ResNext]_rvars => [Next]_vars
    BY DEF ResNext, Walk, EditTarget, AskServer, LeaveToHuman, Settle, rvars
  <2> QED
    BY <2>1, RouteNext DEF ResTypeOK
<1>3. RouteInv => ChainIsRoute
  BY DEF RouteInv
<1> QED
  BY <1>1, <1>2, <1>3, ResTypeCorrect, PTL DEF ResSpec

-----------------------------------------------------------------------------
(* Protected files.  The client edits on its own only at the end of the       *)
(* chain, and what the server may edit is on the chain, below which only the  *)
(* attribute itself lies.                                                     *)

EndInv ==
  /\ Deterministic => chain # <<>> /\ result.target.file = chain[Len(chain)].file
  /\ pc = "done" /\ result.tier = "tier2" => result.target.file = NoFile
TopInv ==
  /\ status = "pending" => edits = <<>>
  /\ status # "pending" => pc = "done"
  /\ ProtectedOnlyAtTheTop

LEMMA EndNext == TypeOK /\ EndInv /\ [Next]_vars => EndInv'
<1> SUFFICES ASSUME TypeOK, EndInv, [Next]_vars PROVE EndInv'
  OBVIOUS
<1>0. chain \in Seq(Links) /\ Len(chain) \in Nat
  BY DEF TypeOK, Links
<1> DEFINE Done(t, p) == \E why : End(t, p, why)
<1>1. ASSUME NEW t, Done(t, NoPlace), t \notin {"tier0", "tier1"} PROVE EndInv'
  BY <1>1 DEF End, EndInv, Deterministic, NoPlace
<1>2. ASSUME NEW t \in {"tier0", "tier1"}, NEW p, NEW k, NEW n, Done(t, p),
             chain' = Append(chain, Link(k, p.file, n)) \/ chain' = <<Link(k, p.file, n)>>
      PROVE  EndInv'
  <2> DEFINE l == Link(k, p.file, n)
  <2>1. chain \in Seq(Links \cup {l}) /\ l \in Links \cup {l}
    BY <1>0
  <2>2. l.file = p.file
    BY DEF Link
  <2> HIDE DEF l
  <2>3. chain' = Append(chain, l) \/ chain' = <<l>>
    BY <1>2 DEF l
  <2>4. CASE chain' = Append(chain, l)
    <3>1. /\ Append(chain, l) # <<>>
          /\ Append(chain, l)[Len(Append(chain, l))] = l
      BY <2>1, <1>0
    <3> QED
      BY <1>2, <2>2, <2>4, <3>1 DEF End, EndInv, Deterministic
  <2>5. CASE chain' = <<l>>
    BY <1>2, <2>2, <2>5 DEF End, EndInv, Deterministic
  <2> QED
    BY <2>3, <2>4, <2>5
<1>3. ASSUME pc' # "done" PROVE EndInv'
  BY <1>3 DEF EndInv, Deterministic
<1>4. CASE Descend
  <2>1. pc' # "done" \/ Done("error", NoPlace) \/ Done("tier3", NoPlace)
    BY <1>4 DEF Descend, Fail, GiveUp
  <2> QED
    BY <1>1, <1>3, <2>1
<1>5. CASE FindResource
  <2>1. \/ pc' # "done" \/ Done("error", NoPlace)
        \/ /\ Done("tier0", ResourcePlace(cfg))
           /\ chain' = <<Link("resource_attr", cfg.resource.file, Attr)>>
    BY <1>5 DEF FindResource, Fail
  <2>2. ResourcePlace(cfg).file = cfg.resource.file
    BY DEF ResourcePlace
  <2> QED
    BY <1>1, <1>2, <1>3, <2>1, <2>2
<1>6. CASE NotFollowed \/ TooDeep
  <2>1. Done("tier2", NoPlace) \/ Done("tier3", NoPlace)
    BY <1>6 DEF NotFollowed, TooDeep, GiveUp
  <2> QED
    BY <1>1, <2>1
<1>7. CASE ModuleArg
  <2>1. \/ pc' # "done" \/ Done("error", NoPlace) \/ Done("tier3", NoPlace)
        \/ /\ Done("tier1", ArgPlace(cfg, depth, Name))
           /\ chain' = Append(chain, Link("module_arg", cfg.calls[depth].file, Name))
    BY <1>7 DEF ModuleArg, Following, Fail, GiveUp
  <2>2. ArgPlace(cfg, depth, Name).file = cfg.calls[depth].file
    BY DEF ArgPlace
  <2> QED
    BY <1>1, <1>2, <1>3, <2>1, <2>2
<1>8. CASE RootVar
  <2> DEFINE k == FindTfvarsAttr(cfg, Name)
  <2>1. \/ Done("tier3", NoPlace)
        \/ /\ Done("tier1", TfvarsPlace(cfg, k, Name))
           /\ chain' = Append(chain, Link("tfvars", cfg.tfvars[k].file, Name))
        \/ /\ Done("tier1", DefaultPlace(cfg, Name))
           /\ chain' = Append(chain, Link("default", cfg.varFile[Name], Name))
    BY <1>8 DEF RootVar, GiveUp
  <2>2. /\ TfvarsPlace(cfg, k, Name).file = cfg.tfvars[k].file
        /\ DefaultPlace(cfg, Name).file = cfg.varFile[Name]
    BY DEF TfvarsPlace, DefaultPlace
  <2> QED
    BY <1>1, <1>2, <2>1, <2>2
<1>9. CASE UNCHANGED vars
  BY <1>9 DEF vars, EndInv, Deterministic
<1> QED
  BY <1>4, <1>5, <1>6, <1>7, <1>8, <1>9 DEF Next

\* An edit the guards let through.
LEMMA GuardedTop ==
  ASSUME RouteInv, EndInv, chain \in Seq(Links), pc = "done", result.tier = "tier2",
         NEW e, Guard(e), GuardMinimal(e), e.op # "ignore", Protected(e.file, globs),
         NEW j \in 1..Len(chain)
  PROVE  \/ Protected(chain[j].file, globs) \/ chain[j].file = NoFile
         \/ \E k \in j..Len(chain) : chain[k].file = e.file
<1>1. PICK k \in 1..Len(chain) : chain[k].file = e.file
  BY DEF GuardMinimal, AllowedFiles, Hops, EndInv
<1>2. CASE chain[j].kind = "resource_attr"
  <2>1. j = 1
    BY <1>2 DEF RouteInv
  <2> QED
    BY <1>1, <2>1
<1> QED
  BY <1>2 DEF Guard

LEMMA TopNext ==
  ResTypeOK /\ RouteInv /\ EndInv /\ TopInv /\ [ResNext]_rvars => TopInv'
<1> SUFFICES ASSUME ResTypeOK, RouteInv, EndInv, TopInv, [ResNext]_rvars PROVE TopInv'
  OBVIOUS
<1>0. chain \in Seq(Links) /\ Len(chain) \in Nat
  BY DEF ResTypeOK, TypeOK, Links
<1>1. CASE Walk
  <2>1. pc # "done" /\ UNCHANGED <<globs, status, edits>>
    BY <1>1 DEF Walk, Next, Descend, FindResource, NotFollowed, ModuleArg, RootVar,
       TooDeep, Following
  <2> QED
    BY <2>1 DEF TopInv, ProtectedOnlyAtTheTop
<1>2. ASSUME NEW s \in {"could-not-fix", "skipped-protected"}, Settle(s, <<>>)
      PROVE  TopInv'
  BY <1>2 DEF Settle, vars, TopInv, ProtectedOnlyAtTheTop
<1>3. ASSUME NEW es, Settle("resolved", es),
             ASSUME NEW i \in 1..Len(es), NEW j \in 1..Len(chain),
                    es[i].op # "ignore", Protected(es[i].file, globs)
             PROVE  \/ Protected(chain[j].file, globs) \/ chain[j].file = NoFile
                    \/ \E k \in j..Len(chain) : chain[k].file = es[i].file
      PROVE  TopInv'
  <2>1. edits' = es /\ UNCHANGED <<chain, globs, pc>> /\ pc = "done" /\ status' = "resolved"
    BY <1>3 DEF Settle, vars
  <2>2. ProtectedOnlyAtTheTop'
    BY <1>3, <2>1 DEF ProtectedOnlyAtTheTop
  <2> QED
    BY <2>1, <2>2 DEF TopInv
<1>4. CASE EditTarget
  <2> DEFINE e == [file |-> result.target.file, block |-> result.target.block,
                   attribute |-> result.target.attribute, op |-> "set"]
  <2>1. /\ Settle("resolved", <<e>>) /\ chain # <<>>
        /\ e.file = chain[Len(chain)].file
    BY <1>4 DEF EditTarget, EndInv
  <2>2. ASSUME NEW i \in 1..Len(<<e>>), NEW j \in 1..Len(chain)
        PROVE  \E k \in j..Len(chain) : chain[k].file = <<e>>[i].file
    BY <1>0, <2>1, <2>2
  <2> HIDE DEF e
  <2> QED
    BY <1>3, <2>1, <2>2
<1>5. CASE AskServer
  <2>1. CASE \E s \in {"could-not-fix", "skipped-protected"} : Settle(s, <<>>)
    BY <1>2, <2>1
  <2>2. ASSUME NEW p \in Proposals, \A i \in 1..Len(p) : Guard(p[i]) /\ GuardMinimal(p[i]),
               Settle("resolved", p)
        PROVE  TopInv'
    <3>1. pc = "done" /\ result.tier = "tier2"
      BY <1>5, <2>2 DEF AskServer, Settle
    <3> QED
      BY <1>0, <1>3, <2>2, <3>1, GuardedTop
  <2> QED
    BY <1>5, <2>1, <2>2 DEF AskServer
<1>6. CASE LeaveToHuman
  BY <1>2, <1>6 DEF LeaveToHuman
<1>7. CASE UNCHANGED rvars
  BY <1>7 DEF rvars, vars, TopInv, ProtectedOnlyAtTheTop
<1> QED
  BY <1>1, <1>4, <1>5, <1>6, <1>7 DEF ResNext

\* A protected file is edited only when no place further up the chain is free:
\* by the guards for what the server proposes, and by the walk, which has no
\* place further up, for what the client edits without asking them.
THEOREM ProtectedEditedAtTheTop == ResSpec => []ProtectedOnlyAtTheTop
<1>1. ResInit => RouteInv /\ EndInv /\ TopInv
  BY DEF ResInit, Init, RouteInv, ChainIsRoute, EndInv, Deterministic, TopInv,
     ProtectedOnlyAtTheTop
<1>2. ResTypeOK /\ RouteInv /\ EndInv /\ TopInv /\ [ResNext]_rvars
        => RouteInv' /\ EndInv' /\ TopInv'
  <2>1. [ResNext]_rvars => [Next]_vars
    BY DEF ResNext, Walk, EditTarget, AskServer, LeaveToHuman, Settle, rvars
  <2> QED
    BY <2>1, RouteNext, EndNext, TopNext DEF ResTypeOK
<1>3. TopInv => ProtectedOnlyAtTheTop
  BY DEF TopInv
<1> QED
  BY <1>1, <1>2, <1>3, ResTypeCorrect, PTL DEF ResSpec

\* The leading ".." are as many as there are before the first other segment.
Leading(p, n) == /\ \A i \in 1..n : p[i] = ".."
                 /\ n < Len(p) => p[n + 1] # ".."

LEMMA UpsIsLeading ==
  ASSUME NEW p \in Seq(Segments)
  PROVE  Ups(p) \in 0..Len(p) /\ Leading(p, Ups(p))
<1> DEFINE ends == {n \in Nat : n <= Len(p) /\ (n < Len(p) => p[n + 1] # "..")}
<1>1. Len(p) \in ends
  OBVIOUS
<1>2. PICK n \in ends : \A m \in ends : n <= m
  BY <1>1, Least
<1>3. n \in 0..Len(p) /\ (n < Len(p) => p[n + 1] # "..")
  OBVIOUS
<1>4. \A i \in 1..n : p[i] = ".."
  <2>1. SUFFICES ASSUME NEW i \in 1..n, p[i] # ".." PROVE FALSE
    OBVIOUS
  <2>2. i - 1 \in Nat /\ i - 1 < Len(p) /\ (i - 1) + 1 = i /\ i - 1 < n
    BY <1>3
  <2>3. i - 1 \in ends
    BY <2>1, <2>2
  <2> QED
    BY <1>2, <2>2, <2>3
<1>5. Leading(p, n)
  BY <1>3, <1>4 DEF Leading
<1>6. Ups(p) = CHOOSE m \in 0..Len(p) : Leading(p, m)
  BY DEF Ups, Leading
<1> QED
  BY <1>3, <1>5, <1>6

LEMMA LeadingIsUps ==
  ASSUME NEW p \in Seq(Segments), NEW n \in 0..Len(p), Leading(p, n)
  PROVE  Ups(p) = n
<1>1. Ups(p) \in 0..Len(p) /\ Leading(p, Ups(p))
  BY UpsIsLeading
<1>2. ASSUME NEW m \in 0..Len(p), NEW l \in 0..Len(p), Leading(p, m), Leading(p, l), m < l
      PROVE  FALSE
  <2>1. m + 1 \in 1..l /\ m < Len(p)
    BY <1>2
  <2> QED
    BY <1>2, <2>1 DEF Leading
<1> QED
  BY <1>1, <1>2

\* Seen from further down, a path climbs further and is otherwise the same.
LEMMA ClimbIsTrimmed ==
  ASSUME NEW p \in Seq(Segments), NEW k \in Nat
  PROVE  Climb(k) \o p \in Seq(Segments) /\ Trimmed(Climb(k) \o p) = Trimmed(p)
<1> DEFINE q == Climb(k) \o p
           n == Ups(p)
<1>1. Climb(k) \in Seq(Segments) /\ Len(Climb(k)) = k /\ \A i \in 1..k : Climb(k)[i] = ".."
  BY NamesAssumption DEF Climb
<1>2. /\ q \in Seq(Segments) /\ Len(q) = k + Len(p)
      /\ \A i \in 1..k : q[i] = ".."
      /\ \A i \in 1..Len(p) : q[k + i] = p[i]
  <2> HIDE DEF Climb
  <2> QED
    BY <1>1
<1>3. n \in 0..Len(p) /\ Leading(p, n)
  BY UpsIsLeading
<1> HIDE DEF q, n
<1>4. Leading(q, k + n) /\ k + n \in 0..Len(q)
  <2>1. ASSUME NEW i \in 1..(k + n) PROVE q[i] = ".."
    <3>1. CASE i <= k
      BY <1>2, <3>1
    <3>2. CASE i > k
      <4>1. i - k \in 1..n /\ i - k \in 1..Len(p) /\ k + (i - k) = i
        BY <1>3, <3>2
      <4>2. q[k + (i - k)] = p[i - k]
        BY <1>2, <4>1
      <4> QED
        BY <1>3, <4>1, <4>2 DEF Leading
    <3> QED
      BY <1>3, <3>1, <3>2
  <2>2. ASSUME k + n < Len(q) PROVE q[(k + n) + 1] # ".."
    <3>1. n < Len(p) /\ n + 1 \in 1..Len(p) /\ k + (n + 1) = (k + n) + 1
      BY <1>2, <1>3, <2>2
    <3>2. q[k + (n + 1)] = p[n + 1]
      BY <1>2, <3>1
    <3> QED
      BY <1>3, <3>1, <3>2 DEF Leading
  <2> QED
    BY <1>2, <1>3, <2>1, <2>2 DEF Leading
<1>5. Ups(q) = k + n
  BY <1>2, <1>4, LeadingIsUps
<1>6. SubSeq(q, (k + n) + 1, Len(q)) = SubSeq(p, n + 1, Len(p))
  <2> DEFINE s == SubSeq(q, (k + n) + 1, Len(q))
             t == SubSeq(p, n + 1, Len(p))
  <2>1. s \in Seq(Segments) /\ Len(s) = Len(p) - n
    BY <1>2, <1>3
  <2>2. t \in Seq(Segments) /\ Len(t) = Len(p) - n
    BY <1>3
  <2>3. ASSUME NEW i \in 1..(Len(p) - n) PROVE s[i] = t[i]
    <3>1. s[i] = q[(k + n) + i]
      BY <1>2, <1>3
    <3>2. t[i] = p[n + i]
      BY <1>3
    <3>3. n + i \in 1..Len(p) /\ k + (n + i) = (k + n) + i
      BY <1>3
    <3>4. q[k + (n + i)] = p[n + i]
      BY <1>2, <3>3
    <3> QED
      BY <3>1, <3>2, <3>3, <3>4
  <2> HIDE DEF s, t
  <2>4. s = t
    BY <2>1, <2>2, <2>3
  <2> QED
    BY <2>4 DEF s, t
<1> QED
  BY <1>2, <1>5, <1>6 DEF Trimmed, q, n

\* A path that climbs matches no pattern that does not; one that does not climb
\* is its own trimmed form.
LEMMA ProtectedIsTrimmed ==
  ASSUME NEW p \in Seq(Segments), NEW G \in SUBSET AllGlobs, \A g \in G : g.dir[1] # ".."
  PROVE  Protected(p, G) <=> \E g \in G : Matches(g, Trimmed(p))
<1>1. Ups(p) \in 0..Len(p) /\ Leading(p, Ups(p))
  BY UpsIsLeading
<1>2. CASE Ups(p) = 0
  <2>1. Trimmed(p) = p
    BY <1>2 DEF Trimmed
  <2> QED
    BY <2>1 DEF Protected
<1>3. CASE Ups(p) > 0
  <2>1. Len(p) > 0 /\ p[1] = ".."
    BY <1>1, <1>3 DEF Leading
  <2>2. ASSUME NEW g \in G, Matches(g, p) PROVE FALSE
    <3>1. g.dir \in Seq(Segments) /\ g.dir # <<>>
      BY DEF AllGlobs
    <3>2. Len(g.dir) > 0
      BY <3>1
    <3> QED
      BY <2>1, <2>2, <3>2 DEF Matches, Below
  <2> QED
    BY <2>2 DEF Protected
<1> QED
  BY <1>1, <1>2, <1>3

\* The root module the command runs in does not decide what is protected: a file
\* of the chain is protected from every root, however far down or up, or from
\* none, by any patterns that do not climb out of the root themselves (Protected
\* in internal/patch/guard.go).
THEOREM RootDoesNotMatter == ResSpec => []RootIndependent
<1>1. ResTypeOK => RootIndependent
  <2> SUFFICES ASSUME ResTypeOK, \A g \in globs : g.dir[1] # "..",
                      NEW i \in 1..Len(chain), NEW k \in 1..MaxUps
               PROVE  Protected(Climb(k) \o chain[i].file, globs) <=> Protected(chain[i].file, globs)
    BY DEF RootIndependent
  <2> DEFINE p == chain[i].file
  <2>1. p \in Seq(Segments)
    <3>1. chain \in Seq(Links)
      BY DEF ResTypeOK, TypeOK, Links
    <3>2. chain[i] \in Links
      BY <3>1
    <3>3. p \in Located
      BY <3>2 DEF Links
    <3>4. <<>> \in Seq(Segments)
      OBVIOUS
    <3> QED
      BY <3>3, <3>4, NamesAssumption DEF Located, NoFile
  <2>2. globs \in SUBSET AllGlobs
    BY GlobsAssumption DEF ResTypeOK
  <2>3. k \in Nat
    BY MaxUpsAssumption
  <2> HIDE DEF p
  <2>4. Climb(k) \o p \in Seq(Segments) /\ Trimmed(Climb(k) \o p) = Trimmed(p)
    BY <2>1, <2>3, ClimbIsTrimmed
  <2> QED
    BY <2>1, <2>2, <2>4, ProtectedIsTrimmed DEF p
<1> QED
  BY <1>1, ResTypeCorrect, PTL
-----------------------------------------------------------------------------
(* The guards against one another: what the server allows, what is protected  *)
(* and what is minimal leave every free place of the chain open.              *)

\* The three checks never shut out a place that the walk has found: an edit of
\* it, unless it is protected, passes the server and the client, whatever the
\* patterns say and however long the chain is.
THEOREM FreeHopsStayOpen == ResSpec => []NoHopExcluded
<1>1. ResTypeOK => NoHopExcluded
  <2> SUFFICES ASSUME ResTypeOK, pc = "done", result.tier = "tier2",
                      NEW i \in 1..Len(chain), NEW e,
                      e = [file |-> chain[i].file, block |-> <<>>,
                           attribute |-> chain[i].name, op |-> "set"],
                      e.file # NoFile, ~Protected(e.file, globs)
               PROVE  ValidateAllowed(<<e>>) /\ Guard(e) /\ GuardMinimal(e)
    BY DEF NoHopExcluded
  <2>1. e.file \in AllowedFiles
    BY DEF AllowedFiles, Hops
  <2>2. e.attribute \in AllowedAttrs
    BY DEF AllowedAttrs, Hops
  <2>3. ValidateAllowed(<<e>>)
    <3>1. Len(<<e>>) = 1 /\ <<e>>[1] = e
      OBVIOUS
    <3> QED
      BY <2>2, <3>1 DEF ValidateAllowed
  <2>4. Guard(e)
    BY DEF Guard
  <2> QED
    BY <2>1, <2>2, <2>3, <2>4 DEF GuardMinimal
<1> QED
  BY <1>1, ResTypeCorrect, PTL
=============================================================================
