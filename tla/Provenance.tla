------------------------------ MODULE Provenance ------------------------------
(***************************************************************************)
(* provenance.Walk: from a drifted attribute up through module arguments   *)
(* and variables to the literal that feeds it, over the configuration part *)
(* of the plan JSON and the HCL files of the root.                         *)
(*                                                                         *)
(* The configuration is an input, chosen in Init and never changed: the    *)
(* module calls on the way down to the resource, the expression of the     *)
(* attribute, and everything that can set a root variable.  One action is  *)
(* one iteration of a loop of the walk, or the code between two loops.     *)
(*                                                                         *)
(* The second half says, independently of the walk, what Terraform makes   *)
(* of a configuration, so that the place the walk names can be compared    *)
(* with the place that matters.                                            *)
(***************************************************************************)
EXTENDS Integers, Sequences

CONSTANTS
  Vars,     \* variable names; a module argument is named after its variable
  Segments, \* names of directories and files, and ".."
  Files,    \* .tf and .tfvars files, as sequences of path segments
  Attr,     \* the drifted attribute
  MaxHops,  \* the bound of the walk's loop (32)
  Configs   \* the configurations to walk

NoFile  == <<>>
Located == Files \cup {NoFile}   \* findBlock returns "" for a block it cannot find

\* The references the walk tells apart: variables, and what is not followed.
Refs  == Vars \cup {"local", "each", "other"}
Forms == {"absent", "malformed", "constant", "bare", "computed"}

\* An expression as the plan JSON shows it (constant or references), and in
\* `form` also what only the source text shows: whether the one reference is
\* the whole expression ("bare") or goes into a computation ("computed").
Exprs == [form: Forms, refs: Seq(Refs)]

\* A call found under its name; an instance key of a module with count or
\* for_each stays part of the name, which module_calls then does not hold.
Calls == [declared: BOOLEAN, keyed: BOOLEAN, local: BOOLEAN,
          args: [Vars -> Exprs], file: Located]
\* What sets root variables: in directory order terraform.tfvars, *.auto.tfvars,
\* *.auto.tfvars.json, and .tfvars files that are not loaded by themselves.
Tfvars == [kind: {"terraform", "auto", "json", "other"}, names: SUBSET Vars, file: Files]
AllConfigs ==
  [calls: Seq(Calls),
   resource: [declared: BOOLEAN, expr: Exprs, file: Located],
   defaults: SUBSET Vars, varFile: [Vars -> Located],
   tfvars: Seq(Tfvars), env: SUBSET Vars]

ASSUME ConfigsAssumption == Configs \subseteq AllConfigs
ASSUME MaxHopsAssumption == MaxHops \in Nat
ASSUME NamesAssumption ==
  /\ NoFile \notin Files /\ Files \subseteq Seq(Segments) /\ ".." \in Segments
  /\ Vars \cap {"local", "each", "other", "default"} = {}
\* What the plan JSON of an accepted configuration guarantees of an expression.
WellFormed(e) ==
  /\ e.form \in {"absent", "malformed", "constant"} => e.refs = <<>>
  /\ e.form = "bare" => Len(e.refs) = 1
ASSUME ExprsAssumption ==
  \A c \in Configs :
    /\ WellFormed(c.resource.expr)
    /\ \A i \in 1..Len(c.calls), v \in Vars : WellFormed(c.calls[i].args[v])

VARIABLES
  pc,      \* "frames", "resource", "follow", "done"
  cfg,     \* the configuration
  depth,   \* frames entered while descending, then the frame `expr` belongs to
  expr,    \* the expression to follow
  hops,    \* iterations of the bounded loop
  chain,   \* the links so far; Walk returns them unless it fails
  result   \* tier, target and reason; "error" when Walk returns an error
vars == <<pc, cfg, depth, expr, hops, chain, result>>

Absent == [form |-> "absent", refs |-> <<>>]
NoPlace == [file |-> NoFile, block |-> <<>>, attribute |-> Attr]

\* EditTarget of each kind of literal.  A module block is named by the level it
\* calls, which stands for the name of the call in the caller's directory.
ResourcePlace(c)     == [file |-> c.resource.file, block |-> <<"resource">>, attribute |-> Attr]
ArgPlace(c, i, v)    == [file |-> c.calls[i].file, block |-> <<"module", i>>, attribute |-> v]
TfvarsPlace(c, k, v) == [file |-> c.tfvars[k].file, block |-> <<>>, attribute |-> v]
DefaultPlace(c, v)   == [file |-> c.varFile[v], block |-> <<"variable", v>>, attribute |-> "default"]

Link(kind, file, name) == [kind |-> kind, file |-> file, name |-> name]
-----------------------------------------------------------------------------
(* The parts of the plan JSON and of the directory the walk looks at. *)

\* isConstant; an attribute the resource leaves out is treated alike.
IsConstant(e) == e.form = "constant"

\* (Deviation: the first of several references is followed as well.)
FirstRef(e) == e.form # "constant" /\ Len(e.refs) >= 1
\* bareRef: no constant and exactly one reference.
BareRef(e) == e.form # "constant" /\ Len(e.refs) = 1

\* The files findTfvarsAttr reads: the suffix leaves out .tfvars.json.
Candidates(c) == {k \in 1..Len(c.tfvars) : c.tfvars[k].kind \in {"terraform", "auto"}}
\* (Deviation: directory order, where terraform.tfvars comes late.)
ByName(c, k) == k
\* Their order: terraform.tfvars is moved to the front, the rest stays sorted.
LoadOrder(c, k) == IF c.tfvars[k].kind = "terraform" THEN 0 ELSE k
Defining(c, v) == {k \in Candidates(c) : v \in c.tfvars[k].names}
\* findTfvarsAttr: the last definition wins.
FindTfvarsAttr(c, v) ==
  CHOOSE k \in Defining(c, v) : \A j \in Defining(c, v) : LoadOrder(c, j) <= LoadOrder(c, k)
-----------------------------------------------------------------------------
Init ==
  /\ pc = "frames" /\ cfg \in Configs
  /\ depth = 0 /\ expr = Absent /\ hops = 0 /\ chain = <<>>
  /\ result = [tier |-> "none", target |-> NoPlace, why |-> "none"]

End(tier, target, why) ==
  /\ pc' = "done"
  /\ result' = [tier |-> tier, target |-> target, why |-> why]
Fail(why) == End("error", NoPlace, why)
GiveUp(tier, why) == End(tier, NoPlace, why)

\* One iteration of resolveFrames.
Descend ==
  /\ pc = "frames" /\ depth < Len(cfg.calls)
  /\ LET call == cfg.calls[depth + 1]
         found == call.declared /\ ~call.keyed
     IN  \/ ~found /\ Fail("module call not found") /\ UNCHANGED depth
         \/ /\ found /\ ~call.local
            /\ GiveUp("tier3", "non-local source")
            /\ UNCHANGED depth
         \/ /\ found /\ call.local
            /\ depth' = depth + 1
            /\ UNCHANGED <<pc, result>>
  /\ UNCHANGED <<cfg, expr, hops, chain>>

\* All frames are known: find the resource and its attribute.  A literal, or
\* an attribute that is not there, is edited in place.
FindResource ==
  /\ pc = "frames" /\ depth = Len(cfg.calls)
  /\ LET res == cfg.resource
     IN  \/ /\ ~res.declared
            /\ Fail("resource not found")
            /\ UNCHANGED <<expr, chain>>
         \/ /\ res.declared
            /\ chain' = <<Link("resource_attr", res.file, Attr)>>
            /\ expr' = res.expr
            /\ \/ res.expr.form = "malformed" /\ Fail("parse expression")
               \/ /\ res.expr.form = "absent" \/ IsConstant(res.expr)
                  /\ End("tier0", ResourcePlace(cfg), "literal")
               \/ /\ res.expr.form \in {"bare", "computed"}
                  /\ pc' = "follow" /\ UNCHANGED result
  /\ UNCHANGED <<cfg, depth, hops>>

\* (Deviation: one iteration more.)
OneHopMore == pc = "follow" /\ hops <= MaxHops
Following == pc = "follow" /\ hops < MaxHops
Name == expr.refs[1]

\* The expression is not a bare reference, or refers to a local or to each and
\* count: left to the server.  Any other reference is opaque.
NotFollowed ==
  /\ Following
  /\ \/ ~BareRef(expr) /\ GiveUp("tier2", "non-bare")
     \/ BareRef(expr) /\ Name = "local" /\ GiveUp("tier2", "local")
     \/ BareRef(expr) /\ Name = "each" /\ GiveUp("tier2", "each or count")
     \/ BareRef(expr) /\ Name = "other" /\ GiveUp("tier3", "opaque")
  /\ UNCHANGED <<cfg, depth, expr, hops, chain>>

\* (Deviation: the frame stays that of the module.)
StayInFrame == depth
\* The argument of a call is an expression of the calling module.
CallerFrame == depth - 1

\* A variable of a called module: its value is the argument of the call.
ModuleArg ==
  /\ Following /\ BareRef(expr) /\ Name \in Vars /\ depth > 0
  /\ chain' = Append(chain, Link("module_arg", cfg.calls[depth].file, Name))
  /\ LET arg == cfg.calls[depth].args[Name]
     IN  \/ arg.form = "malformed" /\ Fail("parse expression") /\ UNCHANGED <<depth, expr, hops>>
         \/ /\ arg.form = "absent"
            /\ GiveUp("tier3", "not set by caller")
            /\ UNCHANGED <<depth, expr, hops>>
         \/ /\ IsConstant(arg)
            /\ End("tier1", ArgPlace(cfg, depth, Name), "module argument")
            /\ UNCHANGED <<depth, expr, hops>>
         \/ /\ arg.form \in {"bare", "computed"}
            /\ depth' = CallerFrame /\ expr' = arg /\ hops' = hops + 1
            /\ UNCHANGED <<pc, result>>
  /\ UNCHANGED cfg

\* resolveRootVar: the tfvars files first, then the default of the variable.
RootVar ==
  /\ Following /\ BareRef(expr) /\ Name \in Vars /\ depth = 0
  /\ \/ /\ Defining(cfg, Name) # {}
        /\ LET k == FindTfvarsAttr(cfg, Name)
           IN  /\ chain' = Append(chain, Link("tfvars", cfg.tfvars[k].file, Name))
               /\ End("tier1", TfvarsPlace(cfg, k, Name), "tfvars")
     \/ /\ Defining(cfg, Name) = {} /\ Name \in cfg.defaults
        /\ chain' = Append(chain, Link("default", cfg.varFile[Name], Name))
        /\ End("tier1", DefaultPlace(cfg, Name), "default")
     \/ /\ Defining(cfg, Name) = {} /\ Name \notin cfg.defaults
        /\ chain' = Append(chain, Link("root_var", NoFile, Name))
        /\ GiveUp("tier3", "unset variable")
  /\ UNCHANGED <<cfg, depth, expr, hops>>

TooDeep ==
  /\ pc = "follow" /\ hops = MaxHops
  /\ GiveUp("tier3", "too deep")
  /\ UNCHANGED <<cfg, depth, expr, hops, chain>>

Next == Descend \/ FindResource \/ NotFollowed \/ ModuleArg \/ RootVar \/ TooDeep

Spec == Init /\ [][Next]_vars
-----------------------------------------------------------------------------
(* What Terraform makes of a configuration in which the literal at place w  *)
(* has been overwritten with the live value.                                *)

\* The tfvars file that decides: terraform.tfvars, then the others by name.
Loaded(c, v) == {k \in 1..Len(c.tfvars) : c.tfvars[k].kind # "other" /\ v \in c.tfvars[k].names}
Rank(c, k) == IF c.tfvars[k].kind = "terraform" THEN 0 ELSE k
Deciding(c, v) == CHOOSE k \in Loaded(c, v) : \A j \in Loaded(c, v) : Rank(c, j) <= Rank(c, k)

RootValue(c, w, v) ==
  IF Loaded(c, v) # {}
    THEN LET k == Deciding(c, v)
         IN  IF c.tfvars[k].kind = "json" THEN "hidden"
             ELSE IF w = TfvarsPlace(c, k, v) THEN "live" ELSE "code"
  ELSE IF v \in c.env THEN "hidden"
  ELSE IF v \notin c.defaults THEN "unset"
  ELSE IF w = DefaultPlace(c, v) THEN "live" ELSE "code"

\* The value of the expression e at the place p, given the variables' values, and
\* the default it takes when it is left out.
Value(e, p, w, scope, default) ==
  IF w = p THEN "live"
  ELSE IF e.form = "constant" THEN "code"
  ELSE IF e.form = "absent" THEN default
  ELSE IF e.form = "bare" /\ e.refs[1] \in Vars THEN scope[e.refs[1]]
  ELSE "elsewhere"

\* The values of the variables of every frame, and of the attribute.  The variable
\* of a module whose argument is left out has a default of its own, a literal of
\* the module; an attribute that is left out, one of the provider.
Meaning(c, w) ==
  LET scope[i \in 0..Len(c.calls)] ==
        [v \in Vars |-> IF i = 0 THEN RootValue(c, w, v)
                        ELSE Value(c.calls[i].args[v], ArgPlace(c, i, v), w, scope[i - 1],
                                   "module default")]
  IN  Value(c.resource.expr, ResourcePlace(c), w, scope[Len(c.calls)], "elsewhere")
Nowhere == [file |-> NoFile, block |-> <<"nowhere">>, attribute |-> Attr]

\* Nothing is hidden from the walk: a single reference is the whole expression,
\* and root variables are set in HCL files only.
PlainExpr(e) == Len(e.refs) = 1 => e.form = "bare"
Visible(c) ==
  /\ PlainExpr(c.resource.expr)
  /\ \A i \in 1..Len(c.calls), v \in Vars : PlainExpr(c.calls[i].args[v])
  /\ c.env = {} /\ \A k \in 1..Len(c.tfvars) : c.tfvars[k].kind # "json"
-----------------------------------------------------------------------------
(* Correctness. *)

Tiers == {"none", "error", "tier0", "tier1", "tier2", "tier3"}
Reasons == {"none", "module call not found", "non-local source", "resource not found",
            "parse expression", "literal", "non-bare", "local", "each or count",
            "opaque", "not set by caller", "module argument", "tfvars", "default",
            "unset variable", "too deep"}
Kinds == {"resource_attr", "module_arg", "root_var", "tfvars", "default"}
Places == [file: Located, block: {<<>>, <<"resource">>} \cup ({"module"} \X Nat)
                                 \cup ({"variable"} \X Vars),
           attribute: Vars \cup {Attr, "default"}]

\* Type invariant of the walk.
TypeOK ==
  /\ pc \in {"frames", "follow", "done"} /\ cfg \in AllConfigs
  /\ depth \in 0..Len(cfg.calls) /\ hops \in 0..MaxHops
  /\ expr \in Exprs
  /\ chain \in Seq([kind: Kinds, file: Located, name: Vars \cup {Attr}])
  /\ result \in [tier: Tiers, target: Places, why: Reasons]

Deterministic == pc = "done" /\ result.tier \in {"tier0", "tier1"}

\* The deterministic edit reaches the resource: with the live value written at
\* the place the walk names, Terraform computes the live value for the drifted
\* attribute.  (A place without a file is not written at all.)
EditTakesEffect ==
  Deterministic /\ Visible(cfg) /\ result.target.file # NoFile
    => Meaning(cfg, result.target) = "live"

Unset == cfg.resource.expr.form = "absent"
\* The value is, unchanged, a literal: of the resource, an argument, a tfvars file
\* or a root default; or the default that a called module gives its variable.
SetLiteral == Meaning(cfg, Nowhere) = "code"
ModuleDefault == Meaning(cfg, Nowhere) = "module default"

\* The tier is right: the client edits on its own exactly when the attribute is
\* unset or its value is a literal that somebody set or the root defaults to.  A
\* literal that is the default inside a called module, and nothing else, is left
\* to a human as not set by the caller.  (Unless the walk fails or the calls are
\* nested too deeply.)
TierTellsOrigin ==
  pc = "done" /\ Visible(cfg) /\ result.tier # "error"
    /\ result.why \notin {"too deep", "non-local source"}
    => /\ Deterministic <=> Unset \/ SetLiteral
       /\ result.why = "not set by caller" <=> ModuleDefault

\* The links after the first name the variables the value passes through, from
\* the module of the resource up to the root, each argument in the file of its
\* call: the chain that the guards, the prompt and the pull request rely on.
OnRoute(i) ==
  LET level  == Len(cfg.calls) - i + 1
      passed == IF i = 1 THEN cfg.resource.expr
                ELSE cfg.calls[level + 1].args[chain[i].name]
  IN  /\ Len(passed.refs) = 1 /\ chain[i + 1].name = passed.refs[1]
      /\ level > 0 => chain[i + 1].kind = "module_arg" /\ chain[i + 1].file = cfg.calls[level].file
      /\ level = 0 => i + 1 = Len(chain) /\ pc = "done"
ChainIsRoute == \A i \in 1..(Len(chain) - 1) : OnRoute(i)

\* Transforming expressions go to the server: the client alone edits a value
\* only when it passes through unchanged.
OnlyPassthrough == Deterministic => Unset \/ SetLiteral \/ ModuleDefault
=============================================================================
