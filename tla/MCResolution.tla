----------------------------- MODULE MCResolution -----------------------------
(***************************************************************************)
(* Instances of Resolution: the root modules of a small repository, up to  *)
(* two module calls with every kind of expression and four with plain      *)
(* ones, every way to set a root variable, and what the server may answer. *)
(***************************************************************************)
EXTENDS Resolution, TLC

CONSTANTS x, y, attr, stray

Main    == <<"main.tf">>
Service == <<"service", "main.tf">>
Inner   == <<"..", "modules", "net", "main.tf">>
Deep    == <<"modules", "sub", "main.tf">>
Tfv     == <<"terraform.tfvars">>
Auto    == <<"a.auto.tfvars">>
Json    == <<"b.auto.tfvars.json">>
Prod    == <<"prod.tfvars">>
Names == {"..", "modules", "net", "sub", "service", "main.tf", "terraform.tfvars",
          "a.auto.tfvars", "b.auto.tfvars.json", "prod.tfvars"}
AllFiles == {Main, Service, Inner, Deep, Tfv, Auto, Json, Prod}

E(form, refs) == [form |-> form, refs |-> refs]
Literal == E("constant", <<>>)
Every == {Absent, E("malformed", <<>>), Literal, E("bare", <<x>>), E("bare", <<y>>),
          E("computed", <<>>), E("computed", <<x>>), E("computed", <<x, y>>),
          E("bare", <<"local">>), E("bare", <<"each">>), E("bare", <<"other">>)}
Few == {Literal, E("bare", <<x>>), E("bare", <<y>>)}

Call(args, file) ==
  [declared |-> TRUE, keyed |-> FALSE, local |-> TRUE, args |-> args, file |-> file]
Args(S, T) == {x :> e @@ y :> f : e \in S, f \in T}
Plain == Args({Literal, E("bare", <<x>>)}, {Literal})
File(kind, names, file) == [kind |-> kind, names |-> names, file |-> file]

CallLists ==
  {<<>>} \cup {<<Call(a, Main)>> : a \in Args(Every, Few)}
  \cup {<<Call(a, Main), Call(b, Deep)>> :
           a \in Args(Every, Few), b \in Args(Every, {E("bare", <<x>>)})}
  \cup {<<Call(a, Main), Call(b, Service), Call(d, Deep)>> : a, b, d \in Plain}
  \cup {<<Call(a, Main), Call(b, Service), Call(d, Deep), Call(d, Deep)>> : a, b, d \in Plain}
  \cup {<<[Call(a, NoFile) EXCEPT !.declared = p, !.keyed = q, !.local = r]>> :
           a \in Plain, p, q, r \in BOOLEAN}

\* What sets the root variables: defaults, tfvars files, the environment.
Settings ==
  {<<{}, <<>>, {}>>, <<{x, y}, <<>>, {}>>, <<{x}, <<>>, {x}>>,
   <<{x}, <<File("terraform", {y}, Tfv)>>, {}>>,
   <<{}, <<File("auto", {x}, Auto), File("terraform", {x, y}, Tfv)>>, {}>>,
   <<{y}, <<File("auto", {y}, Auto), File("other", {x, y}, Prod), File("terraform", {y}, Tfv)>>, {}>>,
   <<{x}, <<File("auto", {x, y}, Auto), File("json", {x}, Json)>>, {}>>}

Resource(e) == [declared |-> TRUE, expr |-> e, file |-> Inner]
Root(calls, res, s) ==
  [calls |-> calls, resource |-> res, defaults |-> s[1],
   varFile |-> x :> Main @@ y :> NoFile, tfvars |-> s[2], env |-> s[3]]
SmallConfigs ==
  {Root(c, Resource(e), s) : c \in CallLists, e \in Every, s \in Settings}
  \cup {Root(<<>>, [Resource(Literal) EXCEPT !.declared = FALSE], <<{}, <<>>, {}>>)}

\* A few configurations with one module call, for the counterexample.
OneCall ==
  {Root(<<Call(a, Main)>>, Resource(E("bare", <<x>>)), <<{x, y}, <<>>, {}>>) :
     a \in Args(Every, {Literal})}

Below_(dir) == [dir |-> dir, below |-> TRUE]
SmallGlobs == {{}, {Below_(<<"modules">>)}, {Below_(<<"modules", "sub">>), [dir |-> Main, below |-> FALSE]}}

Edit(file, block, attribute, op) ==
  [file |-> file, block |-> block, attribute |-> attribute, op |-> op]
SmallProposals ==
  {<<Edit(f, <<"resource">>, attr, "set")>> : f \in {Main, Inner, Deep}}
  \cup {<<Edit(Main, <<"module", 1>>, x, "append_to"), e>> :
           e \in {Edit(Inner, <<"resource">>, attr, "set"),
                  Edit(Inner, <<"resource">>, stray, "set"),
                  Edit(Prod, <<>>, x, "set")}}
  \cup {<<Edit(NoFile, <<>>, attr, "ignore")>>}
Strays == {stray}
=============================================================================
