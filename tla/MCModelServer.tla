---------------------------- MODULE MCModelServer ----------------------------
(* Instances of ModelServer for TLC: which calls arrive, and what the model *)
(* may reply.                                                               *)
EXTENDS ModelServer, TLC

CONSTANTS k1, k2, k3, k4, k5, d1, a1, a2

Propose(allowed) ==
  [tool |-> "propose", version |-> "2.0", drift |-> d1, allowed |-> allowed, big |-> FALSE]
Explain(drift) ==
  [tool |-> "explain", version |-> "none", drift |-> drift, allowed |-> {}, big |-> FALSE]

OneQuestion == {Propose({a1})}
\* Everything the cache key, the gate and the budget tell apart: the same drift
\* from a client that allows a1 only and from one that allows anything, an old
\* client, a prompt that is too long, and explanations of a drift and of none.
AllKinds == {Propose({a1}), Propose({}),
             [Propose({a1}) EXCEPT !.version = "1.0"],
             [Propose({a1}) EXCEPT !.big = TRUE],
             Explain(d1), Explain(NoDrift)}

FiveCalls == {k1, k2, k3, k4, k5}
TwoCalls == {k1, k2}
InOrOut == {{a1}, {a2}}
InOnly == {{a1}}
OnlyOversized == {[Explain(d1) EXCEPT !.big = TRUE]}
AnyCall == Permutations(Calls)
=============================================================================
