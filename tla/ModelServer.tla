----------------------------- MODULE ModelServer -----------------------------
(***************************************************************************)
(* The tool handlers of terra-drift-mcp (internal/tool): the gate in front *)
(* of both tools, the proposal cache, the calls to the model with their    *)
(* bounded validation retries, and the process counters.                   *)
(*                                                                         *)
(* Handlers run concurrently on one Handler and meet in the limiter and    *)
(* the cache (each behind a mutex) and in the atomic counters; a call is   *)
(* one sequential process between them.  All of that memory belongs to one *)
(* server process: with the http transport a single long-lived process     *)
(* serves every call until it is restarted, with stdio the client starts a *)
(* process of its own for every call (mcpclient.call).  What the model     *)
(* replies is chosen nondeterministically.  Time is counted in ticks.      *)
(***************************************************************************)
EXTENDS Integers, FiniteSets, FiniteSetsExt

CONSTANTS
  Calls,             \* the tool calls of a behaviour
  Requests,          \* what a call may carry
  Drifts,            \* address, attribute and live value of a drifted attribute
  NoDrift,           \* an explain request that names no drift
  Attrs,             \* attribute names an edit may set
  Outputs,           \* proposals of the model, by the attributes they set
  Garbled,           \* a reply that is not structured edits, or is empty
  Spends,            \* token counts a reply may report
  Transport,         \* "http" or "stdio"
  RatePerMinute, Minute, CacheTTL, RequestTimeout, ValidateRetryMax,
  MaxTime,           \* bound: the clock stops there
  MaxProcesses       \* bound: server processes started in a behaviour

ASSUME DataAssumption ==
  /\ NoDrift \notin Drifts /\ Requests # {}
  /\ Outputs \subseteq SUBSET Attrs /\ Spends \subseteq Nat
  /\ Requests \subseteq [tool: {"propose", "explain"}, version: {"none", "2.0", "1.0"},
                         drift: Drifts \cup {NoDrift},
                         allowed: SUBSET Attrs, big: BOOLEAN]
  /\ \A r \in Requests : r.tool = "propose" => r.drift # NoDrift
  /\ \A r \in Requests : r.tool = "explain" => r.version = "none"
ASSUME LimitsAssumption ==
  /\ Transport \in {"http", "stdio"}
  /\ RatePerMinute \in Nat \ {0} /\ Minute \in Nat \ {0} /\ CacheTTL \in Nat \ {0}
  /\ RequestTimeout \in Nat /\ ValidateRetryMax \in Nat
  /\ MaxTime \in Nat /\ MaxProcesses \in Nat \ {0}

VARIABLES
  now,         \* the wall clock
  processes,   \* server processes started so far
  limiter,     \* per process: count and window of the rate limiter
  cache,       \* per process: cached entry of each key
  metrics,     \* per process: the counters
  pc,          \* where each call stands in its handler
  req,         \* its input
  host,        \* the process that serves it
  attempt,     \* its validation attempts so far
  deadline,    \* when its context expires
  spent,       \* its totalTokens
  answer,      \* the proposal it returns
  verdict,     \* its outcome code
  gated,       \* when it reached the limiter (history variable, -1: never)
  finished     \* when it returned (history variable, -1: not yet)

memory == <<limiter, cache, metrics>>
calls  == <<pc, req, host, attempt, deadline, spent, answer, verdict, gated, finished>>
vars == <<now, processes, memory, calls>>

Processes == 1..MaxProcesses

\* The model's part of an answer: what was proposed, when, and whether the
\* cache supplied it.
NoAnswer == [out |-> {}, born |-> -1, hit |-> FALSE]

\* CacheKey: the drifted attribute with its live value, and the allowed set.
\* Contract version, provider and model id are fixed for one server.
Keys == [drift: Drifts, allowed: SUBSET Attrs]
\* (Deviation: the allowed set is left out of the key.)
KeyWithoutAllowed(r) == [drift |-> r.drift, allowed |-> {}]
CacheKey(r) == [drift |-> r.drift, allowed |-> r.allowed]

\* No entry: one that expired before time began, which is a miss as well.
Absent == [out |-> {}, expires |-> -1, born |-> -1]

SomeRequest == CHOOSE r \in Requests : TRUE

Init ==
  /\ now = 0 /\ processes = IF Transport = "http" THEN 1 ELSE 0
  /\ limiter = [p \in Processes |-> [count |-> 0, window |-> -Minute]]
  /\ cache = [p \in Processes |-> [k \in Keys |-> Absent]]
  /\ metrics = [p \in Processes |->
                  [requests |-> 0, errors |-> 0, cacheHits |-> 0, tokens |-> 0]]
  /\ pc = [c \in Calls |-> "idle"]
  /\ req = [c \in Calls |-> SomeRequest]
  /\ host = [c \in Calls |-> 1]
  /\ attempt = [c \in Calls |-> 0]
  /\ deadline = [c \in Calls |-> 0]
  /\ spent = [c \in Calls |-> 0]
  /\ answer = [c \in Calls |-> NoAnswer]
  /\ verdict = [c \in Calls |-> "none"]
  /\ gated = [c \in Calls |-> -1]
  /\ finished = [c \in Calls |-> -1]

-----------------------------------------------------------------------------
(* Helpers. *)

Proposes(c) == req[c].tool = "propose"

\* major(client) = major(server); no version at all is accepted.
Compatible(v) == v \in {"none", "2.0"}

\* limiter.allow starts a new window once the last one is a minute old.
\* (Deviation: a window that is never renewed.)
NeverStale(p) == limiter[p].window < 0
WindowOver(p) == now - limiter[p].window >= Minute
CountAfter(p) == IF WindowOver(p) THEN 1 ELSE limiter[p].count + 1
\* (Deviation: the call is counted after the comparison.)
OneTooMany(p) == CountAfter(p) <= RatePerMinute + 1
Admits(p) == CountAfter(p) <= RatePerMinute

\* ValidateAllowed: an empty allowed set enforces nothing.
Valid(c, out) == req[c].allowed = {} \/ out \subseteq req[c].allowed

\* Cache.Get finds an entry that is not expired yet.
\* (Deviations: the age is not looked at; the boundary is off by one.)
AnyAge(p, k) == cache[p][k].expires >= 0
BeforeExpiry(p, k) == now < cache[p][k].expires
Live(p, k) == now <= cache[p][k].expires

\* logOutcome and the return: only propose_hcl_edits counts outcomes, and
\* explain_drift meters the tokens of a model call that succeeded.
Counted(c, m, failed, hit, tokens) ==
  [requests |-> m.requests,
   errors |-> IF Proposes(c) /\ failed THEN m.errors + 1 ELSE m.errors,
   cacheHits |-> IF hit THEN m.cacheHits + 1 ELSE m.cacheHits,
   tokens |-> m.tokens + tokens]
\* (Deviation: only the tokens of the last attempt are metered.)
LastAttempt(c, code, hit, tokens) ==
  metrics' = [metrics EXCEPT ![host[c]] =
    Counted(c, metrics[host[c]], code # "ok", hit,
            IF Proposes(c) THEN tokens - spent[c] ELSE tokens)]
LogOutcome(c, code, hit, tokens) ==
  metrics' = [metrics EXCEPT ![host[c]] =
    Counted(c, metrics[host[c]], code # "ok", hit, tokens)]

Return(c, code) ==
  /\ pc' = [pc EXCEPT ![c] = "done"]
  /\ verdict' = [verdict EXCEPT ![c] = code]
  /\ finished' = [finished EXCEPT ![c] = now]

Finish(c, code) == Return(c, code) /\ LogOutcome(c, code, FALSE, spent[c])

Proceed(c, phase) == pc' = [pc EXCEPT ![c] = phase] /\ UNCHANGED <<verdict, finished>>

-----------------------------------------------------------------------------
(* One call. *)

\* mcpclient.call: connect (stdio: to a server process of its own) and send the
\* request; the handler counts it.  An explain request without drifts is
\* refused there and then, with an error that has no code.
Arrive(c) ==
  /\ pc[c] = "idle"
  /\ \E r \in Requests :
       LET p == IF Transport = "stdio" THEN processes + 1 ELSE processes
           refused == r.drift = NoDrift
       IN  /\ p \in Processes
           /\ processes' = p
           /\ req' = [req EXCEPT ![c] = r]
           /\ host' = [host EXCEPT ![c] = p]
           /\ answer' = [answer EXCEPT ![c] = NoAnswer]
           /\ metrics' = IF r.tool = "propose"
                           THEN [metrics EXCEPT ![p].requests = @ + 1] ELSE metrics
           /\ IF refused THEN Return(c, "untyped") ELSE Proceed(c, "gate")
  /\ UNCHANGED <<now, limiter, cache, attempt, deadline, spent, gated>>

\* gate: the contract version, then the rate limiter, which counts refused
\* calls too.
Gate(c) ==
  /\ pc[c] = "gate"
  /\ IF ~Compatible(req[c].version)
       THEN Finish(c, "contract-mismatch") /\ UNCHANGED <<limiter, gated>>
       ELSE LET p == host[c] IN
         /\ gated' = [gated EXCEPT ![c] = now]
         /\ limiter' = [limiter EXCEPT ![p] =
              [count |-> CountAfter(p),
               window |-> IF WindowOver(p) THEN now ELSE @.window]]
         /\ IF Admits(p)
              THEN /\ Proceed(c, IF Proposes(c) THEN "lookup" ELSE "prompt")
                   /\ UNCHANGED metrics
              ELSE Finish(c, "rate-limited")
  /\ UNCHANGED <<now, processes, cache, req, host, attempt, deadline, spent, answer>>

\* Cache.Get: a live entry is the answer, an expired one is dropped.
Lookup(c) ==
  /\ pc[c] = "lookup"
  /\ LET p == host[c]
         k == CacheKey(req[c])
         e == cache[p][k]
     IN  IF Live(p, k)
           THEN /\ answer' = [answer EXCEPT ![c] =
                     [out |-> e.out, born |-> e.born, hit |-> TRUE]]
                /\ Return(c, "ok")
                /\ LogOutcome(c, "ok", TRUE, 0)
                /\ UNCHANGED cache
           ELSE /\ cache' = [cache EXCEPT ![p][k] = Absent]
                /\ Proceed(c, "prompt")
                /\ UNCHANGED <<answer, metrics>>
  /\ UNCHANGED <<now, processes, limiter, req, host, attempt, deadline, spent, gated>>

\* Build the prompt, refuse an oversized one, start the deadline, redact.  (The
\* error of prompt.Build is left out: what was decoded from JSON encodes.)
\* (Deviation: the error names no code.)
UntypedCode == "untyped"
BudgetCode == "budget-exceeded"
Prompt(c) ==
  /\ pc[c] = "prompt"
  /\ IF req[c].big
       THEN Finish(c, BudgetCode) /\ UNCHANGED deadline
       ELSE /\ deadline' = [deadline EXCEPT ![c] = now + RequestTimeout]
            /\ Proceed(c, "model")
            /\ UNCHANGED metrics
  /\ UNCHANGED <<now, processes, limiter, cache, req, host, attempt, spent, answer, gated>>

\* The model call fails, or never answers within the deadline.
\* (Deviation: a model that stays silent is waited for.)
ModelRefuses(c) ==
  /\ pc[c] = "model" /\ now <= deadline[c]
  /\ Finish(c, "gateway-down")
  /\ UNCHANGED <<now, processes, limiter, cache, req, host, attempt, deadline, spent,
                 answer, gated>>
ModelFails(c) ==
  /\ pc[c] = "model"
  /\ Finish(c, "gateway-down")
  /\ UNCHANGED <<now, processes, limiter, cache, req, host, attempt, deadline, spent,
                 answer, gated>>

\* explain_drift takes any text but an empty one.
Explained(c, reply, total) ==
  LET code == IF reply = Garbled THEN "invalid-output" ELSE "ok"
  IN  /\ Return(c, code) /\ LogOutcome(c, code, FALSE, total)
      /\ UNCHANGED <<attempt, answer>>

\* A reply is parsed and validated; a bad one is asked for again while
\* attempts are left.
NextAttempt(c) == attempt[c] + 1
Proposed(c, reply, total) ==
  IF reply # Garbled /\ Valid(c, reply)
    THEN /\ answer' = [answer EXCEPT ![c] =
              [out |-> reply, born |-> now, hit |-> FALSE]]
         /\ Proceed(c, "put") /\ UNCHANGED <<attempt, metrics>>
    ELSE /\ attempt' = [attempt EXCEPT ![c] = NextAttempt(c)]
         /\ UNCHANGED answer
         /\ IF NextAttempt(c) > ValidateRetryMax
              THEN Return(c, "invalid-output") /\ LogOutcome(c, "invalid-output", FALSE, total)
              ELSE Proceed(c, "model") /\ UNCHANGED metrics

ModelReplies(c) ==
  /\ pc[c] = "model" /\ now <= deadline[c]
  /\ \E reply \in Outputs \cup {Garbled}, t \in Spends :
       /\ spent' = [spent EXCEPT ![c] = @ + t]
       /\ IF Proposes(c) THEN Proposed(c, reply, spent[c] + t)
                         ELSE Explained(c, reply, spent[c] + t)
  /\ UNCHANGED <<now, processes, limiter, cache, req, host, deadline, gated>>

\* Cache.Put, the outcome, the return.
Put(c) ==
  /\ pc[c] = "put"
  /\ cache' = [cache EXCEPT ![host[c]][CacheKey(req[c])] =
       [out |-> answer[c].out, expires |-> now + CacheTTL, born |-> answer[c].born]]
  /\ Finish(c, "ok")
  /\ UNCHANGED <<now, processes, limiter, req, host, attempt, deadline, spent, answer, gated>>

Tick ==
  /\ now < MaxTime /\ now' = now + 1
  /\ UNCHANGED <<processes, memory, calls>>

\* The http service is restarted: its memory is gone and so are the calls that
\* were in it.
Restart ==
  /\ Transport = "http" /\ processes < MaxProcesses
  /\ processes' = processes + 1
  /\ LET lost == {c \in Calls : pc[c] \notin {"idle", "done"}}
     IN  /\ pc' = [c \in Calls |-> IF c \in lost THEN "done" ELSE pc[c]]
         /\ verdict' = [c \in Calls |-> IF c \in lost THEN "lost" ELSE verdict[c]]
         /\ finished' = [c \in Calls |-> IF c \in lost THEN now ELSE finished[c]]
  /\ UNCHANGED <<now, memory, req, host, attempt, deadline, spent, answer, gated>>

Handle(c) ==
  Gate(c) \/ Lookup(c) \/ Prompt(c) \/ ModelFails(c) \/ ModelReplies(c) \/ Put(c)
Next == Tick \/ Restart \/ \E c \in Calls : Arrive(c) \/ Handle(c)

Spec == Init /\ [][Next]_vars

\* Every handler gets its turn, and Complete returns: the deadline of the
\* context and the timeout of the HTTP client end it.
FairSpec == Spec /\ \A c \in Calls : WF_vars(Handle(c))
-----------------------------------------------------------------------------
(* Correctness. *)

Codes == {"none", "ok", "untyped", "contract-mismatch", "rate-limited",
          "budget-exceeded", "gateway-down", "invalid-output", "lost"}
Phases == {"idle", "gate", "lookup", "prompt", "model", "put", "done"}
Answers == [out: SUBSET Attrs, born: Int, hit: BOOLEAN]
Entries == [out: SUBSET Attrs, expires: Int, born: Int]

\* Type invariant; it includes that the error of a call carries one of the typed
\* codes, unless it is an explain request that names no drift.
MemoryOK ==
  /\ limiter \in [Processes -> [count: Nat, window: Int]]
  /\ cache \in [Processes -> [Keys -> Entries]]
  /\ metrics \in [Processes -> [requests: Nat, errors: Nat, cacheHits: Nat, tokens: Nat]]
RequestOK ==
  /\ req \in [Calls -> Requests] /\ host \in [Calls -> Processes]
  /\ attempt \in [Calls -> Nat] /\ deadline \in [Calls -> Nat] /\ spent \in [Calls -> Nat]
OutcomeOK ==
  /\ pc \in [Calls -> Phases] /\ verdict \in [Calls -> Codes]
  /\ answer \in [Calls -> Answers]
  /\ gated \in [Calls -> Int] /\ finished \in [Calls -> Int]
StateOK == now \in Nat /\ processes \in Nat /\ MemoryOK /\ RequestOK /\ OutcomeOK
ErrorsOK == \A c \in Calls : verdict[c] = "untyped" => req[c].drift = NoDrift
TypeOK == StateOK /\ ErrorsOK

Answered(c) == verdict[c] = "ok" /\ Proposes(c)

\* Whoever produced it, this call or an earlier one that shares the cache, a
\* returned proposal stays inside the attributes this caller allows.
AnswersAreAllowed ==
  \A c \in Calls : Answered(c) =>
    req[c].allowed = {} \/ answer[c].out \subseteq req[c].allowed

\* A cached answer is one that the model gave another call of the same process
\* on the same question (drift, live value and allowed set), and it is no older
\* than the cache lifetime when it is returned.
AnswersAreFresh ==
  \A c \in Calls : Answered(c) /\ answer[c].hit =>
    \E s \in Calls : /\ Answered(s) /\ ~answer[s].hit /\ host[s] = host[c]
                     /\ req[s].drift = req[c].drift /\ req[s].allowed = req[c].allowed
                     /\ answer[s].out = answer[c].out
                     /\ finished[c] - finished[s] \in 0..CacheTTL

\* In any span of a minute, wherever it begins, the limiter lets through fewer
\* calls than twice its rate: two windows meet there at most, and the first
\* call of the earlier one is a minute older than the later one.
Admitted(p) ==
  {c \in Calls : host[c] = p /\ gated[c] >= 0 /\ verdict[c] # "rate-limited"}
MinuteBudget ==
  \A p \in Processes, t \in 0..MaxTime :
    Cardinality({c \in Admitted(p) : gated[c] \in t..(t + Minute - 1)})
      < 2 * RatePerMinute

\* A call is refused only when there were more calls than the rate in the
\* minute before it, itself included: the message it gets is true.
RefusalIsHonest ==
  \A c \in Calls : verdict[c] = "rate-limited" =>
    Cardinality({d \in Calls : /\ host[d] = host[c] /\ gated[d] >= 0
                               /\ gated[c] - gated[d] \in 0..(Minute - 1)}) > RatePerMinute

\* Two calls of one process with the same key, the second one after the first
\* had its answer and within the lifetime of that answer: the model is paid
\* for the first one only.  (Calls that overlap both miss, and both pay.)
PaidTwice(c, d) ==
  /\ c # d /\ Answered(c) /\ Answered(d) /\ ~answer[c].hit /\ ~answer[d].hit
  /\ CacheKey(req[c]) = CacheKey(req[d])
  /\ gated[d] > finished[c] /\ answer[d].born <= finished[c] + CacheTTL
PaidOnce == \A c, d \in Calls : host[c] = host[d] => ~PaidTwice(c, d)

\* The token counter of a process is what the model reported, over all attempts
\* and both tools, for the calls that returned; every propose call that
\* returned was counted as a request, and as an error or an answer.
CountersAddUp ==
  \A p \in Processes :
    LET back == {c \in Calls : host[c] = p /\ pc[c] = "done" /\ verdict[c] # "lost"}
        failed == {c \in back : Proposes(c) /\ verdict[c] # "ok"}
    IN  /\ metrics[p].tokens = MapThenSumSet(LAMBDA c : spent[c], back)
        /\ metrics[p].errors = Cardinality(failed)
        /\ metrics[p].cacheHits = Cardinality({c \in back : answer[c].hit})
        /\ metrics[p].requests =
             Cardinality({c \in Calls : host[c] = p /\ pc[c] # "idle" /\ Proposes(c)})

\* Every call that reached the server returns.
EveryCallReturns == \A c \in Calls : pc[c] # "idle" ~> pc[c] = "done"

(* What the documents say and the code does not do. *)

\* "a daily schedule doesn't re-spend tokens on unchanged drift".
UnchangedDriftIsFree == \A c, d \in Calls : ~PaidTwice(c, d)
=============================================================================
