-------------------------- MODULE ModelServerProofs --------------------------
(***************************************************************************)
(* Proofs about ModelServer, for every set of calls and requests, every    *)
(* model, every limit and both transports: type correctness, and that an   *)
(* answer stays inside what its own caller allows.                         *)
(***************************************************************************)
EXTENDS ModelServer, TLAPS

USE DEF memory, calls

\* A cache key is formed from a propose request, which names a drift.
LEMMA KeyTyped ==
  ASSUME NEW r \in Requests, r.tool = "propose"
  PROVE  CacheKey(r) \in Keys
  BY DataAssumption DEF CacheKey, Keys

LEMMA SomeRequestTyped == SomeRequest \in Requests
  BY DataAssumption DEF SomeRequest

\* Only a propose call looks into the cache or writes to it.
CacheUse == \A c \in Calls : pc[c] \in {"lookup", "put"} => Proposes(c)

Typed == StateOK /\ CacheUse

\* The outcome of a handler step is typed, whatever its code.
LEMMA ReturnTyped ==
  ASSUME StateOK, NEW c \in Calls, NEW code \in Codes, Return(c, code)
  PROVE  /\ pc' \in [Calls -> Phases] /\ verdict' \in [Calls -> Codes]
         /\ finished' \in [Calls -> Int]
         /\ pc' = [pc EXCEPT ![c] = "done"]
  BY DEF StateOK, OutcomeOK, Return, Phases

LEMMA ProceedTyped ==
  ASSUME StateOK, NEW c \in Calls, NEW phase \in Phases, Proceed(c, phase)
  PROVE  /\ pc' \in [Calls -> Phases] /\ verdict' \in [Calls -> Codes]
         /\ finished' \in [Calls -> Int]
         /\ pc' = [pc EXCEPT ![c] = phase]
  BY DEF StateOK, OutcomeOK, Proceed

LEMMA LogTyped ==
  ASSUME StateOK, NEW c \in Calls, NEW code, NEW hit, NEW tokens \in Nat,
         LogOutcome(c, code, hit, tokens)
  PROVE  metrics' \in [Processes -> [requests: Nat, errors: Nat, cacheHits: Nat, tokens: Nat]]
<1> DEFINE m == metrics[host[c]]
<1> DEFINE n == Counted(c, m, code # "ok", hit, tokens)
<1>1. m \in [requests: Nat, errors: Nat, cacheHits: Nat, tokens: Nat]
  BY DEF StateOK, MemoryOK, RequestOK
<1>2. n \in [requests: Nat, errors: Nat, cacheHits: Nat, tokens: Nat]
  BY <1>1 DEF Counted
<1>3. metrics' = [metrics EXCEPT ![host[c]] = n]
  BY DEF LogOutcome
<1> QED
  BY <1>2, <1>3 DEF StateOK, MemoryOK

LEMMA FinishTyped ==
  ASSUME StateOK, NEW c \in Calls, NEW code \in Codes, Finish(c, code)
  PROVE  /\ pc' \in [Calls -> Phases] /\ verdict' \in [Calls -> Codes]
         /\ finished' \in [Calls -> Int]
         /\ pc' = [pc EXCEPT ![c] = "done"]
         /\ metrics' \in [Processes -> [requests: Nat, errors: Nat, cacheHits: Nat,
                                        tokens: Nat]]
<1>1. spent[c] \in Nat
  BY DEF StateOK, RequestOK
<1> QED
  BY <1>1, ReturnTyped, LogTyped DEF Finish

\* A step of call c that keeps its request keeps CacheUse when the phase it
\* moves to is not one that uses the cache, or the call proposes.
LEMMA CacheUseStep ==
  ASSUME StateOK, CacheUse, NEW c \in Calls, NEW phase, UNCHANGED req,
         pc' = [pc EXCEPT ![c] = phase],
         phase \in {"lookup", "put"} => Proposes(c)
  PROVE  CacheUse'
  BY DEF CacheUse, Proposes, StateOK, OutcomeOK

LEMMA TypedInit == Init => Typed
<1> SUFFICES ASSUME Init PROVE Typed
  OBVIOUS
<1>2. MemoryOK
  BY LimitsAssumption DEF Init, MemoryOK, Absent, Entries, Processes
<1>3. RequestOK
  BY SomeRequestTyped, LimitsAssumption DEF Init, RequestOK, Processes
<1>4. OutcomeOK
  BY DEF Init, OutcomeOK, NoAnswer, Answers, Phases, Codes
<1>5. CacheUse /\ now \in Nat /\ processes \in Nat
  BY DEF Init, CacheUse
<1> QED
  BY <1>2, <1>3, <1>4, <1>5 DEF Typed, StateOK

LEMMA ArriveTyped == ASSUME Typed, NEW c \in Calls, Arrive(c) PROVE Typed'
<1> USE DEF Typed
<1>1. PICK r \in Requests :
        LET p == IF Transport = "stdio" THEN processes + 1 ELSE processes IN
        /\ p \in Processes /\ processes' = p
        /\ req' = [req EXCEPT ![c] = r] /\ host' = [host EXCEPT ![c] = p]
        /\ answer' = [answer EXCEPT ![c] = NoAnswer]
        /\ metrics' = IF r.tool = "propose"
                        THEN [metrics EXCEPT ![p].requests = @ + 1] ELSE metrics
        /\ Return(c, "untyped") \/ Proceed(c, "gate")
  BY DEF Arrive
<1>2. UNCHANGED <<now, limiter, cache, attempt, deadline, spent, gated>>
  BY DEF Arrive
<1> DEFINE p == IF Transport = "stdio" THEN processes + 1 ELSE processes
<1>3. p \in Processes
  BY <1>1
<1>4. metrics' \in [Processes -> [requests: Nat, errors: Nat, cacheHits: Nat, tokens: Nat]]
  <2>1. metrics[p] \in [requests: Nat, errors: Nat, cacheHits: Nat, tokens: Nat]
    BY <1>3 DEF StateOK, MemoryOK
  <2>2. [metrics[p] EXCEPT !.requests = metrics[p].requests + 1]
          \in [requests: Nat, errors: Nat, cacheHits: Nat, tokens: Nat]
    BY <2>1
  <2>3. \/ metrics' = metrics
        \/ metrics' = [metrics EXCEPT ![p] =
                         [metrics[p] EXCEPT !.requests = metrics[p].requests + 1]]
    BY <1>1
  <2> QED
    BY <2>2, <2>3 DEF StateOK, MemoryOK
<1>5. MemoryOK'
  BY <1>2, <1>4 DEF StateOK, MemoryOK
<1>6. RequestOK'
  BY <1>1, <1>2, <1>3 DEF StateOK, RequestOK
<1>7. NoAnswer \in Answers
  BY DataAssumption DEF NoAnswer, Answers
<1>8. "untyped" \in Codes /\ "gate" \in Phases
  BY DEF Codes, Phases
<1>9. /\ pc' \in [Calls -> Phases] /\ verdict' \in [Calls -> Codes]
      /\ finished' \in [Calls -> Int]
      /\ pc' = [pc EXCEPT ![c] = "done"] \/ pc' = [pc EXCEPT ![c] = "gate"]
  BY <1>1, <1>8, ReturnTyped, ProceedTyped
<1>10. OutcomeOK'
  BY <1>1, <1>2, <1>7, <1>9 DEF StateOK, OutcomeOK
<1>11. CacheUse'
  BY <1>1, <1>9 DEF CacheUse, Proposes, StateOK, OutcomeOK, RequestOK
<1>12. now' \in Nat /\ processes' \in Nat
  BY <1>1, <1>2, <1>3 DEF StateOK, Processes
<1> QED
  BY <1>5, <1>6, <1>10, <1>11, <1>12 DEF StateOK

LEMMA GateTyped == ASSUME Typed, NEW c \in Calls, Gate(c) PROVE Typed'
<1> USE DEF Typed
<1>1. UNCHANGED <<now, processes, cache, req, host, attempt, deadline, spent, answer>>
  BY DEF Gate
<1>2. RequestOK' /\ now' \in Nat /\ processes' \in Nat
  BY <1>1 DEF StateOK, RequestOK
<1>3. "contract-mismatch" \in Codes /\ "rate-limited" \in Codes
      /\ "lookup" \in Phases /\ "prompt" \in Phases
  BY DEF Codes, Phases
<1>4. CASE Finish(c, "contract-mismatch") /\ UNCHANGED <<limiter, gated>>
  <2>1. MemoryOK' /\ OutcomeOK' /\ CacheUse'
    BY <1>1, <1>3, <1>4, FinishTyped, CacheUseStep DEF StateOK, MemoryOK, OutcomeOK
  <2> QED
    BY <1>2, <2>1 DEF StateOK
<1>5. CASE /\ gated' = [gated EXCEPT ![c] = now]
           /\ limiter' = [limiter EXCEPT ![host[c]] =
                [count |-> CountAfter(host[c]),
                 window |-> IF WindowOver(host[c]) THEN now ELSE @.window]]
           /\ \/ /\ Proceed(c, IF Proposes(c) THEN "lookup" ELSE "prompt")
                 /\ UNCHANGED metrics
              \/ Finish(c, "rate-limited")
  <2> DEFINE p == host[c]
             l == [count |-> CountAfter(p),
                   window |-> IF WindowOver(p) THEN now ELSE limiter[p].window]
  <2>1. p \in Processes /\ now \in Nat /\ limiter[p] \in [count: Nat, window: Int]
    BY DEF StateOK, MemoryOK, RequestOK
  <2>2. l \in [count: Nat, window: Int]
    BY <2>1 DEF CountAfter
  <2>3. limiter' = [limiter EXCEPT ![p] = l]
    BY <1>5
  <2>4. limiter' \in [Processes -> [count: Nat, window: Int]] /\ gated' \in [Calls -> Int]
    BY <1>5, <2>1, <2>2, <2>3 DEF StateOK, MemoryOK, OutcomeOK
  <2>5. CASE Finish(c, "rate-limited")
    <3>1. MemoryOK' /\ OutcomeOK' /\ CacheUse'
      BY <1>1, <1>3, <2>4, <2>5, FinishTyped, CacheUseStep DEF StateOK, MemoryOK, OutcomeOK
    <3> QED
      BY <1>2, <3>1 DEF StateOK
  <2>6. CASE /\ Proceed(c, IF Proposes(c) THEN "lookup" ELSE "prompt")
             /\ UNCHANGED metrics
    <3>1. CASE Proposes(c)
      <4>1. MemoryOK' /\ OutcomeOK' /\ CacheUse'
        BY <1>1, <1>3, <2>4, <2>6, <3>1, ProceedTyped, CacheUseStep
           DEF StateOK, MemoryOK, OutcomeOK
      <4> QED
        BY <1>2, <4>1 DEF StateOK
    <3>2. CASE ~Proposes(c)
      <4>1. MemoryOK' /\ OutcomeOK' /\ CacheUse'
        BY <1>1, <1>3, <2>4, <2>6, <3>2, ProceedTyped, CacheUseStep
           DEF StateOK, MemoryOK, OutcomeOK
      <4> QED
        BY <1>2, <4>1 DEF StateOK
    <3> QED
      BY <3>1, <3>2
  <2> QED
    BY <1>5, <2>5, <2>6
<1> QED
  BY <1>4, <1>5 DEF Gate

\* A handler step that leaves the inputs, the limiter and the clock alone and
\* returns, or moves to a phase its tool reaches.
LEMMA HandlerTyped ==
  ASSUME Typed, NEW c \in Calls, NEW phase \in Phases,
         UNCHANGED <<now, processes, limiter, req, host, gated>>,
         cache' \in [Processes -> [Keys -> Entries]],
         metrics' \in [Processes -> [requests: Nat, errors: Nat, cacheHits: Nat, tokens: Nat]],
         attempt' \in [Calls -> Nat], deadline' \in [Calls -> Nat],
         spent' \in [Calls -> Nat], answer' \in [Calls -> Answers],
         verdict' \in [Calls -> Codes], finished' \in [Calls -> Int],
         pc' = [pc EXCEPT ![c] = phase],
         phase \in {"lookup", "put"} => Proposes(c)
  PROVE  Typed'
<1> USE DEF Typed
<1>1. MemoryOK' /\ RequestOK' /\ now' \in Nat /\ processes' \in Nat
  BY DEF StateOK, MemoryOK, RequestOK
<1>2. OutcomeOK'
  BY DEF StateOK, OutcomeOK
<1>3. CacheUse'
  BY CacheUseStep
<1> QED
  BY <1>1, <1>2, <1>3 DEF StateOK

LEMMA StateTyped ==
  ASSUME StateOK
  PROVE  /\ cache \in [Processes -> [Keys -> Entries]]
         /\ metrics \in [Processes -> [requests: Nat, errors: Nat, cacheHits: Nat, tokens: Nat]]
         /\ attempt \in [Calls -> Nat] /\ deadline \in [Calls -> Nat]
         /\ spent \in [Calls -> Nat] /\ answer \in [Calls -> Answers] /\ now \in Nat
         /\ req \in [Calls -> Requests] /\ host \in [Calls -> Processes]
  BY DEF StateOK, MemoryOK, RequestOK, OutcomeOK

LEMMA PhasesAndCodes ==
  /\ {"gate", "lookup", "prompt", "model", "put", "done"} \subseteq Phases
  /\ {"ok", "budget-exceeded", "gateway-down", "invalid-output", "lost"} \subseteq Codes
  BY DEF Phases, Codes

LEMMA LookupTyped == ASSUME Typed, NEW c \in Calls, Lookup(c) PROVE Typed'
<1> USE DEF Typed
<1> DEFINE p == host[c]
           k == CacheKey(req[c])
           e == cache[p][k]
<1>1. p \in Processes /\ k \in Keys
  BY StateTyped, KeyTyped, DataAssumption DEF CacheUse, Lookup, Proposes
<1>2. e \in Entries
  BY <1>1, StateTyped
<1>3. /\ UNCHANGED <<now, processes, limiter, req, host, attempt, deadline, spent, gated>>
      /\ pc[c] = "lookup"
  BY DEF Lookup
<1>4. CASE Live(p, k)
  <2>1. /\ answer' = [answer EXCEPT ![c] =
             [out |-> e.out, born |-> e.born, hit |-> TRUE]]
        /\ Return(c, "ok") /\ LogOutcome(c, "ok", TRUE, 0) /\ UNCHANGED cache
    BY <1>4 DEF Lookup
  <2>2. answer' \in [Calls -> Answers]
    BY <1>2, <2>1, StateTyped DEF Answers, Entries
  <2>3. metrics' \in [Processes -> [requests: Nat, errors: Nat, cacheHits: Nat, tokens: Nat]]
    BY <2>1, LogTyped
  <2>4. /\ verdict' \in [Calls -> Codes] /\ finished' \in [Calls -> Int]
        /\ pc' = [pc EXCEPT ![c] = "done"]
    BY <2>1, ReturnTyped, PhasesAndCodes
  <2> QED
    BY <1>3, <2>1, <2>2, <2>3, <2>4, StateTyped, HandlerTyped, PhasesAndCodes
<1>5. CASE ~Live(p, k)
  <2>1. /\ cache' = [cache EXCEPT ![p] = [cache[p] EXCEPT ![k] = Absent]]
        /\ Proceed(c, "prompt") /\ UNCHANGED <<answer, metrics>>
    BY <1>5 DEF Lookup
  <2>2. Absent \in Entries
    BY <1>1 DEF Absent, Entries
  <2>3. cache' \in [Processes -> [Keys -> Entries]]
    BY <1>1, <2>1, <2>2, StateTyped
  <2>4. /\ verdict' \in [Calls -> Codes] /\ finished' \in [Calls -> Int]
        /\ pc' = [pc EXCEPT ![c] = "prompt"]
    BY <2>1, ProceedTyped, PhasesAndCodes
  <2> QED
    BY <1>3, <2>1, <2>3, <2>4, StateTyped, HandlerTyped, PhasesAndCodes
<1> QED
  BY <1>4, <1>5

LEMMA PromptTyped == ASSUME Typed, NEW c \in Calls, Prompt(c) PROVE Typed'
<1> USE DEF Typed
<1>1. UNCHANGED <<now, processes, limiter, cache, req, host, attempt, spent, answer, gated>>
  BY DEF Prompt
<1>2. CASE Finish(c, BudgetCode) /\ UNCHANGED deadline
  BY <1>1, <1>2, StateTyped, FinishTyped, HandlerTyped, PhasesAndCodes DEF BudgetCode
<1>3. CASE /\ deadline' = [deadline EXCEPT ![c] = now + RequestTimeout]
           /\ Proceed(c, "model") /\ UNCHANGED metrics
  <2>1. deadline' \in [Calls -> Nat]
    BY <1>3, StateTyped, LimitsAssumption
  <2>2. /\ verdict' \in [Calls -> Codes] /\ finished' \in [Calls -> Int]
        /\ pc' = [pc EXCEPT ![c] = "model"]
    BY <1>3, ProceedTyped, PhasesAndCodes
  <2> QED
    BY <1>1, <1>3, <2>1, <2>2, StateTyped, HandlerTyped, PhasesAndCodes
<1> QED
  BY <1>2, <1>3 DEF Prompt

LEMMA ModelFailsTyped == ASSUME Typed, NEW c \in Calls, ModelFails(c) PROVE Typed'
  BY StateTyped, FinishTyped, HandlerTyped, PhasesAndCodes DEF Typed, ModelFails

LEMMA ModelRepliesTyped == ASSUME Typed, NEW c \in Calls, ModelReplies(c) PROVE Typed'
<1> USE DEF Typed
<1>1. PICK reply \in Outputs \cup {Garbled}, t \in Spends :
        /\ spent' = [spent EXCEPT ![c] = @ + t]
        /\ IF Proposes(c) THEN Proposed(c, reply, spent[c] + t)
                          ELSE Explained(c, reply, spent[c] + t)
  BY DEF ModelReplies
<1>2. UNCHANGED <<now, processes, limiter, cache, req, host, deadline, gated>>
  BY DEF ModelReplies
<1>3. spent[c] + t \in Nat /\ spent' \in [Calls -> Nat]
  BY <1>1, StateTyped, DataAssumption
<1>4. CASE ~Proposes(c)
  <2>1. PICK code \in {"ok", "invalid-output"} :
          /\ Return(c, code) /\ LogOutcome(c, code, FALSE, spent[c] + t)
          /\ UNCHANGED <<attempt, answer>>
    BY <1>1, <1>4 DEF Explained
  <2>2. metrics' \in [Processes -> [requests: Nat, errors: Nat, cacheHits: Nat, tokens: Nat]]
    BY <1>3, <2>1, LogTyped
  <2>3. /\ verdict' \in [Calls -> Codes] /\ finished' \in [Calls -> Int]
        /\ pc' = [pc EXCEPT ![c] = "done"]
    BY <2>1, ReturnTyped, PhasesAndCodes
  <2> QED
    BY <1>2, <1>3, <2>1, <2>2, <2>3, StateTyped, HandlerTyped, PhasesAndCodes
<1>5. CASE Proposes(c) /\ reply # Garbled /\ Valid(c, reply)
  <2>1. /\ answer' = [answer EXCEPT ![c] =
             [out |-> reply, born |-> now, hit |-> FALSE]]
        /\ Proceed(c, "put") /\ UNCHANGED <<attempt, metrics>>
    BY <1>1, <1>5 DEF Proposed
  <2>2. [out |-> reply, born |-> now, hit |-> FALSE] \in Answers
    BY <1>5, StateTyped, DataAssumption DEF Answers
  <2>3. answer' \in [Calls -> Answers]
    BY <2>1, <2>2, StateTyped
  <2>4. /\ verdict' \in [Calls -> Codes] /\ finished' \in [Calls -> Int]
        /\ pc' = [pc EXCEPT ![c] = "put"]
    BY <2>1, ProceedTyped, PhasesAndCodes
  <2> QED
    BY <1>2, <1>3, <1>5, <2>1, <2>3, <2>4, StateTyped, HandlerTyped, PhasesAndCodes
<1>6. CASE Proposes(c) /\ ~(reply # Garbled /\ Valid(c, reply))
  <2>1. /\ attempt' = [attempt EXCEPT ![c] = NextAttempt(c)] /\ UNCHANGED answer
        /\ \/ /\ Return(c, "invalid-output")
              /\ LogOutcome(c, "invalid-output", FALSE, spent[c] + t)
           \/ Proceed(c, "model") /\ UNCHANGED metrics
    BY <1>1, <1>6 DEF Proposed
  <2>2. attempt' \in [Calls -> Nat]
    BY <2>1, StateTyped DEF NextAttempt
  <2>3. CASE /\ Return(c, "invalid-output")
             /\ LogOutcome(c, "invalid-output", FALSE, spent[c] + t)
    <3>1. metrics' \in [Processes -> [requests: Nat, errors: Nat, cacheHits: Nat,
                                      tokens: Nat]]
      BY <1>3, <2>3, LogTyped
    <3>2. /\ verdict' \in [Calls -> Codes] /\ finished' \in [Calls -> Int]
          /\ pc' = [pc EXCEPT ![c] = "done"]
      BY <2>3, ReturnTyped, PhasesAndCodes
    <3> QED
      BY <1>2, <1>3, <2>1, <2>2, <3>1, <3>2, StateTyped, HandlerTyped, PhasesAndCodes
  <2>4. CASE Proceed(c, "model") /\ UNCHANGED metrics
    <3>1. /\ verdict' \in [Calls -> Codes] /\ finished' \in [Calls -> Int]
          /\ pc' = [pc EXCEPT ![c] = "model"]
      BY <2>4, ProceedTyped, PhasesAndCodes
    <3> QED
      BY <1>2, <1>3, <2>1, <2>2, <2>4, <3>1, StateTyped, HandlerTyped, PhasesAndCodes
  <2> QED
    BY <2>1, <2>3, <2>4
<1> QED
  BY <1>4, <1>5, <1>6

LEMMA PutTyped == ASSUME Typed, NEW c \in Calls, Put(c) PROVE Typed'
<1> USE DEF Typed
<1> DEFINE p == host[c]
           k == CacheKey(req[c])
           e == [out |-> answer[c].out, expires |-> now + CacheTTL,
                 born |-> answer[c].born]
<1>1. p \in Processes /\ k \in Keys /\ answer[c] \in Answers
  BY StateTyped, KeyTyped DEF CacheUse, Put, Proposes
<1>2. e \in Entries
  BY <1>1, StateTyped, LimitsAssumption DEF Entries, Answers
<1>3. cache' = [cache EXCEPT ![p] = [cache[p] EXCEPT ![k] = e]]
  BY DEF Put
<1>4. cache' \in [Processes -> [Keys -> Entries]]
  BY <1>1, <1>2, <1>3, StateTyped
<1> QED
  BY <1>4, StateTyped, FinishTyped, HandlerTyped, PhasesAndCodes DEF Put

\* Typed is inductive.
LEMMA TypedNext == Typed /\ [Next]_vars => Typed'
<1> SUFFICES ASSUME Typed, [Next]_vars PROVE Typed'
  OBVIOUS
<1>1. CASE Tick
  BY <1>1 DEF Tick, Typed, StateOK, MemoryOK, RequestOK, OutcomeOK, CacheUse, Proposes
<1>2. CASE Restart
  <2>1. /\ UNCHANGED <<now, memory, req, host, attempt, deadline, spent, answer, gated>>
        /\ processes' = processes + 1
        /\ \A c \in Calls : pc'[c] \in {"done", pc[c]}
    BY <1>2 DEF Restart
  <2>2. MemoryOK' /\ RequestOK' /\ now' \in Nat /\ processes' \in Nat
    BY <2>1 DEF Typed, StateOK, MemoryOK, RequestOK
  <2>3. OutcomeOK'
    BY <1>2, <2>1, PhasesAndCodes DEF Restart, Typed, StateOK, OutcomeOK
  <2>4. CacheUse'
    BY <2>1 DEF Typed, CacheUse, Proposes
  <2> QED
    BY <2>2, <2>3, <2>4 DEF Typed, StateOK
<1>3. ASSUME NEW c \in Calls, Arrive(c) \/ Handle(c) PROVE Typed'
  BY <1>3, ArriveTyped, GateTyped, LookupTyped, PromptTyped, ModelFailsTyped,
     ModelRepliesTyped, PutTyped DEF Handle
<1>4. CASE UNCHANGED vars
  BY <1>4 DEF vars, Typed, StateOK, MemoryOK, RequestOK, OutcomeOK, CacheUse, Proposes
<1> QED
  BY <1>1, <1>2, <1>3, <1>4 DEF Next

LEMMA TypedAlways == Spec => []Typed
  BY TypedInit, TypedNext, PTL DEF Spec

\* A call that has not returned has no outcome, and the only error without a
\* code is the one for an explain request that names no drift.
ErrorsInv == ErrorsOK /\ \A c \in Calls : pc[c] # "done" => verdict[c] = "none"

\* A handler goes on without an outcome, or returns one of the typed codes.
LEMMA HandlerCodes ==
  ASSUME Typed, NEW c \in Calls, Handle(c)
  PROVE  /\ UNCHANGED req /\ pc[c] # "done"
         /\ \/ pc' = [pc EXCEPT ![c] = "done"]
               /\ \E code \in Codes \ {"untyped"} : verdict' = [verdict EXCEPT ![c] = code]
            \/ UNCHANGED verdict /\ \E phase : pc' = [pc EXCEPT ![c] = phase]
<1> USE DEF Return, Proceed, Codes
<1>1. CASE Gate(c)
  BY <1>1 DEF Gate, Finish
<1>2. CASE Lookup(c)
  BY <1>2 DEF Lookup
<1>3. CASE Prompt(c)
  BY <1>3 DEF Prompt, Finish, BudgetCode
<1>4. CASE ModelFails(c)
  BY <1>4 DEF ModelFails, Finish
<1>5. CASE ModelReplies(c)
  BY <1>5 DEF ModelReplies, Proposed, Explained
<1>6. CASE Put(c)
  BY <1>6 DEF Put, Finish
<1> QED
  BY <1>1, <1>2, <1>3, <1>4, <1>5, <1>6 DEF Handle

LEMMA ErrorsNext == Typed /\ ErrorsInv /\ [Next]_vars => ErrorsInv'
<1> SUFFICES ASSUME Typed, ErrorsInv, [Next]_vars PROVE ErrorsInv'
  OBVIOUS
<1> USE DEF ErrorsInv, ErrorsOK
<1>0. /\ pc \in [Calls -> Phases] /\ verdict \in [Calls -> Codes]
      /\ req \in [Calls -> Requests]
  BY DEF Typed, StateOK, RequestOK, OutcomeOK
<1>1. CASE UNCHANGED <<pc, verdict, req>>
  BY <1>1
<1>2. CASE Restart
  BY <1>0, <1>2 DEF Restart
<1>3. ASSUME NEW c \in Calls, Arrive(c) PROVE ErrorsInv'
  <2>1. PICK r \in Requests :
          /\ req' = [req EXCEPT ![c] = r]
          /\ IF r.drift = NoDrift THEN Return(c, "untyped") ELSE Proceed(c, "gate")
          /\ pc[c] = "idle"
    BY <1>3 DEF Arrive
  <2>2. \A d \in Calls \ {c} :
          pc'[d] = pc[d] /\ verdict'[d] = verdict[d] /\ req'[d] = req[d]
    BY <2>1, <1>0 DEF Return, Proceed
  <2>3. (pc'[c] # "done" => verdict'[c] = "none")
        /\ (verdict'[c] = "untyped" => req'[c].drift = NoDrift)
    BY <2>1, <1>0 DEF Return, Proceed
  <2> QED
    BY <2>2, <2>3
<1>4. ASSUME NEW c \in Calls, Handle(c) PROVE ErrorsInv'
  BY <1>0, <1>4, HandlerCodes
<1> QED
  BY <1>1, <1>2, <1>3, <1>4 DEF Next, Tick, vars

\* Type correctness of the handlers and the memory they share; and an error has
\* a typed code, unless the request was to explain no drift at all.
THEOREM TypeCorrect == Spec => []TypeOK
<1>1. Init => ErrorsInv
  BY DEF Init, ErrorsInv, ErrorsOK
<1>2. Typed /\ ErrorsInv => TypeOK
  BY DEF Typed, TypeOK, ErrorsInv
<1> QED
  BY <1>1, <1>2, ErrorsNext, TypedAlways, PTL DEF Spec

-----------------------------------------------------------------------------
(* Answers inside the allowed set.  The invariant speaks of every entry of    *)
(* every cache, because the key carries the allowed set of the caller that    *)
(* filled the entry, and of every answer, whether returned yet or not.        *)

Within(out, allowed) == allowed = {} \/ out \subseteq allowed
AllowedInv ==
  /\ \A p \in Processes : \A k \in Keys : Within(cache[p][k].out, k.allowed)
  /\ \A c \in Calls : Within(answer[c].out, req[c].allowed)

LEMMA AllowedInit == Init => AllowedInv
  BY SomeRequestTyped DEF Init, AllowedInv, Within, Absent, NoAnswer

LEMMA AllowedNext == Typed /\ AllowedInv /\ [Next]_vars => AllowedInv'
<1> SUFFICES ASSUME Typed, AllowedInv, [Next]_vars PROVE AllowedInv'
  OBVIOUS
<1> USE DEF AllowedInv, Typed
<1>1. CASE UNCHANGED <<cache, answer, req>>
  BY <1>1
<1>2. ASSUME NEW c \in Calls, Arrive(c) PROVE AllowedInv'
  <2>1. PICK r \in Requests : /\ req' = [req EXCEPT ![c] = r]
                              /\ answer' = [answer EXCEPT ![c] = NoAnswer]
    BY <1>2 DEF Arrive
  <2>2. UNCHANGED cache
    BY <1>2 DEF Arrive
  <2> QED
    BY <2>1, <2>2, StateTyped DEF NoAnswer, Within
<1>3. ASSUME NEW c \in Calls, Lookup(c) PROVE AllowedInv'
  <2> DEFINE p == host[c]
             k == CacheKey(req[c])
  <2>1. p \in Processes /\ k \in Keys /\ k.allowed = req[c].allowed /\ UNCHANGED req
    BY <1>3, StateTyped, KeyTyped DEF CacheUse, Lookup, Proposes, CacheKey
  <2>2. CASE Live(p, k)
    <3>1. /\ answer' = [answer EXCEPT ![c] =
               [out |-> cache[p][k].out, born |-> cache[p][k].born, hit |-> TRUE]]
          /\ UNCHANGED cache
      BY <1>3, <2>2 DEF Lookup
    <3> QED
      BY <2>1, <3>1, StateTyped
  <2>3. CASE ~Live(p, k)
    <3>1. /\ cache' = [cache EXCEPT ![p] = [cache[p] EXCEPT ![k] = Absent]]
          /\ UNCHANGED answer
      BY <1>3, <2>3 DEF Lookup
    <3> QED
      BY <2>1, <3>1, StateTyped DEF Absent, Within
  <2> QED
    BY <2>2, <2>3
<1>4. ASSUME NEW c \in Calls, ModelReplies(c) PROVE AllowedInv'
  <2>1. UNCHANGED <<cache, req>>
    BY <1>4 DEF ModelReplies
  <2>2. \/ UNCHANGED answer
        \/ \E reply \in Outputs :
             /\ Valid(c, reply)
             /\ answer' = [answer EXCEPT ![c] =
                  [out |-> reply, born |-> now, hit |-> FALSE]]
    BY <1>4 DEF ModelReplies, Proposed, Explained
  <2>3. \A d \in Calls \ {c} : answer'[d] = answer[d]
    BY <2>2, StateTyped
  <2>4. Within(answer'[c].out, req[c].allowed)
    <3>1. CASE UNCHANGED answer
      BY <3>1
    <3>2. ASSUME NEW reply \in Outputs, Valid(c, reply),
                 answer' = [answer EXCEPT ![c] =
                   [out |-> reply, born |-> now, hit |-> FALSE]]
          PROVE  Within(answer'[c].out, req[c].allowed)
      <4>1. answer'[c].out = reply
        BY <3>2, StateTyped
      <4> QED
        BY <3>2, <4>1 DEF Valid, Within
    <3> QED
      BY <2>2, <3>1, <3>2
  <2> QED
    BY <2>1, <2>3, <2>4
<1>5. ASSUME NEW c \in Calls, Put(c) PROVE AllowedInv'
  <2> DEFINE p == host[c]
             k == CacheKey(req[c])
  <2>1. p \in Processes /\ k \in Keys /\ k.allowed = req[c].allowed
        /\ UNCHANGED <<req, answer>>
    BY <1>5, StateTyped, KeyTyped DEF CacheUse, Put, Proposes, CacheKey
  <2>2. cache' = [cache EXCEPT ![p] = [cache[p] EXCEPT ![k] =
          [out |-> answer[c].out, expires |-> now + CacheTTL,
           born |-> answer[c].born]]]
    BY <1>5 DEF Put
  <2> QED
    BY <2>1, <2>2, StateTyped
<1>6. ASSUME NEW c \in Calls, Gate(c) \/ Prompt(c) \/ ModelFails(c) PROVE AllowedInv'
  BY <1>1, <1>6 DEF Gate, Prompt, ModelFails
<1> QED
  BY <1>1, <1>2, <1>3, <1>4, <1>5, <1>6 DEF Next, Handle, Tick, Restart, vars

\* Whether the model or the cache supplied it, a proposal that is returned stays
\* inside the attributes its own caller allows (ValidateAllowed, CacheKey).
THEOREM AllAnswersAllowed == Spec => []AnswersAreAllowed
<1>1. AllowedInv => AnswersAreAllowed
  BY DEF AllowedInv, AnswersAreAllowed, Within
<1> QED
  BY <1>1, AllowedInit, AllowedNext, TypedAlways, PTL DEF Spec
=============================================================================
