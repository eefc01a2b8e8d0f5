-------------------------- MODULE ServerMemoryProofs --------------------------
(***************************************************************************)
(* Proofs about the memory that the handlers of one server process share,  *)
(* for every set of calls, every limit and both transports: the proposal   *)
(* cache hands out fresh answers and has each one paid once, the limiter   *)
(* keeps its budget and refuses for the reason it gives, and the counters  *)
(* add up.                                                                 *)
(***************************************************************************)
EXTENDS ModelServerProofs, FiniteSetTheorems

USE DEF memory, calls

\* The calls that have reached a server; their number is finite in every state,
\* however many calls the behaviour has in all.
Active == {c \in Calls : pc[c] # "idle"}

\* What the phase of a call says of the rest of it.
CallsInv ==
  /\ IsFiniteSet(Active)
  /\ \A c \in Calls :
       /\ -1 <= gated[c] /\ gated[c] <= now
       /\ pc[c] \in {"idle", "gate"} => gated[c] = -1
       /\ pc[c] # "done" => verdict[c] = "none" /\ ~answer[c].hit
       /\ pc[c] \in {"idle", "gate", "lookup", "prompt"} => spent[c] = 0

LEMMA Outcomes ==
  ASSUME Typed
  PROVE  /\ pc \in [Calls -> Phases] /\ verdict \in [Calls -> Codes]
         /\ gated \in [Calls -> Int] /\ finished \in [Calls -> Int]
         /\ now \in Nat /\ spent \in [Calls -> Nat] /\ answer \in [Calls -> Answers]
         /\ req \in [Calls -> Requests] /\ host \in [Calls -> Processes]
  BY DEF Typed, StateOK, OutcomeOK, RequestOK

\* A step of one call leaves every other call alone.
Same(d) ==
  /\ pc'[d] = pc[d] /\ req'[d] = req[d] /\ host'[d] = host[d] /\ spent'[d] = spent[d]
  /\ answer'[d] = answer[d] /\ verdict'[d] = verdict[d]
  /\ gated'[d] = gated[d] /\ finished'[d] = finished[d]

LEMMA OthersSame ==
  ASSUME Typed, NEW c \in Calls, Arrive(c) \/ Handle(c), NEW d \in Calls, d # c
  PROVE  Same(d) /\ UNCHANGED now
<1> USE Outcomes DEF Same, Return, Proceed
<1>1. CASE Arrive(c)
  BY <1>1 DEF Arrive
<1>2. CASE Gate(c)
  BY <1>2 DEF Gate, Finish
<1>3. CASE Lookup(c)
  BY <1>3 DEF Lookup
<1>4. CASE Prompt(c)
  BY <1>4 DEF Prompt, Finish
<1>5. CASE ModelFails(c)
  BY <1>5 DEF ModelFails, Finish
<1>6. CASE ModelReplies(c)
  BY <1>6 DEF ModelReplies, Proposed, Explained
<1>7. CASE Put(c)
  BY <1>7 DEF Put, Finish
<1> QED
  BY <1>1, <1>2, <1>3, <1>4, <1>5, <1>6, <1>7 DEF Handle

\* What a handler step does to its own call: it stays the call it was, and it
\* returns or goes on.
HandledOwn(c) ==
  /\ req'[c] = req[c] /\ host'[c] = host[c]
  /\ pc[c] \in {"gate", "lookup", "prompt", "model", "put"}
  /\ pc'[c] \in {"lookup", "prompt", "model", "put", "done"}
  /\ IF pc'[c] = "done" THEN finished'[c] = now
                        ELSE verdict'[c] = verdict[c] /\ finished'[c] = finished[c]
  /\ gated'[c] = gated[c] \/ (pc[c] = "gate" /\ gated'[c] = now)
  /\ pc[c] # "model" => spent'[c] = spent[c]
  /\ answer'[c].hit => answer[c].hit \/ pc'[c] = "done"
  /\ pc'[c] \in {"lookup", "prompt"} => pc[c] \in {"gate", "lookup"}

LEMMA HandleOwn ==
  ASSUME Typed, NEW c \in Calls, Handle(c)
  PROVE  HandledOwn(c) /\ req' = req /\ host' = host
<1> USE Outcomes DEF HandledOwn, Return, Proceed
<1>2. CASE Gate(c)
  BY <1>2 DEF Gate, Finish
<1>3. CASE Lookup(c)
  BY <1>3 DEF Lookup
<1>4. CASE Prompt(c)
  BY <1>4 DEF Prompt, Finish
<1>5. CASE ModelFails(c)
  BY <1>5 DEF ModelFails, Finish
<1>6. CASE ModelReplies(c)
  <2>1. /\ pc[c] = "model" /\ req' = req /\ host' = host /\ gated' = gated
        /\ \/ answer' = answer
           \/ \E reply \in Outputs : answer' =
                [answer EXCEPT ![c] = [out |-> reply, born |-> now, hit |-> FALSE]]
    BY <1>6 DEF ModelReplies, Proposed, Explained
  <2>2. answer'[c].hit => answer[c].hit
    BY <2>1
  <2>3. \/ \E code \in Codes : Return(c, code)
        \/ Proceed(c, "put") \/ Proceed(c, "model")
    BY <1>6, PhasesAndCodes DEF ModelReplies, Proposed, Explained
  <2> QED
    BY <2>1, <2>2, <2>3
<1>7. CASE Put(c)
  BY <1>7 DEF Put, Finish
<1> QED
  BY <1>2, <1>3, <1>4, <1>5, <1>6, <1>7 DEF Handle

\* What an arriving call is: a request with everything still to come.
ArrivedOwn(c) ==
  /\ pc[c] = "idle" /\ spent'[c] = spent[c] /\ gated'[c] = gated[c]
  /\ answer'[c] = NoAnswer
  /\ \/ pc'[c] = "gate" /\ verdict'[c] = verdict[c]
     \/ pc'[c] = "done" /\ verdict'[c] = "untyped" /\ ~Proposes(c)'

LEMMA ArriveOwn ==
  ASSUME Typed, NEW c \in Calls, Arrive(c)
  PROVE  ArrivedOwn(c)
<1>1. PICK r \in Requests :
        /\ req' = [req EXCEPT ![c] = r] /\ answer' = [answer EXCEPT ![c] = NoAnswer]
        /\ IF r.drift = NoDrift THEN Return(c, "untyped") ELSE Proceed(c, "gate")
        /\ pc[c] = "idle" /\ spent' = spent /\ gated' = gated
  BY DEF Arrive
<1>2. r.drift = NoDrift => r.tool # "propose"
  BY DataAssumption
<1> QED
  BY <1>1, <1>2, Outcomes DEF ArrivedOwn, Proposes, Return, Proceed

LEMMA CallsInit == Init => CallsInv
<1> SUFFICES ASSUME Init PROVE CallsInv
  OBVIOUS
<1>1. Active = {}
  BY DEF Init, Active
<1> QED
  BY <1>1, FS_EmptySet DEF Init, CallsInv, NoAnswer

LEMMA CallsNext == Typed /\ CallsInv /\ [Next]_vars => CallsInv'
<1> SUFFICES ASSUME Typed, CallsInv, [Next]_vars PROVE CallsInv'
  OBVIOUS
<1> USE DEF CallsInv
<1>1. CASE UNCHANGED vars
  <2>1. Active' = Active
    BY <1>1 DEF vars, Active
  <2> QED
    BY <1>1, <2>1, Outcomes DEF vars
<1>2. CASE Tick
  <2>1. UNCHANGED calls /\ now' = now + 1
    BY <1>2 DEF Tick
  <2>2. Active' = Active
    BY <2>1 DEF Active
  <2> QED
    BY <2>1, <2>2, Outcomes
<1>3. CASE Restart
  <2>1. /\ UNCHANGED <<now, spent, answer, gated>>
        /\ \A c \in Calls : IF pc[c] \in {"idle", "done"}
                              THEN pc'[c] = pc[c] /\ verdict'[c] = verdict[c]
                              ELSE pc'[c] = "done"
    BY <1>3 DEF Restart
  <2>2. Active' = Active
    BY <2>1 DEF Active
  <2> QED
    BY <2>1, <2>2
<1>4. ASSUME NEW c \in Calls, Arrive(c) PROVE CallsInv'
  <2>1. ArrivedOwn(c) /\ UNCHANGED now
    BY <1>4, ArriveOwn DEF Arrive
  <2>2. \A d \in Calls \ {c} : Same(d)
    BY <1>4, OthersSame
  <2>3. Active' = Active \cup {c}
    BY <2>1, <2>2 DEF Active, ArrivedOwn, Same
  <2>4. IsFiniteSet(Active')
    BY <2>3, FS_AddElement
  <2> QED
    BY <2>1, <2>2, <2>4 DEF ArrivedOwn, Same, NoAnswer
<1>5. ASSUME NEW c \in Calls, Handle(c) PROVE CallsInv'
  <2>1. HandledOwn(c)
    BY <1>5, HandleOwn
  <2>2. UNCHANGED now /\ \A d \in Calls \ {c} : Same(d)
    BY <1>5, OthersSame DEF Handle, Gate, Lookup, Prompt, ModelFails, ModelReplies, Put
  <2>3. Active' = Active
    BY <2>1, <2>2 DEF Active, HandledOwn, Same
  <2>4. ASSUME NEW d \in Calls
        PROVE  /\ -1 <= gated'[d] /\ gated'[d] <= now'
               /\ pc'[d] \in {"idle", "gate"} => gated'[d] = -1
               /\ pc'[d] # "done" => verdict'[d] = "none" /\ ~answer'[d].hit
               /\ pc'[d] \in {"idle", "gate", "lookup", "prompt"} => spent'[d] = 0
    <3>1. CASE d # c
      BY <2>2, <3>1, Outcomes DEF Same
    <3>2. CASE d = c
      BY <2>1, <2>2, <3>2, Outcomes DEF HandledOwn
    <3> QED
      BY <3>1, <3>2
  <2> QED
    BY <2>3, <2>4
<1> QED
  BY <1>1, <1>2, <1>3, <1>4, <1>5 DEF Next

CallsTyped == Typed /\ CallsInv
LEMMA CallsAlways == Spec => []CallsTyped
<1>1. Init => CallsTyped
  BY TypedInit, CallsInit DEF CallsTyped
<1>2. CallsTyped /\ [Next]_vars => CallsTyped'
  BY TypedNext, CallsNext DEF CallsTyped
<1> QED
  BY <1>1, <1>2, PTL DEF Spec

-----------------------------------------------------------------------------
(* The rate limiter.  A process has counted every call of its current window; *)
(* what it let through before that window and less than a minute before its   *)
(* start is less than a rate's worth, because the call that opened the window *)
(* before is older than that.                                                 *)

Reached(p) == {c \in Calls : host[c] = p /\ gated[c] >= 0}
Refused(p) == {c \in Reached(p) : verdict[c] = "rate-limited"}
Opened(p) == limiter[p].window
InWindow(p) == {c \in Reached(p) : gated[c] >= Opened(p)}
Passed(p) == {c \in Admitted(p) : gated[c] >= Opened(p)}
Span(p, t, u) == {c \in Admitted(p) : gated[c] \in t..u}
Witnesses(p, c) == {d \in Reached(p) : gated[c] - gated[d] \in 0..(Minute - 1)}

WindowOK(p) ==
  /\ Opened(p) <= now
  /\ Reached(p) = {} => Opened(p) = -Minute
  /\ Reached(p) # {} => \E c \in Admitted(p) : gated[c] = Opened(p)
  /\ \A c \in Reached(p) : gated[c] < Opened(p) + Minute
  /\ Cardinality(InWindow(p)) = limiter[p].count
  /\ Cardinality(Passed(p)) <= RatePerMinute
  /\ \A t \in Int : t > Opened(p) - Minute =>
       Cardinality(Span(p, t, Opened(p) - 1)) < RatePerMinute
BudgetOK(p) ==
  \A t \in Int : Cardinality(Span(p, t, t + Minute - 1)) < 2 * RatePerMinute
RefusalOK(p) == \A c \in Refused(p) : Cardinality(Witnesses(p, c)) > RatePerMinute
LimiterOK(p) == WindowOK(p) /\ BudgetOK(p) /\ RefusalOK(p)
LimiterInv ==
  /\ \A c \in Calls : verdict[c] = "rate-limited" => gated[c] >= 0
  /\ \A p \in Processes : LimiterOK(p)

LEMMA SetsFinite ==
  ASSUME Typed, CallsInv, NEW p \in Processes
  PROVE  /\ Admitted(p) = Reached(p) \ Refused(p)
         /\ IsFiniteSet(Reached(p))
         /\ \A S : S \subseteq Reached(p) => IsFiniteSet(S) /\ Cardinality(S) \in Nat
<1>1. Reached(p) \subseteq Active
  BY DEF Reached, Active, CallsInv
<1>2. IsFiniteSet(Active)
  BY DEF CallsInv
<1>3. IsFiniteSet(Reached(p))
  BY <1>1, <1>2, FS_Subset
<1>4. \A S : S \subseteq Reached(p) => IsFiniteSet(S) /\ Cardinality(S) \in Nat
  BY <1>3, FS_Subset, FS_CardinalityType
<1> QED
  BY <1>3, <1>4 DEF Admitted, Reached, Refused

\* A step that neither reaches nor refuses a call of the process keeps its
\* limiter right.
LEMMA LimiterFrame ==
  ASSUME Typed, CallsInv, NEW p \in Processes, LimiterOK(p), Typed',
         now <= now', limiter'[p] = limiter[p],
         Reached(p)' = Reached(p), Refused(p)' = Refused(p),
         Admitted(p)' = Admitted(p),
         \A c \in Reached(p) : gated'[c] = gated[c]
  PROVE  LimiterOK(p)'
<1>1. Opened(p)' = Opened(p) /\ Opened(p) \in Int
  BY DEF Opened, Typed, StateOK, MemoryOK
<1>2. Admitted(p) \subseteq Reached(p)
  BY DEF Admitted, Reached
<1>3. InWindow(p)' = InWindow(p)
  BY <1>1 DEF InWindow
<1>4. Passed(p)' = Passed(p)
  BY <1>1, <1>2 DEF Passed
<1>5. ASSUME NEW t, NEW u PROVE Span(p, t, u)' = Span(p, t, u)
  BY <1>2 DEF Span
<1>6. ASSUME NEW c \in Reached(p) PROVE Witnesses(p, c)' = Witnesses(p, c)
  BY DEF Witnesses
<1>7. WindowOK(p)'
  <2>1. Opened(p)' <= now'
    BY <1>1, Outcomes DEF LimiterOK, WindowOK, Typed, StateOK
  <2>2. PICK w \in Int : w = Opened(p)
    BY <1>1
  <2>3. \A t \in Int : t > w - Minute => Cardinality(Span(p, t, w - 1)') < RatePerMinute
    BY <1>5, <2>2 DEF LimiterOK, WindowOK
  <2>4. \A t \in Int : Span(p, t, w - 1)' = {c \in Admitted(p)' : gated'[c] \in t..(w - 1)}
    BY DEF Span
  <2>5. \A t \in Int : t > Opened(p)' - Minute =>
          Cardinality({c \in Admitted(p)' : gated'[c] \in t..(Opened(p)' - 1)})
            < RatePerMinute
    BY <1>1, <2>2, <2>3, <2>4
  <2> QED
    BY <1>1, <1>2, <1>3, <1>4, <2>1, <2>5 DEF LimiterOK, WindowOK, Span
<1>8. BudgetOK(p)'
  BY <1>5 DEF LimiterOK, BudgetOK
<1>9. RefusalOK(p)'
  BY <1>6 DEF LimiterOK, RefusalOK, Refused
<1> QED
  BY <1>7, <1>8, <1>9 DEF LimiterOK

LEMMA LimiterInit == Init => LimiterInv
<1> SUFFICES ASSUME Init PROVE LimiterInv
  OBVIOUS
<1>1. ASSUME NEW p \in Processes PROVE LimiterOK(p)
  <2>1. Reached(p) = {} /\ Refused(p) = {} /\ Admitted(p) = {} /\ InWindow(p) = {}
        /\ Passed(p) = {} /\ \A t, u : Span(p, t, u) = {}
    BY DEF Init, Reached, Refused, Admitted, InWindow, Passed, Span
  <2>2. /\ Opened(p) = -Minute /\ limiter[p].count = 0 /\ now = 0
        /\ 0 < RatePerMinute /\ RatePerMinute \in Nat /\ Minute \in Nat
    BY LimitsAssumption DEF Init, Opened
  <2>3. 0 < 2 * RatePerMinute
    BY <2>2
  <2>4. Cardinality({}) = 0
    BY FS_EmptySet
  <2>5. WindowOK(p)
    <3>1. \A t, u : Cardinality(Span(p, t, u)) < RatePerMinute
      BY <2>1, <2>2, <2>4
    <3> QED
      BY <2>1, <2>2, <2>4, <3>1 DEF WindowOK
  <2>6. BudgetOK(p)
    BY <2>1, <2>3, <2>4 DEF BudgetOK
  <2>7. RefusalOK(p)
    BY <2>1 DEF RefusalOK
  <2> QED
    BY <2>5, <2>6, <2>7 DEF LimiterOK
<1> QED
  BY <1>1 DEF Init, LimiterInv

\* The limiter counts a call: the one transition of a process's limiter.
Counts(c) ==
  LET p == host[c] IN
  /\ pc[c] = "gate" /\ gated' = [gated EXCEPT ![c] = now]
  /\ limiter' = [limiter EXCEPT ![p] =
       [count |-> CountAfter(p), window |-> IF WindowOver(p) THEN now ELSE @.window]]
  /\ UNCHANGED <<now, host>>
  /\ IF Admits(p) THEN verdict' = verdict
                  ELSE verdict' = [verdict EXCEPT ![c] = "rate-limited"]

\* The sets of calls after a call is counted.
LEMMA CountedSets ==
  ASSUME Typed, CallsInv, NEW c \in Calls, Counts(c), NEW p \in Processes
  PROVE  /\ Reached(p)' = IF p = host[c] THEN Reached(p) \cup {c} ELSE Reached(p)
         /\ Refused(p)' = IF p = host[c] /\ ~Admits(p) THEN Refused(p) \cup {c} ELSE Refused(p)
         /\ Admitted(p)' = IF p = host[c] /\ Admits(p) THEN Admitted(p) \cup {c}
                                                        ELSE Admitted(p)
         /\ c \notin Reached(p)
         /\ gated'[c] = now
         /\ \A d \in Reached(p) : gated'[d] = gated[d] /\ gated[d] <= now
<1>1. /\ gated[c] = -1 /\ verdict[c] = "none" /\ gated'[c] = now /\ now >= 0
      /\ host' = host
      /\ \A d \in Calls \ {c} : gated'[d] = gated[d] /\ verdict'[d] = verdict[d]
      /\ verdict'[c] = IF Admits(host[c]) THEN "none" ELSE "rate-limited"
  BY Outcomes DEF Counts, CallsInv
<1>2. c \notin Reached(p)
  BY <1>1 DEF Reached
<1>3. \A d \in Reached(p) : gated'[d] = gated[d] /\ gated[d] <= now
  BY <1>1, <1>2 DEF Reached, CallsInv
<1>4. Reached(p)' = IF p = host[c] THEN Reached(p) \cup {c} ELSE Reached(p)
  BY <1>1 DEF Reached
<1>5. Refused(p)' = IF p = host[c] /\ ~Admits(p) THEN Refused(p) \cup {c} ELSE Refused(p)
  BY <1>1, <1>4 DEF Refused, Reached
<1>6. Admitted(p)' = IF p = host[c] /\ Admits(p) THEN Admitted(p) \cup {c} ELSE Admitted(p)
  BY <1>1 DEF Admitted
<1> QED
  BY <1>1, <1>2, <1>3, <1>4, <1>5, <1>6

LEMMA LimiterCounts ==
  ASSUME Typed, CallsInv, LimiterInv, NEW c \in Calls, Counts(c),
         NEW q \in Processes, q = host[c]
  PROVE  LimiterOK(q)'
<1>2. /\ Reached(q)' = Reached(q) \cup {c} /\ c \notin Reached(q) /\ gated'[c] = now
      /\ Refused(q)' = IF Admits(q) THEN Refused(q) ELSE Refused(q) \cup {c}
      /\ Admitted(q)' = IF Admits(q) THEN Admitted(q) \cup {c} ELSE Admitted(q)
      /\ \A d \in Reached(q) : gated'[d] = gated[d] /\ gated[d] <= now
      /\ Admitted(q) \subseteq Reached(q)
  BY CountedSets DEF Admitted, Reached
<1>3. /\ now' = now /\ now \in Nat /\ Opened(q) \in Int /\ limiter[q].count \in Nat
      /\ RatePerMinute \in Nat /\ 1 <= RatePerMinute /\ Minute \in Nat /\ 1 <= Minute
  BY LimitsAssumption, Outcomes DEF Counts, Opened, Typed, StateOK, MemoryOK
<1>4. /\ limiter'[q].count = CountAfter(q)
      /\ Opened(q)' = IF WindowOver(q) THEN now ELSE Opened(q)
  BY Outcomes DEF Counts, Opened, Typed, StateOK, MemoryOK
<1>5. LimiterOK(q)
  BY DEF LimiterInv
<1>6. \A S : S \subseteq Reached(q)' => IsFiniteSet(S) /\ Cardinality(S) \in Nat
  BY <1>2, SetsFinite, FS_AddElement, FS_Subset, FS_CardinalityType
<1>7. \A S : S \subseteq Reached(q) =>
        /\ IsFiniteSet(S) /\ Cardinality(S) \in Nat
        /\ Cardinality(S \cup {c}) = Cardinality(S) + 1
  BY <1>2, SetsFinite, FS_AddElement
<1>8. \A S, T : S \subseteq T /\ T \subseteq Reached(q)' => Cardinality(S) <= Cardinality(T)
  BY <1>6, FS_Subset
<1>9. \A d \in Reached(q) : gated[d] \in Int /\ 0 <= gated[d]
  BY Outcomes DEF Reached
\* A new window holds this call alone.
<1>10. ASSUME WindowOver(q) PROVE WindowOK(q)'
  <2>1. Opened(q)' = now /\ limiter'[q].count = 1 /\ Admits(q) /\ now - Opened(q) >= Minute
    BY <1>3, <1>4, <1>10 DEF CountAfter, Admits, WindowOver, Opened
  <2>2. \A d \in Reached(q) : gated[d] < now
    BY <1>3, <1>5, <1>9, <2>1 DEF LimiterOK, WindowOK
  <2>3. InWindow(q)' = {c} /\ Passed(q)' = {c}
    <3>1. InWindow(q)' = {d \in Reached(q) \cup {c} : gated'[d] >= now}
      BY <1>2, <2>1 DEF InWindow
    <3>2. Passed(q)' = {d \in Admitted(q) \cup {c} : gated'[d] >= now}
      BY <1>2, <2>1 DEF Passed
    <3>3. \A d \in Reached(q) : ~(gated'[d] >= now)
      BY <1>2, <1>3, <1>9, <2>2
    <3> QED
      BY <1>2, <1>3, <3>1, <3>2, <3>3
  <2>4. Cardinality({c}) = 1
    BY FS_Singleton
  <2>5. ASSUME NEW t \in Int, t > now - Minute
        PROVE  Cardinality({d \in Admitted(q)' : gated'[d] \in t..(now - 1)}) < RatePerMinute
    <3> DEFINE S == {d \in Admitted(q)' : gated'[d] \in t..(now - 1)}
    <3>1. S \subseteq Reached(q) /\ \A d \in S : d \in Admitted(q) /\ gated[d] >= t
      BY <1>2, <1>3, <1>9
    <3>2. CASE Reached(q) = {}
      <4>1. S = {}
        BY <3>1, <3>2
      <4> QED
        BY <1>3, <4>1, FS_EmptySet
    <3>3. CASE Reached(q) # {}
      <4>1. PICK o \in Admitted(q) : gated[o] = Opened(q)
        BY <1>5, <3>3 DEF LimiterOK, WindowOK
      <4>2. S \subseteq Passed(q) \ {o} /\ o \in Passed(q)
        BY <1>2, <1>3, <1>9, <2>1, <2>5, <3>1, <4>1 DEF Passed
      <4>3. IsFiniteSet(Passed(q)) /\ Cardinality(Passed(q)) \in Nat
        BY <1>2, <1>7 DEF Passed
      <4>4. /\ Cardinality(Passed(q) \ {o}) = Cardinality(Passed(q)) - 1
            /\ IsFiniteSet(Passed(q) \ {o})
        BY <4>2, <4>3, FS_RemoveElement
      <4>5. Cardinality(S) <= Cardinality(Passed(q) \ {o}) /\ Cardinality(S) \in Nat
        BY <1>7, <3>1, <4>2, <4>4, FS_Subset
      <4>6. Cardinality(Passed(q)) <= RatePerMinute
        BY <1>5 DEF LimiterOK, WindowOK
      <4> QED
        BY <1>3, <4>3, <4>4, <4>5, <4>6
    <3> QED
      BY <3>2, <3>3
  <2>6. \A t \in Int : t > Opened(q)' - Minute =>
          Cardinality({d \in Admitted(q)' : gated'[d] \in t..(Opened(q)' - 1)})
            < RatePerMinute
    BY <2>1, <2>5
  <2>7. \A d \in Reached(q)' : gated'[d] < Opened(q)' + Minute
    BY <1>2, <1>3, <1>9, <2>1, <2>2
  <2>8. Cardinality(Passed(q)') <= RatePerMinute
        /\ Cardinality(InWindow(q)') = limiter'[q].count
    BY <1>3, <2>1, <2>3, <2>4
  <2>9. Reached(q)' # {} /\ c \in Admitted(q)' /\ gated'[c] = Opened(q)'
    BY <1>2, <2>1
  <2>10. \A t \in Int : t > Opened(q)' - Minute =>
           Cardinality(Span(q, t, Opened(q) - 1)') < RatePerMinute
    BY <2>6 DEF Span
  <2>11. Opened(q)' <= now'
    BY <1>3, <2>1
  <2> QED
    BY <2>7, <2>8, <2>9, <2>10, <2>11 DEF WindowOK
\* The window goes on with one call more.
<1>11. ASSUME ~WindowOver(q) PROVE WindowOK(q)'
  <2>1. /\ Opened(q)' = Opened(q) /\ limiter'[q].count = limiter[q].count + 1
        /\ now - Opened(q) < Minute /\ 0 <= now - Opened(q)
        /\ Admits(q) <=> limiter[q].count + 1 <= RatePerMinute
    BY <1>3, <1>4, <1>5, <1>11 DEF CountAfter, Admits, WindowOver, Opened, LimiterOK, WindowOK
  <2>2. Reached(q) # {}
    BY <1>3, <1>5, <2>1 DEF LimiterOK, WindowOK
  <2>3. PICK o \in Admitted(q) : gated[o] = Opened(q)
    BY <1>5, <2>2 DEF LimiterOK, WindowOK
  <2>4. InWindow(q)' = InWindow(q) \cup {c}
    BY <1>2, <1>3, <2>1 DEF InWindow
  <2>5. Cardinality(InWindow(q)') = limiter'[q].count
    BY <1>5, <1>7, <2>1, <2>4 DEF InWindow, LimiterOK, WindowOK
  <2>6. Cardinality(Passed(q)') <= RatePerMinute
    <3>1. CASE Admits(q)
      <4>1. Passed(q)' \subseteq InWindow(q)' /\ InWindow(q)' \subseteq Reached(q)'
        BY <1>2 DEF Passed, InWindow
      <4>2. Cardinality(Passed(q)') <= Cardinality(InWindow(q)')
        BY <1>8, <4>1
      <4>3. Cardinality(Passed(q)') \in Nat
        BY <1>6, <4>1
      <4> QED
        BY <1>3, <2>1, <2>5, <3>1, <4>2, <4>3
    <3>2. CASE ~Admits(q)
      <4>1. Passed(q)' = Passed(q)
        BY <1>2, <2>1, <3>2 DEF Passed
      <4> QED
        BY <1>5, <4>1 DEF LimiterOK, WindowOK
    <3> QED
      BY <3>1, <3>2
  <2>7. ASSUME NEW t \in Int, t > Opened(q) - Minute
        PROVE  Cardinality({d \in Admitted(q)' : gated'[d] \in t..(Opened(q) - 1)})
                 < RatePerMinute
    <3>1. {d \in Admitted(q)' : gated'[d] \in t..(Opened(q) - 1)}
            = Span(q, t, Opened(q) - 1)
      BY <1>2, <1>3, <2>1 DEF Span
    <3> QED
      BY <1>5, <2>7, <3>1 DEF LimiterOK, WindowOK
  <2>8. \A t \in Int : t > Opened(q)' - Minute =>
          Cardinality({d \in Admitted(q)' : gated'[d] \in t..(Opened(q)' - 1)})
            < RatePerMinute
    BY <2>1, <2>7
  <2>9. \A d \in Reached(q)' : gated'[d] < Opened(q)' + Minute
    BY <1>2, <1>3, <1>5, <2>1 DEF LimiterOK, WindowOK
  <2>10. Reached(q)' # {} /\ o \in Admitted(q)' /\ gated'[o] = Opened(q)'
    BY <1>2, <2>1, <2>3
  <2>11. \A t \in Int : t > Opened(q)' - Minute =>
           Cardinality(Span(q, t, Opened(q) - 1)') < RatePerMinute
    BY <2>8 DEF Span
  <2>12. Opened(q)' <= now'
    BY <1>3, <2>1
  <2> QED
    BY <2>5, <2>6, <2>9, <2>10, <2>11, <2>12 DEF WindowOK
<1>12. WindowOK(q)'
  BY <1>10, <1>11
\* A span that reaches into the window takes its start from less than a minute
\* before the window, so it holds less than two rates' worth.
<1>13. BudgetOK(q)'
  <2>1. PICK w \in Int : w = Opened(q)' /\ w <= now
    BY <1>3, <1>4, <1>5 DEF LimiterOK, WindowOK
  <2>2. SUFFICES ASSUME NEW t \in Int
                 PROVE  Cardinality({d \in Admitted(q)' : gated'[d] \in t..(t + Minute - 1)})
                          < 2 * RatePerMinute
    BY DEF BudgetOK, Span
  <2> DEFINE S == {d \in Admitted(q)' : gated'[d] \in t..(t + Minute - 1)}
  <2>3. CASE Admits(q) /\ now \in t..(t + Minute - 1)
    <3> DEFINE E == {d \in Admitted(q)' : gated'[d] \in t..(w - 1)}
    <3>1. Cardinality(E) < RatePerMinute
      <4>1. t > w - Minute
        BY <1>3, <2>1, <2>3
      <4> QED
        BY <1>12, <2>1, <4>1 DEF WindowOK, Span
    <3>2. Cardinality(Passed(q)') <= RatePerMinute
      BY <1>12 DEF WindowOK
    <3>3. S \subseteq E \cup Passed(q)'
      BY <1>2, <1>3, <1>9, <2>1 DEF Passed
    <3>4. /\ Passed(q)' \subseteq Reached(q)' /\ E \subseteq Reached(q)'
          /\ S \subseteq Reached(q)'
      BY <1>2 DEF Passed
    <3>5. /\ Cardinality(S) \in Nat /\ Cardinality(E) \in Nat
          /\ Cardinality(Passed(q)') \in Nat /\ IsFiniteSet(E) /\ IsFiniteSet(Passed(q)')
      BY <1>6, <3>4
    <3> HIDE DEF S, E
    <3>6. /\ Cardinality(E \cup Passed(q)')
               = Cardinality(E) + Cardinality(Passed(q)') - Cardinality(E \cap Passed(q)')
          /\ IsFiniteSet(E \cup Passed(q)')
      BY <3>5, FS_Union
    <3>7. Cardinality(E \cap Passed(q)') \in Nat
      BY <3>5, FS_Intersection, FS_CardinalityType
    <3>8. Cardinality(S) <= Cardinality(E \cup Passed(q)')
      BY <3>3, <3>6, FS_Subset
    <3>9. Cardinality(S) < 2 * RatePerMinute
      BY <1>3, <3>1, <3>2, <3>5, <3>6, <3>7, <3>8
    <3> QED
      BY <3>9 DEF S
  <2>4. CASE ~(Admits(q) /\ now \in t..(t + Minute - 1))
    <3>1. S = Span(q, t, t + Minute - 1)
      BY <1>2, <2>4 DEF Span
    <3> QED
      BY <1>5, <3>1 DEF LimiterOK, BudgetOK
  <2> QED
    BY <2>3, <2>4
\* The call that is refused was counted in a window not a minute old.
<1>14. RefusalOK(q)'
  <2>1. SUFFICES ASSUME NEW d \in Refused(q)'
                 PROVE  Cardinality({e \in Reached(q)' :
                          gated'[d] - gated'[e] \in 0..(Minute - 1)}) > RatePerMinute
    BY DEF RefusalOK, Witnesses
  <2> DEFINE W == {e \in Reached(q)' : gated'[d] - gated'[e] \in 0..(Minute - 1)}
  <2>2. CASE d \in Refused(q)
    <3>1. Witnesses(q, d) \subseteq W /\ W \subseteq Reached(q)'
      BY <1>2, <2>2 DEF Witnesses, Refused
    <3>2. Cardinality(Witnesses(q, d)) <= Cardinality(W)
      BY <1>8, <3>1
    <3>3. Cardinality(Witnesses(q, d)) > RatePerMinute
      BY <1>5, <2>2 DEF LimiterOK, RefusalOK
    <3>4. Cardinality(W) \in Nat /\ Cardinality(Witnesses(q, d)) \in Nat
      BY <1>6, <3>1
    <3> QED
      BY <1>3, <3>2, <3>3, <3>4
  <2>3. CASE d \notin Refused(q)
    <3>1. d = c /\ ~Admits(q)
      BY <1>2, <2>3
    <3>2. ~WindowOver(q) /\ Cardinality(InWindow(q)') > RatePerMinute
      BY <1>3, <1>4, <1>12, <3>1 DEF Admits, CountAfter, WindowOK
    <3>3. InWindow(q)' \subseteq W /\ W \subseteq Reached(q)'
      <4>1. Opened(q)' = Opened(q) /\ now - Opened(q) < Minute
        BY <1>3, <1>4, <3>2 DEF WindowOver, Opened
      <4> QED
        BY <1>2, <1>3, <1>9, <3>1, <4>1 DEF InWindow
    <3>4. Cardinality(InWindow(q)') <= Cardinality(W) /\ Cardinality(W) \in Nat
          /\ Cardinality(InWindow(q)') \in Nat
      BY <1>6, <1>8, <3>3
    <3> QED
      BY <1>3, <3>2, <3>4
  <2> QED
    BY <2>2, <2>3
<1> QED
  BY <1>12, <1>13, <1>14 DEF LimiterOK

\* A step that counts no call.
LEMMA LimiterQuiet ==
  ASSUME Typed, CallsInv, LimiterInv, Typed', now <= now', limiter' = limiter,
         \A d \in Calls : /\ gated'[d] = gated[d]
                          /\ gated[d] >= 0 => host'[d] = host[d]
                          /\ verdict'[d] = "rate-limited" <=> verdict[d] = "rate-limited"
  PROVE  LimiterInv'
<1>1. ASSUME NEW p \in Processes PROVE LimiterOK(p)'
  <2>1. Reached(p)' = Reached(p) /\ \A c \in Reached(p) : gated'[c] = gated[c]
    BY DEF Reached
  <2>2. Refused(p)' = Refused(p)
    BY <2>1 DEF Refused, Reached
  <2>3. Admitted(p)' = Admitted(p)
    BY DEF Admitted
  <2> QED
    BY <2>1, <2>2, <2>3, LimiterFrame DEF LimiterInv
<1> QED
  BY <1>1 DEF LimiterInv

LEMMA LimiterCountsAll ==
  ASSUME Typed, CallsInv, LimiterInv, Typed', NEW c \in Calls, Counts(c)
  PROVE  LimiterInv'
<1>1. ASSUME NEW p \in Processes PROVE LimiterOK(p)'
  <2>1. CASE p = host[c]
    BY <2>1, LimiterCounts
  <2>2. CASE p # host[c]
    <3>1. /\ Reached(p)' = Reached(p) /\ Refused(p)' = Refused(p)
          /\ Admitted(p)' = Admitted(p) /\ \A d \in Reached(p) : gated'[d] = gated[d]
      BY <2>2, CountedSets
    <3>2. limiter'[p] = limiter[p] /\ now <= now'
      BY <2>2, Outcomes DEF Counts, Typed, StateOK, MemoryOK
    <3> QED
      BY <3>1, <3>2, LimiterFrame DEF LimiterInv
  <2> QED
    BY <2>1, <2>2
<1>2. \A d \in Calls : verdict'[d] = "rate-limited" => gated'[d] >= 0
  BY Outcomes DEF Counts, LimiterInv
<1> QED
  BY <1>1, <1>2 DEF LimiterInv

LEMMA LimiterNext == CallsTyped /\ LimiterInv /\ [Next]_vars => LimiterInv'
<1> SUFFICES ASSUME Typed, CallsInv, LimiterInv, [Next]_vars PROVE LimiterInv'
  BY DEF CallsTyped
<1>1. Typed'
  BY TypedNext
<1>2. CASE UNCHANGED vars
  BY <1>1, <1>2, Outcomes, LimiterQuiet DEF vars
<1>3. CASE Tick
  <2>1. UNCHANGED <<memory, calls>> /\ now' = now + 1
    BY <1>3 DEF Tick
  <2> QED
    BY <1>1, <2>1, Outcomes, LimiterQuiet
<1>4. CASE Restart
  <2>1. /\ UNCHANGED <<now, memory, host, gated>>
        /\ verdict' = [c \in Calls |-> IF pc[c] \notin {"idle", "done"} THEN "lost"
                                                                       ELSE verdict[c]]
    BY <1>4 DEF Restart
  <2>2. \A d \in Calls : verdict'[d] = "rate-limited" <=> verdict[d] = "rate-limited"
    BY <2>1 DEF CallsInv
  <2> QED
    BY <1>1, <2>1, <2>2, Outcomes, LimiterQuiet
<1>5. ASSUME NEW c \in Calls, Arrive(c) PROVE LimiterInv'
  <2>1. ArrivedOwn(c) /\ UNCHANGED <<now, limiter, gated>>
    BY <1>5, ArriveOwn DEF Arrive
  <2>2. \A d \in Calls \ {c} : Same(d)
    BY <1>5, OthersSame
  <2>3. gated[c] = -1 /\ verdict[c] = "none"
    BY <2>1 DEF ArrivedOwn, CallsInv
  <2>4. ASSUME NEW d \in Calls
        PROVE  /\ gated'[d] = gated[d]
               /\ gated[d] >= 0 => host'[d] = host[d]
               /\ verdict'[d] = "rate-limited" <=> verdict[d] = "rate-limited"
    BY <2>1, <2>2, <2>3 DEF Same, ArrivedOwn
  <2> QED
    BY <1>1, <2>1, <2>4, Outcomes, LimiterQuiet
<1>6. ASSUME NEW c \in Calls, Gate(c) PROVE LimiterInv'
  <2>1. CASE Finish(c, "contract-mismatch") /\ UNCHANGED <<limiter, gated>>
    <3>1. verdict' = [verdict EXCEPT ![c] = "contract-mismatch"] /\ verdict[c] = "none"
          /\ UNCHANGED <<now, host>>
      BY <1>6, <2>1 DEF Finish, Return, Gate, CallsInv
    <3> QED
      BY <1>1, <2>1, <3>1, Outcomes, LimiterQuiet
  <2>2. CASE Compatible(req[c].version)
    <3>1. Counts(c)
      BY <1>6, <2>2 DEF Counts, Gate, Finish, Return, Proceed
    <3> QED
      BY <1>1, <3>1, LimiterCountsAll
  <2> QED
    BY <1>6, <2>1, <2>2 DEF Gate
<1>7. ASSUME NEW c \in Calls,
             Lookup(c) \/ Prompt(c) \/ ModelFails(c) \/ ModelReplies(c) \/ Put(c)
      PROVE  LimiterInv'
  <2>1. UNCHANGED <<now, limiter, host, gated>> /\ verdict[c] = "none"
    BY <1>7 DEF Lookup, Prompt, ModelFails, ModelReplies, Put, CallsInv
  <2>2. \/ verdict' = verdict
        \/ \E code \in {"ok", BudgetCode, "gateway-down", "invalid-output"} :
             verdict' = [verdict EXCEPT ![c] = code]
    BY <1>7 DEF Lookup, Prompt, ModelFails, ModelReplies, Put, Finish, Return, Proceed,
                Proposed, Explained
  <2>3. \A d \in Calls : verdict'[d] = "rate-limited" <=> verdict[d] = "rate-limited"
    BY <2>1, <2>2, Outcomes DEF BudgetCode
  <2> QED
    BY <1>1, <2>1, <2>3, Outcomes, LimiterQuiet
<1> QED
  BY <1>2, <1>3, <1>4, <1>5, <1>6, <1>7 DEF Next, Handle

LEMMA LimiterAlways == Spec => [](CallsTyped /\ LimiterInv)
<1>1. Init => LimiterInv
  BY LimiterInit
<1>2. (CallsTyped /\ LimiterInv) /\ [Next]_vars => LimiterInv'
  BY LimiterNext
<1> QED
  BY <1>1, <1>2, CallsAlways, PTL DEF Spec

\* In any minute, wherever it begins, a process lets fewer calls through than
\* twice its rate (limiter.allow).
THEOREM BudgetKept == Spec => []MinuteBudget
<1>1. CallsTyped /\ LimiterInv => MinuteBudget
  <2> SUFFICES ASSUME LimiterInv, NEW p \in Processes, NEW t \in 0..MaxTime
               PROVE  Cardinality({c \in Admitted(p) : gated[c] \in t..(t + Minute - 1)})
                        < 2 * RatePerMinute
    BY DEF MinuteBudget
  <2>1. t \in Int
    BY LimitsAssumption
  <2> QED
    BY <2>1 DEF LimiterInv, LimiterOK, BudgetOK, Span
<1> QED
  BY <1>1, LimiterAlways, PTL

\* A call is told that it is rate-limited only when its process was reached by
\* more calls than the rate in the minute before it, itself included.
THEOREM RefusalsAreHonest == Spec => []RefusalIsHonest
<1>1. CallsTyped /\ LimiterInv => RefusalIsHonest
  <2> SUFFICES ASSUME CallsTyped, LimiterInv, NEW c \in Calls, verdict[c] = "rate-limited"
               PROVE  Cardinality({d \in Calls : /\ host[d] = host[c] /\ gated[d] >= 0
                                     /\ gated[c] - gated[d] \in 0..(Minute - 1)})
                        > RatePerMinute
    BY DEF RefusalIsHonest
  <2>1. host[c] \in Processes /\ c \in Refused(host[c])
    BY Outcomes DEF CallsTyped, LimiterInv, Refused, Reached
  <2>2. Witnesses(host[c], c)
          = {d \in Calls : /\ host[d] = host[c] /\ gated[d] >= 0
                           /\ gated[c] - gated[d] \in 0..(Minute - 1)}
    BY DEF Witnesses, Reached
  <2>3. Cardinality(Witnesses(host[c], c)) > RatePerMinute
    BY <2>1 DEF LimiterInv, LimiterOK, RefusalOK
  <2> QED
    BY <2>2, <2>3
<1> QED
  BY <1>1, LimiterAlways, PTL

-----------------------------------------------------------------------------
(* The proposal cache.  An entry comes from a call that asked the model and    *)
(* returned; until its lifetime is over the entry of that call's key lives at  *)
(* least as long; and a call that came after that and still went to the model  *)
(* found the lifetime over.                                                    *)

Paid(s) == Answered(s) /\ ~answer[s].hit
Expiry(s) == finished[s] + CacheTTL
Key(s) == CacheKey(req[s])

TimesInv ==
  \A c \in Calls : Answered(c) => /\ gated[c] <= finished[c] /\ finished[c] <= now
                                  /\ 0 <= finished[c] /\ pc[c] = "done"
FilledBy(p, k, s) ==
  /\ Paid(s) /\ host[s] = p /\ Key(s) = k
  /\ cache[p][k].out = answer[s].out /\ cache[p][k].expires = Expiry(s)
FilledInv ==
  \A p \in Processes : \A k \in Keys :
    cache[p][k].expires >= 0 => \E s \in Calls : FilledBy(p, k, s)
Held(s) == now > Expiry(s) \/ cache[host[s]][Key(s)].expires >= Expiry(s)
HeldInv == \A s \in Calls : Paid(s) => Held(s)
Asks(s, d) ==
  /\ Proposes(d) /\ host[d] = host[s] /\ Key(d) = Key(s) /\ gated[d] > finished[s]
Missed(s, d) ==
  /\ pc[d] \in {"prompt", "model"} => now > Expiry(s)
  /\ pc[d] = "put" \/ Paid(d) => answer[d].born > Expiry(s)
MissedInv == \A s \in Calls : Paid(s) => \A d \in Calls : Asks(s, d) => Missed(s, d)
CacheInv == TimesInv /\ FilledInv /\ HeldInv /\ MissedInv /\ AnswersAreFresh

\* A call that returned is not touched again.
LEMMA DoneSame ==
  ASSUME CallsTyped, [Next]_vars, NEW s \in Calls, pc[s] = "done"
  PROVE  Same(s) /\ now <= now'
<1> USE DEF CallsTyped
<1>1. CASE UNCHANGED vars
  BY <1>1, Outcomes DEF vars, Same
<1>2. CASE Tick
  BY <1>2, Outcomes DEF Tick, Same
<1>3. CASE Restart
  BY <1>3, Outcomes DEF Restart, Same
<1>4. ASSUME NEW c \in Calls, Arrive(c) \/ Handle(c) PROVE Same(s) /\ now <= now'
  <2>1. s # c
    BY <1>4, ArriveOwn, HandleOwn DEF ArrivedOwn, HandledOwn
  <2> QED
    BY <1>4, <2>1, OthersSame, Outcomes
<1> QED
  BY <1>1, <1>2, <1>3, <1>4 DEF Next

\* What a call that has its answer is keeps.
LEMMA AnsweredSame ==
  ASSUME CallsTyped, TimesInv, [Next]_vars, NEW s \in Calls, Answered(s)
  PROVE  /\ Same(s) /\ now <= now' /\ Answered(s)' /\ Proposes(s)'
         /\ Expiry(s)' = Expiry(s) /\ Key(s)' = Key(s) /\ (Paid(s)' <=> Paid(s))
<1>1. Same(s) /\ now <= now'
  BY DoneSame DEF TimesInv
<1> QED
  BY <1>1 DEF Same, Answered, Proposes, Expiry, Key, Paid

\* A call gets its answer by looking it up or by storing it.
LEMMA NewlyAnswered ==
  ASSUME CallsTyped, TimesInv, [Next]_vars, NEW s \in Calls, Answered(s)', ~Answered(s)
  PROVE  /\ (Lookup(s) /\ Live(host[s], Key(s))) \/ Put(s)
         /\ finished'[s] = now /\ now' = now /\ pc'[s] = "done"
         /\ host'[s] = host[s] /\ Key(s)' = Key(s) /\ Proposes(s) /\ gated'[s] = gated[s]
<1> USE DEF CallsTyped, Answered, Proposes, Key
<1>1. ~UNCHANGED vars /\ ~Tick
  BY DEF vars, Tick
<1>2. ~Restart
  BY DEF Restart
<1>3. PICK c \in Calls : Arrive(c) \/ Handle(c)
  BY <1>1, <1>2 DEF Next
<1>4. s = c /\ UNCHANGED now
  BY <1>3, OthersSame DEF Same, Handle, Arrive, Gate, Lookup, Prompt, ModelFails,
                          ModelReplies, Put
<1>5. ~Arrive(c)
  BY <1>4, ArriveOwn, Outcomes DEF ArrivedOwn, CallsInv
<1>6. HandledOwn(c) /\ verdict[c] # "ok"
  BY <1>3, <1>5, HandleOwn DEF HandledOwn, CallsInv
<1>7. ~Gate(c) /\ ~Prompt(c) /\ ~ModelFails(c)
  BY <1>4, <1>6, Outcomes DEF Gate, Prompt, ModelFails, Finish, Return, Proceed, BudgetCode,
                              HandledOwn
<1>8. ~ModelReplies(c)
  BY <1>4, <1>6, Outcomes DEF ModelReplies, Proposed, Return, Proceed, HandledOwn
<1>9. Put(c) \/ (Lookup(c) /\ Live(host[c], Key(c)))
  BY <1>3, <1>4, <1>5, <1>6, <1>7, <1>8, Outcomes DEF Handle, Lookup, Proceed
<1>10. gated'[c] = gated[c] /\ pc'[c] = "done"
  BY <1>9, Outcomes DEF Put, Lookup, Finish, Return
<1> QED
  BY <1>4, <1>6, <1>9, <1>10 DEF HandledOwn

LEMMA TimesNext ==
  ASSUME CallsTyped, TimesInv, [Next]_vars
  PROVE  TimesInv'
<1> SUFFICES ASSUME NEW c \in Calls, Answered(c)'
             PROVE  /\ gated'[c] <= finished'[c] /\ finished'[c] <= now'
                    /\ 0 <= finished'[c] /\ pc'[c] = "done"
  BY DEF TimesInv
<1>1. CASE Answered(c)
  <2>1. Same(c) /\ now <= now'
    BY <1>1, AnsweredSame
  <2>2. now' \in Nat /\ now \in Nat
    BY TypedNext, Outcomes DEF CallsTyped, Typed, StateOK
  <2> QED
    BY <1>1, <2>1, <2>2, Outcomes DEF Same, TimesInv, CallsTyped
<1>2. CASE ~Answered(c)
  BY <1>2, NewlyAnswered, Outcomes DEF CallsTyped, CallsInv
<1> QED
  BY <1>1, <1>2

\* The three ways the cache moves: an answer is put, an expired entry is
\* dropped, or nothing changes.
Entry(p, k) == cache[p][k]
Stores(c) ==
  /\ Put(c) /\ Paid(c)' /\ Expiry(c)' = now + CacheTTL /\ now' = now
  /\ host[c] \in Processes /\ Key(c) \in Keys /\ host' = host /\ Key(c)' = Key(c)
  /\ answer'[c] = answer[c]
  /\ \A p \in Processes : \A k \in Keys :
       Entry(p, k)' = IF p = host[c] /\ k = Key(c)
                        THEN [out |-> answer[c].out, expires |-> now + CacheTTL,
                              born |-> answer[c].born]
                        ELSE Entry(p, k)
Drops(c) ==
  /\ Lookup(c) /\ ~Live(host[c], Key(c)) /\ now' = now
  /\ \A p \in Processes : \A k \in Keys :
       Entry(p, k)' = IF p = host[c] /\ k = Key(c) THEN Absent ELSE Entry(p, k)

LEMMA PutStores ==
  ASSUME CallsTyped, NEW c \in Calls, Put(c)
  PROVE  Stores(c)
<1> USE DEF CallsTyped
<1>1. /\ pc[c] = "put" /\ UNCHANGED <<now, req, host, answer>>
      /\ Return(c, "ok")
      /\ cache' = [cache EXCEPT ![host[c]] = [cache[host[c]] EXCEPT ![Key(c)] =
           [out |-> answer[c].out, expires |-> now + CacheTTL, born |-> answer[c].born]]]
  BY DEF Put, Finish, Key
<1>2. Proposes(c) /\ host[c] \in Processes /\ Key(c) \in Keys /\ ~answer[c].hit
  BY <1>1, KeyTyped, StateTyped DEF Typed, CacheUse, Proposes, Key, CallsInv
<1>3. Paid(c)' /\ Expiry(c)' = now + CacheTTL
  BY <1>1, <1>2, Outcomes DEF Paid, Answered, Proposes, Expiry, Return
<1>4. Key(c)' = Key(c)
  BY <1>1 DEF Key
<1>5. \A p \in Processes : \A k \in Keys :
        Entry(p, k)' = IF p = host[c] /\ k = Key(c)
                         THEN [out |-> answer[c].out, expires |-> now + CacheTTL,
                               born |-> answer[c].born]
                         ELSE Entry(p, k)
  BY <1>1, <1>2, StateTyped DEF Entry, Typed
<1> QED
  BY <1>1, <1>2, <1>3, <1>4, <1>5 DEF Stores

LEMMA LookupDrops ==
  ASSUME CallsTyped, NEW c \in Calls, Lookup(c), ~Live(host[c], Key(c))
  PROVE  Drops(c)
<1> USE DEF CallsTyped
<1>1. /\ pc[c] = "lookup" /\ UNCHANGED now
      /\ cache' = [cache EXCEPT ![host[c]] = [cache[host[c]] EXCEPT ![Key(c)] = Absent]]
  BY DEF Lookup, Key
<1>2. host[c] \in Processes /\ Key(c) \in Keys
  BY <1>1, KeyTyped, StateTyped DEF Typed, CacheUse, Proposes, Key
<1>3. \A p \in Processes : \A k \in Keys :
        Entry(p, k)' = IF p = host[c] /\ k = Key(c) THEN Absent ELSE Entry(p, k)
  BY <1>1, <1>2, StateTyped DEF Entry, Typed
<1> QED
  BY <1>1, <1>3 DEF Drops

LEMMA CacheMoves ==
  ASSUME CallsTyped, [Next]_vars
  PROVE  \/ cache' = cache /\ \A c \in Calls : ~Put(c)
         \/ \E c \in Calls : Drops(c)
         \/ \E c \in Calls : Stores(c)
<1>1. CASE \E c \in Calls : Put(c)
  BY <1>1, PutStores
<1>2. CASE \E c \in Calls : Lookup(c) /\ ~Live(host[c], Key(c))
  BY <1>2, LookupDrops
<1>3. ASSUME ~ \E c \in Calls : Put(c),
             ~ \E c \in Calls : Lookup(c) /\ ~Live(host[c], Key(c))
      PROVE  cache' = cache
  <2>1. ASSUME NEW c \in Calls, Lookup(c) PROVE cache' = cache
    BY <1>3, <2>1 DEF Lookup, Key
  <2>2. ASSUME NEW c \in Calls, Handle(c) PROVE cache' = cache
    BY <1>3, <2>1, <2>2 DEF Handle, Gate, Prompt, ModelFails, ModelReplies
  <2>3. ASSUME NEW c \in Calls, Arrive(c) PROVE cache' = cache
    BY <2>3 DEF Arrive
  <2>4. Tick \/ Restart \/ UNCHANGED vars => cache' = cache
    BY DEF Tick, Restart, vars
  <2> QED
    BY <2>2, <2>3, <2>4 DEF Next
<1> QED
  BY <1>1, <1>2, <1>3

\* Only a call that stores its answer becomes one that paid.
LEMMA NewlyPaid ==
  ASSUME CallsTyped, TimesInv, [Next]_vars, NEW s \in Calls, Paid(s)', ~Paid(s)
  PROVE  Stores(s)
<1>1. ~Answered(s)
  BY AnsweredSame
<1>2. Answered(s)' /\ ~(answer[s].hit)'
  BY DEF Paid
<1>3. (Lookup(s) /\ Live(host[s], Key(s))) \/ Put(s)
  BY <1>1, <1>2, NewlyAnswered
<1>4. ASSUME Lookup(s), Live(host[s], Key(s)) PROVE FALSE
  <2>1. answer' = [answer EXCEPT ![s] = [out |-> cache[host[s]][Key(s)].out,
                      born |-> cache[host[s]][Key(s)].born, hit |-> TRUE]]
    BY <1>4 DEF Lookup, Key
  <2>2. answer'[s].hit = TRUE
    BY <2>1, Outcomes DEF CallsTyped
  <2> QED
    BY <1>2, <2>2
<1> QED
  BY <1>3, <1>4, PutStores

LEMMA EntryTyped ==
  ASSUME CallsTyped, NEW p \in Processes, NEW k \in Keys
  PROVE  cache[p][k] \in Entries /\ cache[p][k].expires \in Int
  BY StateTyped DEF CallsTyped, Typed, Entries

LEMMA FilledNext ==
  ASSUME CallsTyped, CacheInv, [Next]_vars
  PROVE  FilledInv'
<1> USE DEF CacheInv
<1> SUFFICES ASSUME NEW p \in Processes, NEW k \in Keys, Entry(p, k)'.expires >= 0
             PROVE  \E s \in Calls : FilledBy(p, k, s)'
  BY DEF FilledInv, Entry
<1>1. CASE Entry(p, k)' = Entry(p, k)
  <2>1. PICK s \in Calls : FilledBy(p, k, s)
    BY <1>1 DEF FilledInv, Entry
  <2>2. FilledBy(p, k, s)'
    BY <1>1, <2>1, AnsweredSame DEF FilledBy, Paid, Entry, Same
  <2> QED
    BY <2>2
<1>2. CASE Entry(p, k)' # Entry(p, k)
  <2>1. ~(cache' = cache)
    BY <1>2 DEF Entry
  <2>2. ASSUME NEW c \in Calls, Drops(c) PROVE FALSE
    BY <1>2, <2>2 DEF Drops, Absent
  <2>3. PICK c \in Calls : Stores(c)
    BY <2>1, <2>2, CacheMoves
  <2>4. FilledBy(p, k, c)'
    BY <1>2, <2>3 DEF FilledBy, Stores, Entry
  <2> QED
    BY <2>4
<1> QED
  BY <1>1, <1>2

LEMMA HeldNext ==
  ASSUME CallsTyped, CacheInv, [Next]_vars
  PROVE  HeldInv'
<1> USE DEF CacheInv
<1> SUFFICES ASSUME NEW s \in Calls, Paid(s)' PROVE Held(s)'
  BY DEF HeldInv
<1>1. CASE ~Paid(s)
  <2>1. Stores(s)
    BY <1>1, NewlyPaid
  <2>2. Entry(host[s], Key(s))' .expires = now + CacheTTL /\ now \in Nat /\ CacheTTL \in Nat
    BY <2>1, Outcomes, LimitsAssumption DEF Stores, CallsTyped
  <2> QED
    BY <2>1, <2>2 DEF Stores, Held, Entry
<1>2. CASE Paid(s)
  <2>1. PICK p \in Processes, k \in Keys, x \in Int :
          p = host[s] /\ k = Key(s) /\ x = Expiry(s)
    <3>1. Proposes(s) /\ finished[s] \in Int /\ CacheTTL \in Int
      BY <1>2, Outcomes, LimitsAssumption DEF Paid, Answered, CallsTyped
    <3> QED
      BY <3>1, KeyTyped, Outcomes DEF CallsTyped, Proposes, Key, Expiry
  <2>2. /\ host'[s] = p /\ Key(s)' = k /\ Expiry(s)' = x /\ now <= now'
        /\ now \in Nat /\ now' \in Nat
    BY <1>2, <2>1, AnsweredSame, TypedNext, Outcomes DEF Paid, Same, CallsTyped, Typed, StateOK
  <2>3. now > x \/ Entry(p, k).expires >= x
    BY <1>2, <2>1 DEF HeldInv, Held, Entry
  <2>4. Entry(p, k).expires \in Int
    BY EntryTyped DEF Entry
  <2>5. now' > x \/ Entry(p, k)'.expires >= x
    <3>1. CASE cache' = cache
      BY <2>2, <2>3, <3>1 DEF Entry
    <3>2. ASSUME NEW c \in Calls, Drops(c) PROVE now' > x \/ Entry(p, k)'.expires >= x
      <4>1. CASE p = host[c] /\ k = Key(c)
        <5>1. now > Entry(p, k).expires
          BY <2>2, <2>4, <3>2, <4>1 DEF Drops, Live, Entry
        <5> QED
          BY <2>1, <2>2, <2>3, <2>4, <5>1
      <4>2. CASE ~(p = host[c] /\ k = Key(c))
        BY <2>2, <2>3, <3>2, <4>2 DEF Drops
      <4> QED
        BY <4>1, <4>2
    <3>3. ASSUME NEW c \in Calls, Stores(c) PROVE now' > x \/ Entry(p, k)'.expires >= x
      <4>1. CASE p = host[c] /\ k = Key(c)
        <5>1. Entry(p, k)'.expires = now + CacheTTL
          BY <3>3, <4>1 DEF Stores
        <5>2. finished[s] <= now /\ finished[s] \in Int /\ CacheTTL \in Nat
          BY <1>2, Outcomes, LimitsAssumption DEF TimesInv, Paid, CallsTyped
        <5> QED
          BY <2>1, <2>2, <5>1, <5>2 DEF Expiry
      <4>2. CASE ~(p = host[c] /\ k = Key(c))
        BY <2>2, <2>3, <3>3, <4>2 DEF Stores
      <4> QED
        BY <4>1, <4>2
    <3> QED
      BY <3>1, <3>2, <3>3, CacheMoves
  <2> QED
    BY <2>2, <2>5 DEF Held, Entry
<1> QED
  BY <1>1, <1>2

\* A call that went to the model, or to its answer, since the one that paid
\* before it came: step by step of that later call.
LEMMA MissedStep ==
  ASSUME CallsTyped, CacheInv, [Next]_vars, NEW s \in Calls, Paid(s),
         NEW d \in Calls, Asks(s, d)'
  PROVE  Missed(s, d)'
<1> USE DEF CacheInv
<1>1. PICK x \in Int : x = Expiry(s)
  BY Outcomes, LimitsAssumption DEF Expiry, CallsTyped
<1>2. /\ Expiry(s)' = x /\ Same(s) /\ Key(s)' = Key(s)
      /\ now <= now' /\ now \in Nat /\ now' \in Nat
  BY <1>1, AnsweredSame, TypedNext, Outcomes DEF Paid, CallsTyped, Typed, StateOK
<1>3. /\ Asks(s, d) /\ pc[d] \in {"prompt", "model"} => now > x
      /\ Asks(s, d) /\ (pc[d] = "put" \/ Paid(d)) => answer[d].born > x
  BY <1>1 DEF MissedInv, Missed
<1>4. SUFFICES /\ pc'[d] \in {"prompt", "model"} => now' > x
               /\ pc'[d] = "put" \/ Paid(d)' => answer'[d].born > x
  BY <1>2 DEF Missed
<1>5. CASE Same(d)
  <2>1. Asks(s, d) /\ (Paid(d)' => Paid(d))
    BY <1>2, <1>5 DEF Asks, Same, Proposes, Key, Paid, Answered
  <2> QED
    BY <1>2, <1>3, <1>5, <2>1 DEF Same
<1>6. CASE Restart
  <2>1. /\ UNCHANGED <<req, answer, gated, host>>
        /\ pc'[d] \notin {"prompt", "model", "put"}
        /\ verdict'[d] = "ok" => verdict[d] = "ok"
    BY <1>6, Outcomes DEF Restart, CallsTyped, Phases
  <2>2. Asks(s, d) /\ (Paid(d)' => Paid(d))
    BY <1>2, <2>1 DEF Asks, Same, Proposes, Key, Paid, Answered
  <2> QED
    BY <1>3, <2>1, <2>2
<1>7. CASE Arrive(d)
  <2>1. pc'[d] \in {"gate", "done"} /\ verdict'[d] # "ok"
    BY <1>7, ArriveOwn DEF ArrivedOwn, CallsTyped, CallsInv
  <2> QED
    BY <2>1 DEF Paid, Answered
<1>8. CASE Handle(d)
  <2>1. /\ HandledOwn(d) /\ req' = req /\ host' = host /\ now' = now
        /\ verdict[d] = "none" /\ Proposes(d) /\ Key(d)' = Key(d)
    BY <1>8, HandleOwn DEF CallsTyped, CallsInv, HandledOwn, Asks, Proposes, Key,
      Handle, Gate, Lookup, Prompt, ModelFails, ModelReplies, Put
  <2>2. CASE Gate(d)
    BY <2>1, <2>2, Outcomes DEF Gate, Finish, Return, Proceed, Paid, Answered, CallsTyped
  <2>3. CASE Lookup(d) /\ Live(host[d], Key(d))
    <3>1. pc'[d] = "done" /\ answer'[d].hit = TRUE
      BY <2>3, Outcomes DEF Lookup, Return, Key, CallsTyped
    <3> QED
      BY <3>1 DEF Paid
  <2>4. CASE Lookup(d) /\ ~Live(host[d], Key(d))
    <3>1. pc'[d] = "prompt" /\ verdict'[d] = "none"
      BY <2>1, <2>4, Outcomes DEF Lookup, Proceed, Key, CallsTyped
    <3>2. host[d] = host[s] /\ Key(d) = Key(s) /\ host[d] \in Processes /\ Key(d) \in Keys
      BY <1>2, <2>1, KeyTyped, Outcomes DEF Asks, Same, CallsTyped, Proposes, Key
    <3>3. now > cache[host[d]][Key(d)].expires /\ cache[host[d]][Key(d)].expires \in Int
      BY <1>2, <2>4, <3>2, EntryTyped DEF Live
    <3>4. now > x
      BY <1>1, <1>2, <3>2, <3>3 DEF HeldInv, Held
    <3> QED
      BY <2>1, <3>1, <3>4 DEF Paid, Answered
  <2>5. CASE Prompt(d) \/ ModelFails(d) \/ ModelReplies(d) \/ Put(d)
    <3>1. Asks(s, d)
      BY <1>2, <2>1, <2>5 DEF Asks, Same, Proposes, Prompt, ModelFails, ModelReplies, Put
    <3>2. CASE Prompt(d) \/ ModelFails(d)
      <4>1. pc[d] \in {"prompt", "model"} /\ pc'[d] \in {"model", "done"} /\ verdict'[d] # "ok"
        BY <2>1, <3>2, Outcomes DEF Prompt, ModelFails, Finish, Return, Proceed, BudgetCode,
                                    CallsTyped
      <4> QED
        BY <1>3, <2>1, <3>1, <4>1 DEF Paid, Answered
    <3>3. CASE ModelReplies(d)
      <4>1. /\ pc[d] = "model"
            /\ \/ pc'[d] = "put" /\ answer'[d].born = now /\ verdict'[d] = "none"
               \/ pc'[d] \in {"model", "done"} /\ verdict'[d] # "ok"
        <5>1. PICK reply \in Outputs \cup {Garbled}, t \in Spends :
                Proposed(d, reply, spent[d] + t) /\ pc[d] = "model"
          BY <2>1, <3>3 DEF ModelReplies
        <5>2. CASE reply # Garbled /\ Valid(d, reply)
          BY <2>1, <5>1, <5>2, Outcomes DEF Proposed, Proceed, CallsTyped
        <5>3. CASE ~(reply # Garbled /\ Valid(d, reply))
          BY <2>1, <5>1, <5>3, Outcomes DEF Proposed, Return, Proceed, CallsTyped
        <5> QED
          BY <5>2, <5>3
      <4> QED
        BY <1>2, <1>3, <2>1, <3>1, <4>1 DEF Paid, Answered
    <3>4. CASE Put(d)
      <4>1. pc[d] = "put" /\ pc'[d] = "done" /\ answer'[d] = answer[d]
        BY <3>4, Outcomes DEF Put, Finish, Return, CallsTyped
      <4> QED
        BY <1>3, <3>1, <4>1
    <3> QED
      BY <2>5, <3>2, <3>3, <3>4
  <2> QED
    BY <1>8, <2>2, <2>3, <2>4, <2>5 DEF Handle
<1>9. Same(d) \/ Restart \/ Arrive(d) \/ Handle(d)
  <2>1. UNCHANGED vars \/ Tick => Same(d)
    BY DEF vars, Tick, Same
  <2>2. ASSUME NEW c \in Calls, Arrive(c) \/ Handle(c), c # d PROVE Same(d)
    BY <2>2, OthersSame DEF CallsTyped
  <2> QED
    BY <2>1, <2>2 DEF Next
<1> QED
  BY <1>5, <1>6, <1>7, <1>8, <1>9

LEMMA MissedNext ==
  ASSUME CallsTyped, CacheInv, [Next]_vars
  PROVE  MissedInv'
<1> SUFFICES ASSUME NEW s \in Calls, Paid(s)', NEW d \in Calls, Asks(s, d)'
             PROVE  Missed(s, d)'
  BY DEF MissedInv
<1>1. CASE Paid(s)
  BY <1>1, MissedStep
\* The call that pays just now is not earlier than any other.
<1>2. CASE ~Paid(s)
  <2>1. Stores(s)
    BY <1>2, NewlyPaid DEF CacheInv
  <2>2. finished'[s] = now /\ now' = now /\ gated' = gated
    BY <2>1, Outcomes DEF Stores, Put, Finish, Return, CallsTyped
  <2>3. gated[d] <= now /\ gated[d] \in Int /\ now \in Nat
    BY Outcomes DEF CallsTyped, CallsInv
  <2> QED
    BY <2>2, <2>3 DEF Asks
<1> QED
  BY <1>1, <1>2

LEMMA FreshNext ==
  ASSUME CallsTyped, CacheInv, [Next]_vars
  PROVE  AnswersAreFresh'
<1> USE DEF CacheInv
<1> SUFFICES ASSUME NEW c \in Calls, Answered(c)', answer'[c].hit
             PROVE  \E s \in Calls : /\ Answered(s)' /\ ~answer'[s].hit /\ host'[s] = host'[c]
                                     /\ req'[s].drift = req'[c].drift
                                     /\ req'[s].allowed = req'[c].allowed
                                     /\ answer'[s].out = answer'[c].out
                                     /\ finished'[c] - finished'[s] \in 0..CacheTTL
  BY DEF AnswersAreFresh
<1>1. CASE Answered(c)
  <2>1. Same(c)
    BY <1>1, AnsweredSame
  <2>2. PICK s \in Calls : /\ Answered(s) /\ ~answer[s].hit /\ host[s] = host[c]
                           /\ req[s].drift = req[c].drift
                           /\ req[s].allowed = req[c].allowed
                           /\ answer[s].out = answer[c].out
                           /\ finished[c] - finished[s] \in 0..CacheTTL
    BY <1>1, <2>1 DEF AnswersAreFresh, Same
  <2>3. Same(s) /\ Answered(s)'
    BY <2>2, AnsweredSame
  <2> QED
    BY <2>1, <2>2, <2>3 DEF Same
\* The entry that is found was stored by a call that is still in its lifetime.
<1>2. CASE ~Answered(c)
  <2>1. /\ (Lookup(c) /\ Live(host[c], Key(c))) \/ Put(c)
        /\ finished'[c] = now /\ host'[c] = host[c] /\ Proposes(c)
    BY <1>2, NewlyAnswered
  <2>2. ~Put(c)
    BY PutStores DEF Stores, Paid
  <2>3. /\ host[c] \in Processes /\ Key(c) \in Keys
        /\ cache[host[c]][Key(c)].expires \in Int /\ now \in Nat /\ CacheTTL \in Nat
    BY <2>1, KeyTyped, EntryTyped, Outcomes, LimitsAssumption
       DEF CallsTyped, Proposes, Key
  <2>4. now <= cache[host[c]][Key(c)].expires
    BY <2>1, <2>2 DEF Live
  <2>5. PICK s \in Calls : FilledBy(host[c], Key(c), s)
    BY <2>3, <2>4 DEF FilledInv
  <2>6. Answered(s) /\ Same(s) /\ Answered(s)' /\ ~answer'[s].hit /\ host'[s] = host'[c]
    BY <2>1, <2>5, AnsweredSame DEF FilledBy, Paid, Same
  <2>7. answer'[c].out = answer'[s].out
    <3>1. answer' = [answer EXCEPT ![c] = [out |-> cache[host[c]][Key(c)].out,
                        born |-> cache[host[c]][Key(c)].born, hit |-> TRUE]]
      BY <2>1, <2>2 DEF Lookup, Key
    <3>2. answer'[c].out = cache[host[c]][Key(c)].out
      BY <3>1, Outcomes DEF CallsTyped
    <3> QED
      BY <2>5, <2>6, <3>2 DEF FilledBy, Same
  <2>8. finished[s] <= now /\ now <= finished[s] + CacheTTL /\ finished[s] \in Int
    BY <2>4, <2>5, <2>6, Outcomes DEF FilledBy, Expiry, TimesInv, CallsTyped
  <2>9. finished'[c] - finished'[s] \in 0..CacheTTL
    BY <2>1, <2>3, <2>6, <2>8 DEF Same
  <2>10. /\ req'[s].drift = req'[c].drift /\ req'[s].allowed = req'[c].allowed
    <3>1. Key(s) = Key(c) /\ req'[s] = req[s] /\ Key(c)' = Key(c)
      BY <1>2, <2>5, <2>6, NewlyAnswered DEF FilledBy, Same
    <3> QED
      BY <3>1 DEF Key, CacheKey
  <2> QED
    BY <2>6, <2>7, <2>9, <2>10
<1> QED
  BY <1>1, <1>2

LEMMA CacheInit == Init => CacheInv
<1> SUFFICES ASSUME Init PROVE CacheInv
  OBVIOUS
<1>1. \A c \in Calls : ~Answered(c)
  BY DEF Init, Answered
<1>2. \A p \in Processes : \A k \in Keys : cache[p][k].expires = -1
  BY DEF Init, Absent
<1> QED
  BY <1>1, <1>2 DEF CacheInv, TimesInv, FilledInv, HeldInv, MissedInv, Paid, AnswersAreFresh

LEMMA CacheAlways == Spec => []CacheInv
<1>1. CallsTyped /\ CacheInv /\ [Next]_vars => CacheInv'
  BY TimesNext, FilledNext, HeldNext, MissedNext, FreshNext DEF CacheInv
<1> QED
  BY <1>1, CacheInit, CallsAlways, PTL DEF Spec

\* An answer out of the cache is what the model gave another call of the same
\* process, for the same drift, live value and allowed set, within the lifetime
\* of that answer (CacheKey, Cache.Get, Cache.Put).
THEOREM CachedAnswersFresh == Spec => []AnswersAreFresh
<1>1. CacheInv => AnswersAreFresh
  BY DEF CacheInv
<1> QED
  BY <1>1, CacheAlways, PTL

\* A call that reaches the gate after another call of its process had the answer
\* to the same key, and within the lifetime of that answer, does not pay the
\* model again (Cache.Put with CacheTTL, looked up before every model call).
\* Calls that overlap, and miss together, pay each for itself.
THEOREM ModelPaidOnce == Spec => []PaidOnce
<1>1. CallsTyped /\ CacheInv => PaidOnce
  <2> SUFFICES ASSUME CallsTyped, CacheInv, NEW c \in Calls, NEW d \in Calls,
                      host[c] = host[d], PaidTwice(c, d)
               PROVE  FALSE
    BY DEF PaidOnce
  <2>1. Paid(c) /\ Paid(d) /\ Asks(c, d) /\ answer[d].born <= Expiry(c)
    BY DEF PaidTwice, Paid, Asks, Answered, Key, Expiry
  <2>2. answer[d].born > Expiry(c)
    BY <2>1 DEF CacheInv, MissedInv, Missed
  <2>3. answer[d].born \in Int /\ Expiry(c) \in Int
    BY Outcomes, LimitsAssumption DEF CallsTyped, Expiry, Answers
  <2> QED
    BY <2>1, <2>2, <2>3
<1> QED
  BY <1>1, CallsAlways, CacheAlways, PTL

-----------------------------------------------------------------------------
(* Sums over finite sets: what MapThenSumSet computes does not depend on the   *)
(* order in which it chooses the elements.                                     *)

\* Among finite sets there is one that contains no other of them.
LEMMA SmallestSet ==
  ASSUME NEW U, NEW B \in SUBSET FiniteSubsetsOf(U), B # {}
  PROVE  \E T \in B : \A R \in B : R \subseteq T => R = T
<1>1. PICK T \in B : \A R \in B : ~(<<R, T>> \in StrictSubsetOrdering(U))
  BY FS_StrictSubsetOrderingWellFounded, WFMin
<1>2. ASSUME NEW R \in B, R \subseteq T, R # T PROVE FALSE
  <2>1. R \in SUBSET U /\ T \in SUBSET U
    BY DEF FiniteSubsetsOf
  <2>2. <<R, T>> \in StrictSubsetOrdering(U)
    BY <1>2, <2>1 DEF StrictSubsetOrdering
  <2> QED
    BY <1>1, <2>2
<1> QED
  BY <1>2

Total(f, S) == MapThenSumSet(LAMBDA c : f[c], S)

\* F gives every subset of S its sum.
Sums(F, f, S) ==
  /\ F \in [SUBSET S -> Nat] /\ F[{}] = 0
  /\ \A T \in SUBSET S : \A x \in T : F[T] = f[x] + F[T \ {x}]

LEMMA SumsExist ==
  ASSUME NEW U, NEW f \in [U -> Nat], NEW S \in SUBSET U, IsFiniteSet(S)
  PROVE  \E F : Sums(F, f, S)
<1> DEFINE Bad == {T \in FiniteSubsetsOf(U) : ~ \E F : Sums(F, f, T)}
<1>1. SUFFICES Bad = {}
  BY DEF FiniteSubsetsOf
<1>2. SUFFICES ASSUME Bad # {} PROVE FALSE
  OBVIOUS
<1>3. PICK T \in Bad : \A R \in Bad : R \subseteq T => R = T
  <2>1. Bad \in SUBSET FiniteSubsetsOf(U)
    OBVIOUS
  <2> HIDE DEF Bad
  <2> QED
    BY <1>2, <2>1, SmallestSet
<1>4. T # {}
  <2>1. Sums([R \in SUBSET {} |-> 0], f, {})
    BY DEF Sums
  <2> QED
    BY <2>1
<1>5. PICK y \in T : TRUE
  BY <1>4
<1>6. T \ {y} \in FiniteSubsetsOf(U) /\ T \subseteq U
  BY FS_RemoveElement DEF FiniteSubsetsOf
<1>7. PICK F : Sums(F, f, T \ {y})
  BY <1>3, <1>5, <1>6
<1> DEFINE G == [R \in SUBSET T |-> IF y \in R THEN f[y] + F[R \ {y}] ELSE F[R]]
<1>8. Sums(G, f, T)
  <2>1. F \in [SUBSET (T \ {y}) -> Nat] /\ F[{}] = 0
    BY <1>7 DEF Sums
  <2>2. f[y] \in Nat /\ \A x \in T : f[x] \in Nat
    BY <1>5, <1>6
  <2>3. \A R \in SUBSET T : /\ R \ {y} \in SUBSET (T \ {y})
                             /\ y \notin R => R \in SUBSET (T \ {y})
    OBVIOUS
  <2>4. G \in [SUBSET T -> Nat] /\ G[{}] = 0
    BY <2>1, <2>2, <2>3
  <2>5. ASSUME NEW R \in SUBSET T, NEW x \in R PROVE G[R] = f[x] + G[R \ {x}]
    <3>1. CASE x = y
      BY <3>1
    <3>2. CASE x # y /\ y \in R
      <4>1. (R \ {y}) \ {x} = (R \ {x}) \ {y} /\ x \in R \ {y} /\ y \in R \ {x}
        BY <3>2
      <4>2. F[R \ {y}] = f[x] + F[(R \ {y}) \ {x}]
        BY <1>7, <2>3, <4>1 DEF Sums
      <4>3. G[R] = f[y] + F[R \ {y}] /\ G[R \ {x}] = f[y] + F[(R \ {x}) \ {y}]
        BY <3>2, <4>1
      <4>4. F[(R \ {y}) \ {x}] \in Nat
        BY <2>1, <2>3
      <4> HIDE DEF G
      <4> QED
        BY <2>2, <4>1, <4>2, <4>3, <4>4
    <3>3. CASE y \notin R
      <4>1. F[R] = f[x] + F[R \ {x}]
        BY <1>7, <2>3, <3>3 DEF Sums
      <4>2. G[R] = F[R] /\ G[R \ {x}] = F[R \ {x}]
        BY <3>3
      <4> QED
        BY <4>1, <4>2
    <3> QED
      BY <3>1, <3>2, <3>3
  <2> HIDE DEF G
  <2> QED
    BY <2>4, <2>5 DEF Sums
<1> HIDE DEF G
<1> QED
  BY <1>8

\* MapThenSumSet is such a sum.
LEMMA TotalSums ==
  ASSUME NEW f, NEW S, IsFiniteSet(S), NEW F, Sums(F, f, S)
  PROVE  Total(f, S) = F[S]
<1> DEFINE Pick(s) == CHOOSE x \in s : TRUE
           Def(it) == it = [s \in SUBSET S |-> IF s = {} THEN 0
                                               ELSE f[Pick(s)] + it[s \ {Pick(s)}]]
<1>1. Def(F)
  <2>1. ASSUME NEW s \in SUBSET S
        PROVE  F[s] = IF s = {} THEN 0 ELSE f[Pick(s)] + F[s \ {Pick(s)}]
    <3>1. s # {} => Pick(s) \in s
      OBVIOUS
    <3> HIDE DEF Pick
    <3> QED
      BY <3>1 DEF Sums
  <2>2. F \in [SUBSET S -> Nat]
    BY DEF Sums
  <2> HIDE DEF Pick
  <2> QED
    BY <2>1, <2>2
<1> DEFINE it == CHOOSE g : Def(g)
<1>2. Def(it)
  <2> HIDE DEF Def
  <2> QED
    BY <1>1
<1>3. Total(f, S) = it[S]
  BY DEF Total, MapThenSumSet, MapThenFoldSet
<1> DEFINE Bad == {s \in FiniteSubsetsOf(S) : it[s] # F[s]}
<1>4. Bad = {}
  <2>1. SUFFICES ASSUME Bad # {} PROVE FALSE
    OBVIOUS
  <2>2. PICK s \in Bad : \A r \in Bad : r \subseteq s => r = s
    <3>1. Bad \in SUBSET FiniteSubsetsOf(S)
      OBVIOUS
    <3> HIDE DEF Bad
    <3> QED
      BY <2>1, <3>1, SmallestSet
  <2>3. s \in SUBSET S /\ IsFiniteSet(s) /\ it[s] # F[s]
    BY DEF FiniteSubsetsOf
  <2> HIDE DEF it
  <2>4. it[s] = IF s = {} THEN 0 ELSE f[Pick(s)] + it[s \ {Pick(s)}]
    <3> HIDE DEF Pick
    <3> QED
      BY <1>2, <2>3
  <2>5. CASE s = {}
    BY <2>3, <2>4, <2>5 DEF Sums
  <2>6. CASE s # {}
    <3>1. Pick(s) \in s
      BY <2>6
    <3> HIDE DEF Pick
    <3>2. s \ {Pick(s)} \in FiniteSubsetsOf(S) /\ s \ {Pick(s)} # s
      BY <2>3, <3>1, FS_RemoveElement DEF FiniteSubsetsOf
    <3>3. it[s \ {Pick(s)}] = F[s \ {Pick(s)}]
      BY <2>2, <3>2
    <3>4. F[s] = f[Pick(s)] + F[s \ {Pick(s)}]
      BY <2>3, <3>1 DEF Sums
    <3> QED
      BY <2>3, <2>4, <2>6, <3>3, <3>4
  <2> QED
    BY <2>5, <2>6
<1>5. S \in FiniteSubsetsOf(S)
  BY DEF FiniteSubsetsOf
<1> HIDE DEF it
<1> QED
  BY <1>3, <1>4, <1>5

\* A sum grows by the element that is added, and depends on nothing outside
\* the set.
LEMMA TotalAdd ==
  ASSUME NEW U, NEW f \in [U -> Nat], NEW S \in SUBSET U, IsFiniteSet(S),
         NEW x \in U, x \notin S
  PROVE  Total(f, S \cup {x}) = Total(f, S) + f[x] /\ Total(f, S) \in Nat
<1> DEFINE T == S \cup {x}
<1>1. IsFiniteSet(T)
  BY FS_AddElement
<1>2. PICK F : Sums(F, f, T)
  <2>1. T \in SUBSET U
    OBVIOUS
  <2> HIDE DEF T
  <2> QED
    BY <1>1, <2>1, SumsExist
<1>3. Total(f, T) = F[T]
  <2> HIDE DEF T
  <2> QED
    BY <1>1, <1>2, TotalSums
<1>4. T \ {x} = S /\ x \in T
  OBVIOUS
<1>5. F[T] = f[x] + F[S] /\ F[S] \in Nat /\ f[x] \in Nat
  BY <1>2, <1>4 DEF Sums
<1> DEFINE G == [R \in SUBSET S |-> F[R]]
<1>6. Sums(G, f, S) /\ G[S] = F[S]
  BY <1>2 DEF Sums
<1> HIDE DEF G
<1>7. Total(f, S) = F[S]
  BY <1>6, TotalSums
<1> QED
  BY <1>3, <1>5, <1>7

LEMMA TotalSame ==
  ASSUME NEW U, NEW f \in [U -> Nat], NEW g \in [U -> Nat], NEW S \in SUBSET U,
         IsFiniteSet(S), \A x \in S : f[x] = g[x]
  PROVE  Total(f, S) = Total(g, S)
<1>1. PICK F : Sums(F, f, S)
  BY SumsExist
<1>2. Sums(F, g, S)
  BY <1>1 DEF Sums
<1> QED
  BY <1>1, <1>2, TotalSums

LEMMA TotalEmpty == ASSUME NEW f PROVE Total(f, {}) = 0
<1>1. Sums([R \in SUBSET {} |-> 0], f, {})
  BY DEF Sums
<1>2. Total(f, {}) = [R \in SUBSET {} |-> 0][{}]
  BY <1>1, TotalSums, FS_EmptySet
<1> QED
  BY <1>2

-----------------------------------------------------------------------------
(* The counters.  Each counts a set of the calls of its process; a step moves  *)
(* at most one call into a set, and the counter with it.                       *)

Back(p) == {c \in Calls : host[c] = p /\ pc[c] = "done" /\ verdict[c] # "lost"}
Failed(p) == {c \in Back(p) : Proposes(c) /\ verdict[c] # "ok"}
Hits(p) == {c \in Back(p) : answer[c].hit}
Came(p) == {c \in Calls : host[c] = p /\ pc[c] # "idle" /\ Proposes(c)}

CountersOK(p) ==
  /\ metrics[p].tokens = Total(spent, Back(p))
  /\ metrics[p].errors = Cardinality(Failed(p))
  /\ metrics[p].cacheHits = Cardinality(Hits(p))
  /\ metrics[p].requests = Cardinality(Came(p))
CountersInv == \A p \in Processes : CountersOK(p)

LEMMA CountedFinite ==
  ASSUME CallsTyped, NEW p \in Processes
  PROVE  /\ IsFiniteSet(Back(p)) /\ IsFiniteSet(Failed(p)) /\ IsFiniteSet(Hits(p))
         /\ IsFiniteSet(Came(p))
         /\ Back(p) \subseteq Calls
<1>1. IsFiniteSet(Active)
  BY DEF CallsTyped, CallsInv
<1>2. /\ Back(p) \subseteq Active /\ Failed(p) \subseteq Active
      /\ Hits(p) \subseteq Active /\ Came(p) \subseteq Active
  BY DEF Back, Failed, Hits, Came, Active
<1> QED
  BY <1>1, <1>2, FS_Subset DEF Back

\* A step that moves no call of the process into or out of the sets.
LEMMA CountersFrame ==
  ASSUME CallsTyped, NEW p \in Processes, CountersOK(p), CallsTyped',
         metrics'[p] = metrics[p], Back(p)' = Back(p), Failed(p)' = Failed(p),
         Hits(p)' = Hits(p), Came(p)' = Came(p),
         \A c \in Back(p) : spent'[c] = spent[c]
  PROVE  CountersOK(p)'
<1>1. spent \in [Calls -> Nat] /\ spent' \in [Calls -> Nat]
  BY Outcomes DEF CallsTyped, Typed, StateOK, RequestOK
<1>2. Total(spent', Back(p)) = Total(spent, Back(p))
  BY <1>1, CountedFinite, TotalSame
<1>3. Total(spent', Back(p)) = Total(spent, Back(p))'
  OBVIOUS
<1> QED
  BY <1>2, <1>3 DEF CountersOK

\* How a handler's step moves the counters: it logs the outcome it returns.
Logs(c) ==
  /\ pc'[c] = "done" /\ verdict'[c] # "lost"
  /\ \E hit \in BOOLEAN : /\ answer'[c].hit = hit
                          /\ LogOutcome(c, verdict'[c], hit, spent'[c])

LEMMA HandleLogs ==
  ASSUME CallsTyped, NEW c \in Calls, Handle(c)
  PROVE  Logs(c) \/ (pc'[c] # "done" /\ metrics' = metrics)
<1> USE Outcomes DEF CallsTyped
<1>1. pc[c] # "done" /\ answer[c].hit = FALSE
  <2>1. answer[c].hit \in BOOLEAN
    BY DEF Answers
  <2> QED
    BY <2>1, HandleOwn DEF HandledOwn, CallsInv
\* A call that finishes without an answer from the cache.
<1>2. ASSUME NEW code \in Codes, code # "lost", Return(c, code),
             LogOutcome(c, code, FALSE, spent'[c]), answer'[c] = answer[c]
      PROVE  Logs(c)
  <2>1. pc'[c] = "done" /\ verdict'[c] = code
    BY <1>2 DEF Return
  <2> QED
    BY <1>1, <1>2, <2>1 DEF Logs
<1>3. ASSUME NEW phase \in Phases, phase # "done", Proceed(c, phase), metrics' = metrics
      PROVE  pc'[c] # "done" /\ metrics' = metrics
  BY <1>3 DEF Proceed
<1>4. /\ {"ok", "contract-mismatch", "rate-limited", "budget-exceeded", "gateway-down",
          "invalid-output"} \subseteq Codes \ {"lost"}
      /\ {"lookup", "prompt", "model", "put"} \subseteq Phases \ {"done"}
  BY DEF Codes, Phases
<1>5. CASE Gate(c)
  <2>1. answer' = answer /\ spent' = spent
    BY <1>5 DEF Gate
  <2>2. \/ \E code \in {"contract-mismatch", "rate-limited"} : Finish(c, code)
        \/ \E phase \in {"lookup", "prompt"} : Proceed(c, phase) /\ metrics' = metrics
    BY <1>5 DEF Gate
  <2> QED
    BY <1>2, <1>3, <1>4, <2>1, <2>2 DEF Finish
<1>6. CASE Lookup(c) /\ Live(host[c], Key(c))
  <2>1. /\ answer' = [answer EXCEPT ![c] = [out |-> cache[host[c]][Key(c)].out,
                        born |-> cache[host[c]][Key(c)].born, hit |-> TRUE]]
        /\ Return(c, "ok") /\ LogOutcome(c, "ok", TRUE, 0) /\ spent' = spent
        /\ pc[c] = "lookup"
    BY <1>6 DEF Lookup, Key
  <2>2. answer'[c].hit = TRUE /\ pc'[c] = "done" /\ verdict'[c] = "ok" /\ spent'[c] = 0
    BY <2>1 DEF Return, CallsInv
  <2> QED
    BY <2>1, <2>2 DEF Logs
<1>7. CASE Lookup(c) /\ ~Live(host[c], Key(c))
  BY <1>3, <1>4, <1>7 DEF Lookup, Key
<1>8. CASE Prompt(c)
  <2>1. answer' = answer /\ spent' = spent
    BY <1>8 DEF Prompt
  <2>2. \/ Finish(c, "budget-exceeded")
        \/ Proceed(c, "model") /\ metrics' = metrics
    BY <1>8 DEF Prompt, BudgetCode
  <2> QED
    BY <1>2, <1>3, <1>4, <2>1, <2>2 DEF Finish
<1>9. CASE ModelFails(c)
  BY <1>2, <1>4, <1>9 DEF ModelFails, Finish
<1>10. CASE ModelReplies(c)
  <2>1. PICK reply \in Outputs \cup {Garbled}, t \in Spends :
          /\ spent' = [spent EXCEPT ![c] = @ + t]
          /\ IF Proposes(c) THEN Proposed(c, reply, spent[c] + t)
                            ELSE Explained(c, reply, spent[c] + t)
    BY <1>10 DEF ModelReplies
  <2>2. spent'[c] = spent[c] + t
    BY <2>1
  <2>3. CASE ~Proposes(c)
    <3>1. PICK code \in {"ok", "invalid-output"} :
            /\ Return(c, code) /\ LogOutcome(c, code, FALSE, spent'[c]) /\ answer' = answer
      BY <2>1, <2>2, <2>3 DEF Explained
    <3> QED
      BY <1>2, <1>4, <3>1
  <2>4. CASE Proposes(c)
    <3>1. \/ \E phase \in {"put", "model"} : Proceed(c, phase) /\ metrics' = metrics
          \/ /\ Return(c, "invalid-output")
             /\ LogOutcome(c, "invalid-output", FALSE, spent'[c]) /\ answer' = answer
      <4>1. CASE reply # Garbled /\ Valid(c, reply)
        BY <2>1, <2>4, <4>1 DEF Proposed
      <4>2. CASE ~(reply # Garbled /\ Valid(c, reply))
        BY <2>1, <2>2, <2>4, <4>2 DEF Proposed
      <4> QED
        BY <4>1, <4>2
    <3> QED
      BY <1>2, <1>3, <1>4, <3>1
  <2> QED
    BY <2>3, <2>4
<1>11. CASE Put(c)
  BY <1>2, <1>4, <1>11 DEF Put, Finish
<1> QED
  BY <1>5, <1>6, <1>7, <1>8, <1>9, <1>10, <1>11 DEF Handle

\* A handler's step at the counters of its process.
LEMMA CountersLog ==
  ASSUME CallsTyped, CallsTyped', NEW c \in Calls, Handle(c), Logs(c),
         NEW p \in Processes, CountersOK(p), p = host[c]
  PROVE  CountersOK(p)'
<1> USE DEF CallsTyped
<1>1. PICK hit \in BOOLEAN : answer'[c].hit = hit /\ LogOutcome(c, verdict'[c], hit, spent'[c])
  BY DEF Logs
<1>2. /\ HandledOwn(c) /\ req' = req /\ host' = host /\ pc'[c] = "done" /\ verdict'[c] # "lost"
      /\ \A d \in Calls \ {c} : Same(d)
  BY HandleOwn, OthersSame DEF Logs
<1>3. /\ c \notin Back(p) /\ Proposes(c)' = Proposes(c)
      /\ \A d \in Back(p) : spent'[d] = spent[d]
  BY <1>2 DEF Back, HandledOwn, Proposes, Same
<1>4. metrics'[p] = Counted(c, metrics[p], verdict'[c] # "ok", hit, spent'[c])
  BY <1>1, StateTyped DEF LogOutcome, Typed
<1>5. Back(p)' = Back(p) \cup {c}
  BY <1>2 DEF Back, Same
<1>6. Failed(p)' = IF Proposes(c) /\ verdict'[c] # "ok" THEN Failed(p) \cup {c} ELSE Failed(p)
  BY <1>2, <1>3, <1>5 DEF Failed, Back, Same, Proposes
<1>7. Hits(p)' = IF hit THEN Hits(p) \cup {c} ELSE Hits(p)
  BY <1>1, <1>2, <1>3, <1>5 DEF Hits, Back, Same
<1>8. Came(p)' = Came(p)
  BY <1>2 DEF Came, Same, Proposes, HandledOwn
<1>9. /\ IsFiniteSet(Back(p)) /\ IsFiniteSet(Failed(p)) /\ IsFiniteSet(Hits(p))
      /\ Back(p) \subseteq Calls /\ c \notin Failed(p) /\ c \notin Hits(p)
  BY <1>3, CountedFinite DEF Failed, Hits
<1>10. spent \in [Calls -> Nat] /\ spent' \in [Calls -> Nat]
  BY Outcomes DEF Typed, StateOK, RequestOK
<1>11. metrics'[p].tokens = Total(spent, Back(p))'
  <2>1. Total(spent', Back(p) \cup {c}) = Total(spent', Back(p)) + spent'[c]
    BY <1>3, <1>9, <1>10, TotalAdd
  <2>2. Total(spent', Back(p)) = Total(spent, Back(p))
    BY <1>3, <1>9, <1>10, TotalSame
  <2>3. metrics'[p].tokens = metrics[p].tokens + spent'[c]
    BY <1>4 DEF Counted
  <2> QED
    BY <1>5, <2>1, <2>2, <2>3 DEF CountersOK
<1>12. metrics'[p].errors = Cardinality(Failed(p)')
  <2>1. Cardinality(Failed(p) \cup {c}) = Cardinality(Failed(p)) + 1
    BY <1>9, FS_AddElement
  <2> QED
    BY <1>4, <1>6, <2>1 DEF Counted, CountersOK
<1>13. metrics'[p].cacheHits = Cardinality(Hits(p)')
  <2>1. Cardinality(Hits(p) \cup {c}) = Cardinality(Hits(p)) + 1
    BY <1>9, FS_AddElement
  <2> QED
    BY <1>4, <1>7, <2>1 DEF Counted, CountersOK
<1>14. metrics'[p].requests = Cardinality(Came(p)')
  BY <1>4, <1>8 DEF Counted, CountersOK
<1> QED
  BY <1>11, <1>12, <1>13, <1>14 DEF CountersOK

LEMMA CountersHandle ==
  ASSUME CallsTyped, CallsTyped', CountersInv, NEW c \in Calls, Handle(c)
  PROVE  CountersInv'
<1> USE DEF CallsTyped
<1> SUFFICES ASSUME NEW p \in Processes PROVE CountersOK(p)'
  BY DEF CountersInv
<1>1. HandledOwn(c) /\ req' = req /\ host' = host /\ \A d \in Calls \ {c} : Same(d)
  BY HandleOwn, OthersSame
<1>2. CASE p = host[c] /\ Logs(c)
  BY <1>2, CountersLog DEF CountersInv
<1>3. CASE p # host[c] \/ ~Logs(c)
  <2>1. ~(p = host[c] /\ pc'[c] = "done") /\ metrics'[p] = metrics[p]
    <3>1. CASE Logs(c)
      BY <1>3, <3>1, StateTyped DEF Logs, LogOutcome, Typed
    <3>2. CASE ~Logs(c)
      BY <3>2, HandleLogs
    <3> QED
      BY <3>1, <3>2
  <2>2. Back(p)' = Back(p) /\ \A d \in Back(p) : spent'[d] = spent[d]
    BY <1>1, <2>1 DEF Back, HandledOwn, Same
  <2>3. c \notin Back(p)
    BY <1>1 DEF Back, HandledOwn
  <2>4. Failed(p)' = Failed(p) /\ Hits(p)' = Hits(p)
    BY <1>1, <2>2, <2>3 DEF Failed, Hits, Back, Same, Proposes
  <2>5. Came(p)' = Came(p)
    BY <1>1 DEF Came, Same, Proposes, HandledOwn
  <2> QED
    BY <2>1, <2>2, <2>4, <2>5, CountersFrame DEF CountersInv
<1> QED
  BY <1>2, <1>3

LEMMA CountersArrive ==
  ASSUME CallsTyped, CallsTyped', CountersInv, NEW c \in Calls, Arrive(c)
  PROVE  CountersInv'
<1> USE DEF CallsTyped
<1> SUFFICES ASSUME NEW p \in Processes PROVE CountersOK(p)'
  BY DEF CountersInv
<1>1. PICK r \in Requests, q \in Processes :
        /\ req' = [req EXCEPT ![c] = r] /\ host' = [host EXCEPT ![c] = q]
        /\ metrics' = IF r.tool = "propose"
                        THEN [metrics EXCEPT ![q] =
                               [metrics[q] EXCEPT !.requests = metrics[q].requests + 1]]
                        ELSE metrics
        /\ IF r.drift = NoDrift THEN Return(c, "untyped") ELSE Proceed(c, "gate")
  BY DEF Arrive
<1>2. ArrivedOwn(c) /\ spent' = spent /\ \A d \in Calls \ {c} : Same(d)
  BY ArriveOwn, OthersSame DEF Arrive
<1>3. c \notin Back(p) /\ c \notin Came(p) /\ spent[c] = 0 /\ ~(answer'[c].hit)
  BY <1>2 DEF ArrivedOwn, Back, Came, CallsInv, NoAnswer
<1>4. /\ host'[c] = q /\ Proposes(c)' = (r.tool = "propose")
      /\ r.drift = NoDrift => r.tool # "propose"
  BY <1>1, Outcomes, DataAssumption DEF Proposes
<1>5. /\ IF r.drift = NoDrift THEN pc'[c] = "done" /\ verdict'[c] = "untyped"
                              ELSE pc'[c] = "gate"
  BY <1>1, Outcomes DEF Return, Proceed
<1>6. Back(p)' = IF q = p /\ r.drift = NoDrift THEN Back(p) \cup {c} ELSE Back(p)
  BY <1>2, <1>3, <1>4, <1>5 DEF Back, Same
<1>7. Failed(p)' = Failed(p) /\ Hits(p)' = Hits(p)
  BY <1>2, <1>3, <1>4, <1>6 DEF Failed, Hits, Back, Same, Proposes
<1>8. Came(p)' = IF q = p /\ r.tool = "propose" THEN Came(p) \cup {c} ELSE Came(p)
  BY <1>2, <1>3, <1>4, <1>5 DEF Came, Same, Proposes
<1>9. /\ IsFiniteSet(Back(p)) /\ IsFiniteSet(Came(p)) /\ Back(p) \subseteq Calls
      /\ spent \in [Calls -> Nat]
  BY CountedFinite, Outcomes
<1>10. metrics[p] \in [requests: Nat, errors: Nat, cacheHits: Nat, tokens: Nat]
  BY StateTyped DEF Typed
<1>11. /\ metrics'[p].tokens = metrics[p].tokens /\ metrics'[p].errors = metrics[p].errors
       /\ metrics'[p].cacheHits = metrics[p].cacheHits
       /\ metrics'[p].requests = IF q = p /\ r.tool = "propose"
                                   THEN metrics[p].requests + 1 ELSE metrics[p].requests
  BY <1>1, <1>10, StateTyped DEF Typed
<1>12. metrics'[p].tokens = Total(spent, Back(p))'
  <2>1. Total(spent, Back(p) \cup {c}) = Total(spent, Back(p)) + spent[c]
        /\ Total(spent, Back(p)) \in Nat
    BY <1>3, <1>9, TotalAdd
  <2>2. Total(spent', Back(p)') = Total(spent, Back(p))
    BY <1>2, <1>3, <1>6, <2>1
  <2> QED
    BY <1>11, <2>2 DEF CountersInv, CountersOK
<1>13. metrics'[p].requests = Cardinality(Came(p)')
  <2>1. Cardinality(Came(p) \cup {c}) = Cardinality(Came(p)) + 1
    BY <1>3, <1>9, FS_AddElement
  <2> QED
    BY <1>8, <1>11, <2>1 DEF CountersInv, CountersOK
<1> QED
  BY <1>7, <1>11, <1>12, <1>13 DEF CountersInv, CountersOK

\* A restart drops the calls that had not returned; they are in no count but
\* that of the requests.
LEMMA CountersRestart ==
  ASSUME CallsTyped, CallsTyped', CountersInv, Restart
  PROVE  CountersInv'
<1> SUFFICES ASSUME NEW p \in Processes PROVE CountersOK(p)'
  BY DEF CountersInv
<1>1. /\ UNCHANGED <<metrics, req, host, spent, answer>>
      /\ \A c \in Calls : IF pc[c] \in {"idle", "done"}
                            THEN pc'[c] = pc[c] /\ verdict'[c] = verdict[c]
                            ELSE pc'[c] = "done" /\ verdict'[c] = "lost"
  BY DEF Restart
<1>2. Back(p)' = Back(p)
  BY <1>1 DEF Back
<1>3. Failed(p)' = Failed(p) /\ Hits(p)' = Hits(p) /\ Came(p)' = Came(p)
  BY <1>1, <1>2 DEF Failed, Hits, Came, Back, Proposes
<1> QED
  BY <1>1, <1>2, <1>3, CountersFrame DEF CountersInv

LEMMA CountersInit == Init => CountersInv
<1> SUFFICES ASSUME Init, NEW p \in Processes PROVE CountersOK(p)
  BY DEF CountersInv
<1>1. Back(p) = {} /\ Failed(p) = {} /\ Hits(p) = {} /\ Came(p) = {}
  BY DEF Init, Back, Failed, Hits, Came
<1> QED
  BY <1>1, TotalEmpty, FS_EmptySet DEF Init, CountersOK

LEMMA CountersNext ==
  ASSUME CallsTyped, CallsTyped', CountersInv, [Next]_vars
  PROVE  CountersInv'
<1>1. CASE UNCHANGED vars \/ Tick
  <2>1. UNCHANGED <<memory, calls>>
    BY <1>1 DEF vars, Tick
  <2>2. ASSUME NEW p \in Processes PROVE CountersOK(p)'
    <3>1. /\ Back(p)' = Back(p) /\ Failed(p)' = Failed(p) /\ Hits(p)' = Hits(p)
          /\ Came(p)' = Came(p) /\ metrics' = metrics /\ spent' = spent
      BY <2>1 DEF Back, Failed, Hits, Came, Proposes
    <3> QED
      BY <3>1, CountersFrame DEF CountersInv
  <2> QED
    BY <2>2 DEF CountersInv
<1> QED
  BY <1>1, CountersRestart, CountersArrive, CountersHandle DEF Next

\* The counters of a process add up: tokens of every attempt of the calls that
\* returned, an error for each propose call that failed, the cache hits, and a
\* request for each propose call that came (logOutcome, metrics).
THEOREM CountersExact == Spec => []CountersAddUp
<1>1. CallsTyped /\ CallsTyped' /\ CountersInv /\ [Next]_vars => CountersInv'
  BY CountersNext
<1>2. CountersInv => CountersAddUp
  BY DEF CountersInv, CountersOK, CountersAddUp, Total, Back, Failed, Hits, Came
<1> QED
  BY <1>1, <1>2, CountersInit, CallsAlways, PTL DEF Spec
=============================================================================
