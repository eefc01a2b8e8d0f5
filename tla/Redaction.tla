------------------------------- MODULE Redaction -------------------------------
(***************************************************************************)
(* One exchange with the model (internal/tool, redact, prompt, model): the *)
(* prompt is redacted with a table made for the request, the model replies *)
(* in terms of the placeholders it sees, and the reply is restored, parsed *)
(* and validated, or asked for again with the reason of the rejection.     *)
(*                                                                         *)
(* A text is a sequence of fragments, cut where a pattern may begin or end.*)
(* An ARN consists of several: its prefix, an account id, and everything   *)
(* up to the next separator, whatever that is.  Of two pieces next to each *)
(* other, the second begins at a word boundary, unless it follows a Break. *)
(***************************************************************************)
EXTENDS Integers, Sequences, SequencesExt, FiniteSetsExt

CONSTANTS
  Fragments,         \* what texts are made of before they are redacted
  Systems,           \* system prompts for edits, with the safety rules of the client
  ExplainSystem,     \* the system prompt for explanations
  Payloads,          \* what tool inputs say, before it is written as JSON
  AllowedAttrs,      \* allowed_attrs of the request, as texts
  MaxValue,          \* bound: fragments of the prompt that one reply copies
  MaxSummary,        \* the length an explanation is cut to
  ValidateRetryMax

\* The kinds of fragments: words and separators, the prefix of an ARN, account
\* ids and keys, addresses, and placeholders; and ids and addresses glued to the
\* escape of a line break, which JSON makes of those that follow one.
Atoms ==
  [kind: {"word", "sep", "arn", "id", "ip", "token", "glued id", "glued ip"}, n: Nat]
Token(n) == [kind |-> "token", n |-> n]
GluedKinds == {"glued id", "glued ip"}
\* The separators of which the escape ends in a letter or digit: line breaks, tabs,
\* and the characters that HTML knows.
Break == [kind |-> "sep", n |-> 0]

ASSUME FragmentsAssumption ==
  Fragments \subseteq {a \in Atoms : a.kind \notin GluedKinds \cup {"token"}}
\* The prompt for edits shows a placeholder as an example; a payload has none.
ASSUME TextsAssumption ==
  /\ Systems \subseteq Seq(Fragments \cup {Token(1)}) /\ ExplainSystem \in Seq(Fragments)
  /\ Payloads \subseteq Seq(Fragments)
  /\ AllowedAttrs \subseteq Seq(Fragments)
ASSUME BoundsAssumption ==
  MaxValue \in Nat \ {0} /\ MaxSummary \in Nat \ {0} /\ ValidateRetryMax \in Nat

VARIABLES
  pc,       \* "build", "ask", "done"
  tool,     \* "propose" or "explain"
  system,   \* the system prompt before redaction
  body,     \* the payload before redaction
  table,    \* the Redactor: the n-th value stands behind the n-th placeholder
  prompt,   \* what the model is sent: both texts redacted, and the rejections quoted
  sent,     \* all prompts that left so far (history variable)
  attempt,  \* validation attempts so far
  copied,   \* the fragments of the prompt the reply repeats (history variable)
  answer,   \* what the handler returns: the edit's value, or the summary
  verdict   \* its outcome code
vars == <<pc, tool, system, body, table, prompt, sent, attempt, copied, answer, verdict>>
-----------------------------------------------------------------------------
(* internal/prompt: the payload is written as JSON. *)

\* After a letter or digit there is no word boundary, which is where the patterns
\* for ids, keys and addresses begin; the one for ARNs begins anywhere.
Glued(a) == [kind |-> IF a.kind = "id" THEN "glued id" ELSE "glued ip", n |-> a.n]
Encoded(s) ==
  [i \in 1..Len(s) |->
     IF i > 1 /\ s[i - 1] = Break /\ s[i].kind \in {"id", "ip"} THEN Glued(s[i]) ELSE s[i]]

\* What a reply says that repeats a fragment.
Copy(a) ==
  IF a.kind = "glued id" THEN [kind |-> "id", n |-> a.n]
  ELSE IF a.kind = "glued ip" THEN [kind |-> "ip", n |-> a.n] ELSE a
-----------------------------------------------------------------------------
(* internal/redact. *)

\* (Deviation: composite values after the addresses they may contain.)
SimpleFirst == <<"ip", "arn", "id">>
\* The order of the patterns: composite values first.  The patterns for keys and
\* tokens behave like the one for addresses.
Patterns == <<"arn", "ip", "id">>

\* The last fragment of the run from i that no separator ends.
RunEnd(s, i) == Max({j \in i..Len(s) : \A k \in i..j : s[k].kind # "sep"})

\* How many fragments the pattern matches from i on (0: none).
MatchLength(p, s, i) ==
  IF p # "arn" THEN IF s[i].kind = p THEN 1 ELSE 0
  ELSE IF s[i].kind = "arn" /\ RunEnd(s, i) >= i + 2 /\ s[i + 1].kind = "id"
    THEN RunEnd(s, i) - i + 1 ELSE 0

\* (Deviation: every occurrence gets a placeholder of its own.)
AlwaysNew(tab, v) == Append(tab, v)
\* placeholder: a known value keeps the one it has.
Record(tab, v) == IF \E n \in 1..Len(tab) : tab[n] = v THEN tab ELSE Append(tab, v)
PlaceholderOf(tab, v) == Token(Max({n \in 1..Len(tab) : tab[n] = v}))

\* ReplaceAllStringFunc of one pattern, left to right.
Replace(p, r) ==
  LET s == r.text
      Consume(st, i) ==
        LET n == MatchLength(p, s, i)
            v == SubSeq(s, i, i + n - 1)
            tab == Record(st.table, v)
        IN  IF i < st.next THEN st
            ELSE IF n = 0 THEN [st EXCEPT !.text = Append(@, s[i])]
            ELSE [table |-> tab, next |-> i + n, text |-> Append(st.text, PlaceholderOf(tab, v))]
  IN  FoldLeft(Consume, [table |-> r.table, text |-> <<>>, next |-> 1], [i \in 1..Len(s) |-> i])

\* Redact: one pass per pattern, over what the passes before have left.
Redact(tab, s) ==
  FoldLeft(LAMBDA r, p : Replace(p, r), [table |-> tab, text |-> s, next |-> 1], Patterns)

\* Restore substitutes one placeholder after the other, in the order of a map,
\* which is any order; a value put in is searched for later placeholders.
Orders(tab) == {o \in [1..Len(tab) -> 1..Len(tab)] : IsInjective(o)}
Restore(tab, order, s) ==
  FoldLeft(LAMBDA t, n : FlattenSeq([i \in 1..Len(t) |-> IF t[i] = Token(n) THEN tab[n] ELSE <<t[i]>>]),
           s, order)
-----------------------------------------------------------------------------
(* The exchange. *)

NoPrompt == [system |-> <<>>, body |-> <<>>, quoted |-> <<>>]

Init ==
  /\ pc = "build" /\ tool \in {"propose", "explain"}
  /\ system \in IF tool = "propose" THEN Systems ELSE {ExplainSystem}
  /\ body \in Payloads
  /\ table = <<>> /\ prompt = NoPrompt /\ sent = {} /\ attempt = 0
  /\ copied = <<>> /\ answer = <<>> /\ verdict = "none"

\* (Deviation: only the payload is redacted.)
PayloadOnly == [table |-> <<>>, text |-> system]
RedactedSystem == Redact(<<>>, system)

\* prompt.Build or BuildExplain, then both texts through one Redactor.
Build ==
  /\ pc = "build" /\ pc' = "ask"
  /\ LET s == RedactedSystem
         b == Redact(s.table, Encoded(body))
     IN  /\ table' = b.table
         /\ prompt' = [system |-> s.text, body |-> b.text, quoted |-> <<>>]
  /\ UNCHANGED <<tool, system, body, sent, attempt, copied, answer, verdict>>

Leave(code) == pc' = "done" /\ verdict' = code

\* Complete fails: no connection, a status that is not 2xx, no text in the reply.
CompleteFails ==
  /\ pc = "ask" /\ sent' = sent \cup {prompt}
  /\ Leave("gateway-down")
  /\ UNCHANGED <<tool, system, body, table, prompt, attempt, copied, answer>>

\* A reply is made of fragments of the payload, which the model copies through.
Copies == UNION {[1..k -> 1..Len(prompt.body)] : k \in 1..MaxValue}
Text(c) == [i \in 1..Len(c) |-> Copy(prompt.body[c[i]])]

\* (Deviation: one attempt too many.)
OneMore(k) == k > ValidateRetryMax + 1
OutOfAttempts(k) == k > ValidateRetryMax

\* A reply is rejected: the reason, which may quote what the restored reply
\* says, is added to the payload for the next attempt.
Reject(quote) ==
  /\ attempt' = attempt + 1
  /\ prompt' = [prompt EXCEPT !.quoted = @ \o quote]
  /\ IF OutOfAttempts(attempt + 1)
       THEN Leave("invalid-output") ELSE UNCHANGED <<pc, verdict>>
  /\ UNCHANGED <<copied, answer>>

\* propose_hcl_edits: an edit of one attribute.  Restore, ParseStrict, which
\* quotes an unknown field or op, then ValidateAllowed, which quotes the attribute.
Proposal ==
  /\ tool = "propose"
  /\ \E order \in Orders(table), a \in 1..Len(prompt.body), c \in Copies :
       LET attribute == Restore(table, order, <<Copy(prompt.body[a])>>)
           value == Restore(table, order, Text(c))
       IN  \/ Reject(<<>>)
           \/ Reject(value)
           \/ attribute \notin AllowedAttrs /\ Reject(attribute)
           \/ /\ attribute \in AllowedAttrs
              /\ copied' = c /\ answer' = value /\ Leave("ok")
              /\ UNCHANGED <<attempt, prompt>>

\* explain_drift: any text but an empty one, restored and then cut.
Explanation ==
  /\ tool = "explain"
  /\ \/ Leave("invalid-output") /\ UNCHANGED <<copied, answer>>
     \/ \E order \in Orders(table), c \in Copies :
          LET summary == Restore(table, order, Text(c))
          IN  /\ copied' = c
              /\ answer' = SubSeq(summary, 1, Min({MaxSummary, Len(summary)}))
              /\ Leave("ok")
  /\ UNCHANGED <<attempt, prompt>>

CompleteReplies ==
  /\ pc = "ask" /\ sent' = sent \cup {prompt}
  /\ Proposal \/ Explanation
  /\ UNCHANGED <<tool, system, body, table>>

Next == Build \/ CompleteFails \/ CompleteReplies
Spec == Init /\ [][Next]_vars
-----------------------------------------------------------------------------
(* What a text says, independently of patterns and passes: its sensitive    *)
(* values are whole ARNs, and ids and addresses outside ARNs.               *)

IsArn(s, i) ==
  /\ i + 2 <= Len(s) /\ s[i].kind = "arn" /\ s[i + 1].kind = "id" /\ s[i + 2].kind # "sep"
Joined(s, i, j) == \A k \in i..j : s[k].kind # "sep"
Starts(s) == {i \in 1..Len(s) : ~\E j \in 1..(i - 1) : IsArn(s, j) /\ Joined(s, j, i)}
UnitAt(s, i) == {j \in i..Len(s) : j = i \/ (IsArn(s, i) /\ Joined(s, i, j))}
UnitFrom(s, i) == SubSeq(s, i, Max(UnitAt(s, i)))
\* The units of a text, in order: where the n-th starts, n have started.
StartOf(s, n) == CHOOSE i \in Starts(s) : Cardinality(Starts(s) \cap 1..i) = n
Units(s) == [n \in 1..Cardinality(Starts(s)) |-> UnitFrom(s, StartOf(s, n))]
-----------------------------------------------------------------------------
(* Correctness. *)

Texts == Seq(Atoms)
Prompts == [system: Texts, body: Texts, quoted: Texts]

\* Type invariant of the exchange.
TypeOK ==
  /\ pc \in {"build", "ask", "done"} /\ tool \in {"propose", "explain"}
  /\ system \in Texts /\ body \in Texts /\ table \in Seq(Texts)
  /\ prompt \in Prompts /\ \A p \in sent : p \in Prompts
  /\ attempt \in 0..(ValidateRetryMax + 1)
  /\ copied \in Seq(Nat) /\ answer \in Texts
  /\ verdict \in {"none", "ok", "gateway-down", "invalid-output"}

Plain(s) == \A i \in 1..Len(s) : s[i].kind \notin {"id", "ip"}

\* What the model is sent, in any attempt, holds no id, key or address, be it part
\* of an ARN, with two exceptions: the one that stands in the payload right behind a
\* line break, and what a rejection quotes.
PromptsAreRedacted ==
  \A p \in sent :
    /\ Plain(p.system) /\ Plain(p.body)
    /\ \A i \in 1..Len(p.body) :
         p.body[i].kind \in GluedKinds =>
           \E k \in 2..Len(body) : body[k - 1] = Break /\ p.body[i] = Glued(body[k])

\* redact.go:3: "Raw secrets, ARNs, IPs, and account ids never reach the LLM", in
\* no part of the prompt of any attempt.
RawValuesNeverLeave ==
  \A p \in sent : \A s \in {p.system, p.body, p.quoted} :
    \A i \in 1..Len(s) : s[i].kind \notin {"id", "ip"} \cup GluedKinds

\* The model can reason about equality: the prompt has one fragment for each
\* unit of the payload as JSON writes it, equal for equal units and different for
\* different ones.  (So a value behind a line break is not the same as elsewhere.)
PlaceholdersTellValues ==
  pc # "build" =>
    LET u == Units(Encoded(body))
    IN  /\ Len(prompt.body) = Len(u)
        /\ \A i, j \in 1..Len(u) : prompt.body[i] = prompt.body[j] <=> u[i] = u[j]

\* A reply that copies pieces of the prompt comes back with exactly the values
\* those pieces stand for, whatever the order of the table's map.
CopiesComeBack ==
  verdict = "ok" =>
    LET meant == FlattenSeq([i \in 1..Len(copied) |-> Units(body)[copied[i]]])
    IN  answer = IF tool = "propose" THEN meant
                 ELSE SubSeq(meant, 1, Min({MaxSummary, Len(meant)}))
=============================================================================
