----------------------------- MODULE MCRedaction -----------------------------
(* An instance of Redaction: all payloads of up to four fragments, and some *)
(* longer ones in which an ARN, its account and an address occur together.  *)
EXTENDS Redaction

Word == [kind |-> "word", n |-> 1]
Sep  == [kind |-> "sep", n |-> 1]
Arn  == [kind |-> "arn", n |-> 1]
Id   == [kind |-> "id", n |-> 1]
Ip   == [kind |-> "ip", n |-> 1]
AllFragments == {Word, Sep, Break, Arn, Id, Ip}

\* Without safety rules, and with a rule about a path that names an account.
TwoSystems == {<<Token(1), Word>>, <<Token(1), Word, Break, Id, Sep>>}
JustWords == <<Word>>
ShortPayloads == UNION {[1..k -> AllFragments] : k \in 1..4}
LongPayloads ==
  {<<Arn, Id, Word, Sep, Id, Sep, Arn, Id, Word>>, <<Arn, Id, Ip, Sep, Ip, Sep, Arn, Id, Ip, Word>>}
SomePayloads == ShortPayloads \cup LongPayloads
Names == {<<Word>>, <<Id>>, <<Arn, Id, Word>>}
=============================================================================
