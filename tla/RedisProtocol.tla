----------------------------- MODULE RedisProtocol ----------------------------
(***************************************************************************)
(* The redis protocol: values, commands and replies as they are written.   *)
(* A character is a string of one character, or "CR", "LF" or "TAB".       *)
(***************************************************************************)
EXTENDS Integers, Sequences, SequencesExt

\* RedisValue.  Rejected stands for a reply that the parser does not accept,
\* Pending for none so far.
Str(s)   == [type |-> "string", text |-> s, num |-> 0, items |-> <<>>]
Err(s)   == [type |-> "error", text |-> s, num |-> 0, items |-> <<>>]
Num(n)   == [type |-> "integer", text |-> <<>>, num |-> n, items |-> <<>>]
Nil      == [type |-> "nil", text |-> <<>>, num |-> 0, items |-> <<>>]
Arr(vs)  == [type |-> "array", text |-> <<>>, num |-> 0, items |-> vs]
Rejected == [type |-> "rejected", text |-> <<>>, num |-> 0, items |-> <<>>]
Pending  == [type |-> "pending", text |-> <<>>, num |-> 0, items |-> <<>>]

Digits == <<"0", "1", "2", "3", "4", "5", "6", "7", "8", "9">>
DigitValue(c) == (CHOOSE i \in 1..10 : Digits[i] = c) - 1
IsDigit(c) == \E i \in 1..10 : Digits[i] = c

CRLF == <<"CR", "LF">>

\* std::to_string for numbers below 100.
Decimal(n) == IF n < 10 THEN <<Digits[n + 1]>>
               ELSE <<Digits[(n \div 10) + 1], Digits[(n % 10) + 1]>>

Bulk(s) == <<"$">> \o Decimal(Len(s)) \o CRLF \o s \o CRLF

\* MakeCommand: an array of bulk strings.
MakeCommand(items) ==
    <<"*">> \o Decimal(Len(items)) \o CRLF
    \o FlattenSeq([i \in DOMAIN items |-> Bulk(items[i])])

\* A reply: the characters and the value they stand for.  A reply that is
\* malformed ends with the character that shows it.
Reply(chars, value) == [chars |-> chars, value |-> value]
Malformed(chars) == Reply(chars, Rejected)
CommandReply(items) == Reply(MakeCommand(items), Arr([i \in DOMAIN items |-> Str(items[i])]))
================================================================================
