------------------------------ MODULE RedisParser ------------------------------
(***************************************************************************)
(* RedisParser, fed with a reply that arrives in reads of any size.  The   *)
(* client writes a command after it has the reply to the last one, and     *)
(* makes a parser for every reply.                                         *)
(***************************************************************************)
EXTENDS RedisProtocol

CONSTANT Replies    \* the replies that may be sent

VARIABLES
    reply,      \* the reply that is sent
    rpos,       \* characters of it that have been read ...
    used,       \* ... and those of them that the parser has used
    q,          \* the parser
    result      \* what Parse has reported and Result has given


-------------------------------------------------------------------------------
(* The parser *)

\* state is the one on top of states between two calls of parse_chunk, "Error"
\* after a call that failed.
NewParser == [state |-> "Start", bulkSize |-> 0, buf |-> <<>>, value |-> Nil,
              arraySizes |-> <<>>, arrayValues |-> <<>>]

\* buf_to_long; the characters behind the sign are digits.
buf_to_long(s) ==
    LET neg  == s # <<>> /\ s[1] = "-"
        body == IF neg THEN Tail(s) ELSE s
        abs  == FoldLeft(LAMBDA v, c : v * 10 + DigitValue(c), 0, body)
    IN  IF neg THEN -abs ELSE abs

Min2(a, b) == IF a < b THEN a ELSE b
IsChar(c) == c \notin {"CR", "LF", "TAB"}

\* One turn of the switch, with the character in front of position pos of the
\* data: the parser and the position afterwards.
Go(r, st, pos) == [r |-> [r EXCEPT !.state = st], pos |-> pos]
Fail(r, pos)   == Go(r, "Error", pos)

Start(r, c, pos) ==
    LET s == [r EXCEPT !.buf = <<>>]
    IN  CASE c = "+" -> Go(s, "String", pos)
          [] c = "-" -> Go(s, "ErrorString", pos)
          [] c = ":" -> Go(s, "Integer", pos)
          [] c = "$" -> Go([s EXCEPT !.bulkSize = 0], "BulkSize", pos)
          [] c = "*" -> Go(s, "ArraySize", pos)
          [] OTHER   -> Fail(s, pos)

\* The text of a string or an error.
Text(r, c, pos, next) ==
    CASE c = "CR"    -> Go(r, next, pos)
      [] IsChar(c)   -> Go([r EXCEPT !.buf = Append(@, c)], r.state, pos)
      [] OTHER       -> Fail(r, pos)

\* The digits of a size or an integer.
Number(r, c, pos, next) ==
    CASE c = "CR" /\ r.buf # <<>>   -> Go(r, next, pos)
      [] IsDigit(c) \/ c = "-"      -> Go([r EXCEPT !.buf = Append(@, c)], r.state, pos)
      [] OTHER                      -> Fail(r, pos)

BulkSizeLF(r, data, pos) ==
    LET size == buf_to_long(r.buf)
        n    == Min2(size, Len(data) - pos)
        s    == [r EXCEPT !.buf = <<>>, !.bulkSize = size]
    IN  CASE size = -1 -> Go([s EXCEPT !.value = Nil], "Start", pos)
          [] size = 0  -> Go(s, "BulkCR", pos)
          [] size < -1 -> Fail(s, pos)
          [] OTHER     -> Go([s EXCEPT !.buf = SubSeq(data, pos + 1, pos + n), !.bulkSize = size - n],
                             IF n < size THEN "Bulk" ELSE "BulkCR", pos + n)

\* The first of the bytes that are taken is the one in front of pos.
BulkBytes(r, data, pos) ==
    LET n == Min2(Len(data) - pos + 1, r.bulkSize)
        s == [r EXCEPT !.buf = @ \o SubSeq(data, pos, pos - 1 + n), !.bulkSize = @ - n]
    IN  Go(s, IF s.bulkSize = 0 THEN "BulkCR" ELSE "Bulk", pos + n - 1)

ArraySizeLF(r, pos) ==
    LET size == buf_to_long(r.buf)
    IN  CASE size = -1 -> Go([r EXCEPT !.value = Nil], "Start", pos)
          [] size = 0  -> Go([r EXCEPT !.value = Arr(<<>>)], "Start", pos)
          [] size < -1 -> Fail(r, pos)
          [] OTHER     -> Go([r EXCEPT !.arraySizes = <<size>> \o @, !.arrayValues = <<Arr(<<>>)>> \o @],
                             "StartArray", pos)

Turn(r, data, pos) ==
    LET c  == data[pos]
        st == r.state
    IN  CASE st \in {"Start", "StartArray"} -> Start(r, c, pos)
          [] st = "String"      -> Text(r, c, pos, "StringLF")
          [] st = "ErrorString" -> Text(r, c, pos, "ErrorLF")
          [] st = "BulkSize"    -> Number(r, c, pos, "BulkSizeLF")
          [] st = "ArraySize"   -> Number(r, c, pos, "ArraySizeLF")
          [] st = "Integer"     -> Number(r, c, pos, "IntegerLF")
          [] st = "Bulk"        -> BulkBytes(r, data, pos)
          [] st = "BulkCR" /\ c = "CR"      -> Go(r, "BulkLF", pos)
          [] st = "BulkLF" /\ c = "LF"      -> Go([r EXCEPT !.value = Str(r.buf)], "Start", pos)
          [] st = "StringLF" /\ c = "LF"    -> Go([r EXCEPT !.value = Str(r.buf)], "Start", pos)
          [] st = "ErrorLF" /\ c = "LF"     -> Go([r EXCEPT !.value = Err(r.buf)], "Start", pos)
          [] st = "IntegerLF" /\ c = "LF"   ->
                Go([r EXCEPT !.value = Num(buf_to_long(r.buf)), !.buf = <<>>], "Start", pos)
          [] st = "BulkSizeLF" /\ c = "LF"  -> BulkSizeLF(r, data, pos)
          [] st = "ArraySizeLF" /\ c = "LF" -> ArraySizeLF(r, pos)
          [] OTHER -> Fail(r, pos)

\* A value is complete: it goes into the array that is being read, and an array
\* that is complete by that into the one around it.
AddItem(arrays, v) == <<[arrays[1] EXCEPT !.items = Append(@, v)]>> \o Tail(arrays)

RECURSIVE CloseArrays(_)
CloseArrays(r) ==
    CASE r.arraySizes = <<>> -> r
      [] r.arraySizes # <<>> /\ r.arraySizes[1] > 1 ->
            [r EXCEPT !.arraySizes[1] = @ - 1]
      [] OTHER ->
            LET s == [r EXCEPT !.arraySizes = Tail(@), !.value = r.arrayValues[1],
                               !.arrayValues = Tail(@)]
            IN  CloseArrays(IF s.arraySizes = <<>> THEN s
                            ELSE [s EXCEPT !.arrayValues = AddItem(@, s.value)])

\* Mutant: an inner array that is complete does not complete the outer one.
ValueComplete_one_level(r) ==
    IF r.arraySizes = <<>> THEN r
    ELSE LET t == [r EXCEPT !.arrayValues = AddItem(@, r.value)]
         IN  IF t.arraySizes[1] > 1 THEN [t EXCEPT !.arraySizes[1] = @ - 1]
             ELSE LET s == [t EXCEPT !.arraySizes = Tail(@), !.value = t.arrayValues[1],
                                     !.arrayValues = Tail(@)]
                  IN  IF s.arraySizes = <<>> THEN s
                      ELSE [s EXCEPT !.arrayValues = AddItem(@, s.value)]

ValueComplete(r) ==
    IF r.arraySizes = <<>> THEN r
    ELSE CloseArrays([r EXCEPT !.arrayValues = AddItem(@, r.value)])

-------------------------------------------------------------------------------
Init == /\ reply \in Replies
        /\ rpos = 0 /\ used = 0
        /\ q = NewParser
        /\ result = Pending

\* A read of k characters, with which do_async_read_and_parse calls Parse.
Read(k) ==
    /\ result = Pending /\ used = rpos
    /\ rpos' = rpos + k
    /\ UNCHANGED <<reply, used, q, result>>

\* parse_chunk: a turn of its loop, which ends with a value that is complete and
\* in no array, with an error, or with the data.
parse_chunk ==
    /\ result = Pending /\ used < rpos
    /\ \E t \in {Turn(q, SubSeq(reply.chars, 1, rpos), used + 1)} :
       \E r \in {IF t.r.state = "Start" THEN ValueComplete(t.r) ELSE t.r} :
          /\ q' = r
          /\ used' = t.pos
          /\ result' = CASE r.state = "Error"                        -> Rejected
                         [] r.state = "Start" /\ r.arraySizes = <<>> -> r.value
                         [] OTHER                                    -> Pending
    /\ UNCHANGED <<reply, rpos>>

Next == \/ \E k \in 1..(Len(reply.chars) - rpos) : Read(k)
        \/ parse_chunk

-------------------------------------------------------------------------------
(* Properties *)

\* However a reply is cut into reads, Parse is done with it at its last character
\* and not before, and Result gives the value that was sent, arrays in arrays and
\* strings that hold line ends included.
ReplyAsSent ==
    result = IF used = Len(reply.chars) THEN reply.value ELSE Pending
================================================================================
