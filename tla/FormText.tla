-------------------------------- MODULE FormText -------------------------------
(***************************************************************************)
(* The texts of queries, forms, cookies and dispositions, and how they are *)
(* taken apart.  A text is a sequence of bytes.                            *)
(***************************************************************************)
EXTENDS Naturals, Sequences, SequencesExt, FiniteSets

Space == 32
Quote == 34
Percent == 37
Ampersand == 38
Plus == 43
Dot == 46
Semicolon == 59
Equals == 61

Pair(name, value) == [name |-> name, value |-> value]

LowerByte(b) == IF b \in 65..90 THEN b + 32 ELSE b
SameName(l, r) == [i \in DOMAIN l |-> LowerByte(l[i])] = [i \in DOMAIN r |-> LowerByte(r[i])]

Join(texts, glue) == FlattenSeq([i \in DOMAIN texts |-> IF i = 1 THEN texts[i] ELSE glue \o texts[i]])

Split(text, c) ==
    LET cuts == <<0>> \o SetToSortSeq({i \in DOMAIN text : text[i] = c}, <) \o <<Len(text) + 1>>
    IN  [k \in 1..(Len(cuts) - 1) |-> SubSeq(text, cuts[k] + 1, cuts[k + 1] - 1)]

Trim(text) ==
    LET kept == {i \in DOMAIN text : text[i] # Space}
    IN  IF kept = {} THEN <<>> ELSE SubSeq(text, Min(kept), Max(kept))

\* insert of a std::map, and of one without regard to case: the first one stays.
Put(pairs, name, value) ==
    IF \E e \in pairs : e.name = name THEN pairs ELSE pairs \cup {Pair(name, value)}
iPut(pairs, name, value) ==
    IF \E e \in pairs : SameName(e.name, name) THEN pairs ELSE pairs \cup {Pair(name, value)}

-------------------------------------------------------------------------------
(* Escapes *)

Unreserved == (48..57) \cup (65..90) \cup (97..122) \cup {45, 95, 33, 39, 40, 41, 42, 126, 46}
HexDigit(n) == IF n < 10 THEN 48 + n ELSE 55 + n

UrlEncode(text) ==
    FlattenSeq([i \in DOMAIN text |->
        IF text[i] \in Unreserved THEN <<text[i]>>
        ELSE <<Percent, HexDigit(text[i] \div 16), HexDigit(text[i] % 16)>>])

\* strtol of two characters with base 16; without blanks and signs in front.
HexOf(b) == CASE b \in 48..57 -> {b - 48} [] b \in 65..70 -> {b - 55} [] b \in 97..102 -> {b - 87} [] OTHER -> {}
strtol(h, l) ==
    CASE HexOf(h) = {} -> 0
      [] HexOf(h) # {} /\ HexOf(l) = {} -> CHOOSE n \in HexOf(h) : TRUE
      [] OTHER -> 16 * (CHOOSE n \in HexOf(h) : TRUE) + (CHOOSE n \in HexOf(l) : TRUE)

\* An escape that is cut off at the end of the text stays as it is.
UrlDecode(text) ==
    LET step(acc, i) ==
            CASE acc.skip > 0 -> [acc EXCEPT !.skip = @ - 1]
              [] acc.skip = 0 /\ text[i] = Percent /\ i + 2 <= Len(text) ->
                    [text |-> Append(acc.text, strtol(text[i + 1], text[i + 2])), skip |-> 2]
              [] OTHER -> [acc EXCEPT !.text = Append(@, IF text[i] = Plus THEN Space ELSE text[i])]
    IN  FoldLeft(step, [text |-> <<>>, skip |-> 0], [i \in DOMAIN text |-> i]).text

-------------------------------------------------------------------------------
(* Queries and forms, cookies, dispositions *)

\* A pair with more than one "=" is dropped.
ParseQueryParameters(text) ==
    LET step(pairs, piece) ==
            LET kv == Split(piece, Equals)
            IN  IF Len(kv) > 2 THEN pairs
                ELSE Put(pairs, UrlDecode(Trim(kv[1])), IF Len(kv) = 2 THEN UrlDecode(Trim(kv[2])) ELSE <<>>)
    IN  FoldLeft(step, {}, Split(text, Ampersand))

\* A value ends at its first "=".
TransferHeadersToCookies(text) ==
    LET step(pairs, piece) ==
            LET kv == Split(piece, Equals)
            IN  iPut(pairs, Trim(kv[1]), IF Len(kv) > 1 THEN Trim(kv[2]) ELSE <<>>)
    IN  IF text = <<>> THEN {} ELSE FoldLeft(step, {}, Split(text, Semicolon))

Unquoted(text) ==
    IF Len(text) >= 2 /\ Head(text) = Quote /\ Last(text) = Quote THEN SubSeq(text, 2, Len(text) - 1) ELSE text

\* Semicolons inside quotes separate as well.
MultiPartSplitSubHeadersFromValue(text) ==
    LET step(sub, piece) ==
            LET at == {i \in DOMAIN piece : piece[i] = Equals}
                f  == Trim(SubSeq(piece, 1, Min(at) - 1))
                v  == Unquoted(Trim(SubSeq(piece, Min(at) + 1, Len(piece))))
            IN  CASE at = {}            -> [sub EXCEPT !.value = IF @ = <<>> THEN piece ELSE @]
                  [] at # {} /\ f = <<>> -> sub
                  [] OTHER              -> [sub EXCEPT !.headers = iPut(@, f, v)]
    IN  FoldLeft(step, [value |-> <<>>, headers |-> {}], Split(text, Semicolon))

\* What clients write.
QueryText(pairs) == Join([i \in DOMAIN pairs |-> UrlEncode(pairs[i].name) \o <<Equals>> \o UrlEncode(pairs[i].value)],
                         <<Ampersand>>)
CookieText(pairs) == Join([i \in DOMAIN pairs |-> pairs[i].name \o <<Equals>> \o pairs[i].value], <<Semicolon, Space>>)
================================================================================
