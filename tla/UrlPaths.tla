-------------------------------- MODULE UrlPaths -------------------------------
(***************************************************************************)
(* Paths of URLs: sequences of "/", letters and the word "index", compared *)
(* without regard to case where the code does so.                          *)
(***************************************************************************)
EXTENDS Naturals, Sequences, SequencesExt

Lower(c) == CASE c = "A" -> "a" [] c = "B" -> "b" [] OTHER -> c

\* The order of the characters, case aside: "/" is before the letters.
Order == <<"/", "a", "b", "index", "{{}}", "(">>
Rank(c) == CHOOSE i \in DOMAIN Order : Order[i] = Lower(c)

iStartsWith(path, prefix) ==
    /\ Len(prefix) <= Len(path)
    /\ \A i \in DOMAIN prefix : Lower(path[i]) = Lower(prefix[i])

iEquals(l, r) == Len(l) = Len(r) /\ iStartsWith(l, r)

\* IgnoreCaseCompare; the map that has it in reverse begins with the greatest.
iLess(l, r) ==
    \E n \in 0..(Len(r) - 1) :
        /\ n <= Len(l)
        /\ \A i \in 1..n : Rank(l[i]) = Rank(r[i])
        /\ n = Len(l) \/ Rank(l[n + 1]) < Rank(r[n + 1])

JoinUrlPath(root, path) ==
    CASE root # <<>> /\ path # <<>> /\ Last(root) = "/" /\ Head(path) = "/" -> root \o Tail(path)
      [] root # <<>> /\ path # <<>> /\ Last(root) # "/" /\ Head(path) # "/" -> root \o <<"/">> \o path
      [] OTHER -> root \o path
================================================================================
