----------------------------- MODULE MCWsRegistry -----------------------------
(* Instances of WsRegistry for TLC: three connections, two threads. *)
EXTENDS WsRegistry, TLC

CONSTANTS c1, c2, c3, t1, t2, u1, u2, u3, a, b

MCIds == {EmptyId, u1, u2, u3, a, b}
MCUuid == (c1 :> u1) @@ (c2 :> u2) @@ (c3 :> u3)

\* Two connections are renamed to one name, or back to their first id; the third
\* has names of its own.
MixedNames == (c1 :> {a, u1}) @@ (c2 :> {a, u2}) @@ (c3 :> {b, u3})
===============================================================================
