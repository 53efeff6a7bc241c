----------------------------- MODULE MCNameCache -----------------------------
(* A small instance of NameCache: the hash gives keys of two objects the    *)
(* same string, and a private_func may return that string or its first      *)
(* suffixed form.                                                           *)
EXTENDS NameCache

CONSTANTS o1, o2, x, y, g, h

MCKey == {<<o1, x>>, <<o1, y>>, <<o2, x>>}
MCDefaultString == [k \in MCKey |-> IF k = <<o1, y>> THEN <<g>> ELSE <<h>>]
MCCustomString == {<<h>>, <<h, 1>>}
=============================================================================
