-------------------------------- MODULE Maps --------------------------------
(***************************************************************************)
(* Functions on a changing domain: the tables, maps and dictionaries of    *)
(* the code.  An absent key is a key outside the domain.                   *)
(***************************************************************************)
EmptyMap == [x \in {} |-> {}]

\* insert / upsert
Bind(f, x, v) == [y \in DOMAIN f \cup {x} |-> IF y = x THEN v ELSE f[y]]

\* remove every key of S
Drop(f, S) == [y \in DOMAIN f \ S |-> f[y]]
=============================================================================
