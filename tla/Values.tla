-------------------------------- MODULE Values --------------------------------
(***************************************************************************)
(* The values the conversions work on.  A struct is a function from its    *)
(* field names.  A pointer is a sequence: nil, or what it points at as the *)
(* only element; a nil slice or map is an empty one.                       *)
(***************************************************************************)
EXTENDS Integers, Sequences, FiniteSets

Nil == <<>>
Empty == <<>>

\* A struct with the fields of two.
f @@ g == [x \in DOMAIN f \cup DOMAIN g |-> IF x \in DOMAIN f THEN f[x] ELSE g[x]]

Copy(v, fields) == [f \in fields |-> v[f]]

\* Every element of a list, or what a pointer that is not nil points at, converted.
Each(s, Op(_)) == [i \in DOMAIN s |-> Op(s[i])]

\* The elements of s at the positions in S, in order.
Pick(s, S) ==
    [n \in 1..Cardinality(S) |->
        s[CHOOSE i \in S : Cardinality({j \in S : j <= i}) = n]]

\* What the pointers in s that are not nil point at.
NonNil(s) == Each(Pick(s, {i \in DOMAIN s : s[i] # Nil}), Head)
=============================================================================
