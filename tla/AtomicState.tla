----------------------------- MODULE AtomicState -----------------------------
(***************************************************************************)
(* What runtime state promises for one key: a value that every successful  *)
(* Update or Store changes in one step, computed from the value it         *)
(* replaces, and that Take, Delete and expiry remove.  The value is the    *)
(* sequence of the updates applied to it; <<>> is an absent value.         *)
(***************************************************************************)
EXTENDS Sequences

CONSTANT Clients

VARIABLE value

Init == value = <<>>

Update(c) == value' = Append(value, c)

Store(c) == value' = <<c>>

Remove == value' = <<>>

Next == Remove \/ \E c \in Clients : Update(c) \/ Store(c)

Spec == Init /\ [][Next]_value
=============================================================================
