------------------------------ MODULE BitWords ------------------------------
(***************************************************************************)
(* 32-bit words as the sets of their one bits.  The bitwise operators of   *)
(* the code are then set operators (a | b is a \cup b, a & !b is a \ b,    *)
(* a mask is an intersection), at full width and without overflow.         *)
(***************************************************************************)
EXTENDS Integers, FiniteSets, FiniteSetsExt

Word == SUBSET (0..31)

(* The number a word without its sign bit stands for, and back. *)
Num(w) == SumSet({2^i : i \in w})

BitsOf(n) == {i \in 0..30 : (n \div 2^i) % 2 = 1}

(* w >> k *)
Shr(w, k) == {i - k : i \in {j \in w : j >= k}}

(* A flag of a record as the bit it is read in. *)
Flag(set, bit) == IF set THEN {bit} ELSE {}

(* The code's Option<T>. *)
None == <<>>
Some(x) == <<x>>
IsSome(o) == o # None
Get(o) == o[1]
UnwrapOr(o, x) == IF IsSome(o) THEN Get(o) ELSE x
=============================================================================
