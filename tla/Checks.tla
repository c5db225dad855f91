------------------------------- MODULE Checks -------------------------------
(***************************************************************************)
(* Results of validating code: a value, or the error of the first check    *)
(* that fails.  The functions of src/elf/src and os/src/image.rs all have  *)
(* this form: a fixed order of conditions with an early return each.       *)
(***************************************************************************)
EXTENDS Integers, Sequences, SequencesExt

Ok(value) == [ok |-> value]
Err(error) == [err |-> error]
IsOk(result) == "ok" \in DOMAIN result

(* The error of the first of the checks, <<failed, error>>, that fails, as *)
(* an option.                                                              *)
FirstFailure(checks) ==
    LET failed == {i \in DOMAIN checks : checks[i][1]}
    IN  IF failed = {} THEN <<>> ELSE <<checks[Min(failed)][2]>>

(* The first of a sequence of options that holds an error. *)
FirstOf(options) ==
    LET failed == {i \in DOMAIN options : options[i] # <<>>}
    IN  IF failed = {} THEN <<>> ELSE options[Min(failed)]

(* A check of each element of a sequence with its successor. *)
Neighbours(s, check(_, _)) == [k \in 1..Max({0, Len(s) - 1}) |-> check(s[k], s[k + 1])]

(* The elements of a set of naturals by increasing key, ties by value: a   *)
(* stable sort of the indices.                                             *)
SortedBy(S, key(_)) ==
    LET Before(i, j) == key(i) < key(j) \/ (key(i) = key(j) /\ i < j)
    IN  [k \in 1..Cardinality(S) |->
            CHOOSE i \in S : Cardinality({j \in S : Before(j, i)}) = k - 1]

=============================================================================
