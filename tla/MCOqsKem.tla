------------------------------- MODULE MCOqsKem -------------------------------
(* A small instance of OqsKem: two algorithms, the arrays of one being     *)
(* longer, one object and two addresses.  The object may come to be of     *)
(* another algorithm than its arrays are made for; a key of two bytes is   *)
(* right for one algorithm and too short for the other, one of five is too *)
(* long for both.  One ciphertext under way meets the object in every      *)
(* state.                                                                  *)
EXTENDS OqsKem, TLC

CONSTANTS a1, a2

MCLengths ==
    [a \in Algorithms |->
        IF a = a1 THEN [public_key |-> 1, secret_key |-> 2, output |-> 3]
                  ELSE [public_key |-> 2, secret_key |-> 4, output |-> 5]]

MCSymmetry == Permutations(Addresses)
=============================================================================
