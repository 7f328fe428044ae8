---------------------------- MODULE MCOqsSignature ----------------------------
(* A small instance of OqsSignature: two objects and two addresses, which  *)
(* are interchangeable, and keys that fit or are too short.                *)
EXTENDS OqsSignature, TLC

CONSTANTS a1, a2

MCLengths ==
    [a \in Algorithms |->
        IF a = a1 THEN [public_key |-> 1, secret_key |-> 2, output |-> 3]
                  ELSE [public_key |-> 2, secret_key |-> 4, output |-> 5]]

MCSymmetry == Permutations(Objects) \cup Permutations(Addresses)
=============================================================================
