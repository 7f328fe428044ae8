------------------------------ MODULE MCOqsRand ------------------------------
(* A small instance of OqsRand: a jsize of three bits and requests that    *)
(* fit it, that do not, and that are negative; seeds of two bytes.         *)
EXTENDS OqsRand

MCRequests == -5 .. 10
=============================================================================
