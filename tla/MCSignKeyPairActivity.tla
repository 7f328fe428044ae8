----------------------- MODULE MCSignKeyPairActivity -----------------------
(* A small instance of SignKeyPairActivity.  Key pairs are interchangeable *)
(* (Generate picks any that is not known), and so are documents and their  *)
(* contents.                                                               *)
EXTENDS SignKeyPairActivity, TLC

MCSymmetry ==
    Permutations(Keys) \cup Permutations(Documents) \cup Permutations(Data)
=============================================================================
