--------------------- MODULE MCVerifySignatureActivity ---------------------
(* A small instance of VerifySignatureActivity: three key pairs, one of    *)
(* them of an algorithm the provider does not verify with, and a           *)
(* certificate that expires, one of a CA, one that may not sign and one of *)
(* that algorithm.                                                         *)
EXTENDS VerifySignatureActivity

MCKeys == {"k1", "k2", "e1"}

MCAlgOf == [k \in MCKeys |-> IF k = "e1" THEN "EC" ELSE "ML-DSA-44"]

MCPqcAlgs == {"ML-DSA-44"}

MCSignatureAlgs == {"ML-DSA-44"}

MCCert(k, bc, bits, until) ==
    [key |-> k, basicConstraints |-> bc,
     keyUsage |-> [present |-> TRUE, bits |-> bits],
     notBefore |-> 0, notAfter |-> until]

MCCerts == {MCCert("k1", -1, {0}, 0), MCCert("k2", 0, {0}, 1),
            MCCert("k1", -1, {2}, 1), MCCert("e1", -1, {0}, 1)}
=============================================================================
