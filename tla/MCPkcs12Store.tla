--------------------------- MODULE MCPkcs12Store ---------------------------
(* A small instance of Pkcs12Store: three key pairs of two algorithms and  *)
(* five certificates, one for each way an import can be accepted or        *)
(* refused: good for ever, expiring, CA (path length 0), without KeyUsage  *)
(* and with a KeyUsage other than digitalSignature.                        *)
EXTENDS Pkcs12Store

MCKeys == {"k1", "k2", "r1"}

MCAlgOf == [k \in MCKeys |-> IF k = "r1" THEN "RSA" ELSE "ML-DSA-44"]

MCPqcAlgs == {"ML-DSA-44"}

MCSignatureAlgs == {"ML-DSA-44", "RSA"}

MCCert(k, bc, present, bits, from, until) ==
    [key |-> k, basicConstraints |-> bc,
     keyUsage |-> [present |-> present, bits |-> bits],
     notBefore |-> from, notAfter |-> until]

MCCerts ==
    {MCCert("k1", -1, TRUE, {0}, 0, 9),
     MCCert("k2", -1, TRUE, {0, 1}, 1, 1),
     MCCert("k1", 0, TRUE, {0, 5}, 0, 9),
     MCCert("r1", -1, FALSE, {}, 0, 9),
     MCCert("k2", -1, TRUE, {2}, 0, 9)}
=============================================================================
