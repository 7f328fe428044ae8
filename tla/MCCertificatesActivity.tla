----------------------- MODULE MCCertificatesActivity -----------------------
(* A small instance of CertificatesActivity: one key pair and two          *)
(* certificates of it, one that may sign until time 0 and one of a CA.     *)
EXTENDS CertificatesActivity

MCKeys == {"k1"}

MCAlgOf == [k \in MCKeys |-> "ML-DSA-44"]

MCPqcAlgs == {"ML-DSA-44"}

MCSignatureAlgs == {"ML-DSA-44"}

MCCert(bc, until) ==
    [key |-> "k1", basicConstraints |-> bc,
     keyUsage |-> [present |-> TRUE, bits |-> {0}],
     notBefore |-> 0, notAfter |-> until]

MCCerts == {MCCert(-1, 0), MCCert(0, 1)}
=============================================================================
