----------------------- MODULE MCSignWithCertActivity -----------------------
(* A small instance of SignWithCertActivity.  The store does not exist, or *)
(* it was written under p1 with two credentials: a matching one and one    *)
(* whose key is not the key of its certificate; or with one credential of  *)
(* an algorithm the provider does not sign with (Pkcs12Store accepts all   *)
(* three).                                                                 *)
EXTENDS SignWithCertActivity

CONSTANTS a1, a2, p1

MCKeys == {"k1", "k2", "e1"}

MCAlgOf == [k \in MCKeys |-> IF k = "e1" THEN "EC" ELSE "ML-DSA-44"]

MCPqcAlgs == {"ML-DSA-44"}

MCSignatureAlgs == {"ML-DSA-44", "RSA"}

MCCert(k) ==
    [key |-> k, basicConstraints |-> -1,
     keyUsage |-> [present |-> TRUE, bits |-> {0}],
     notBefore |-> 0, notAfter |-> 0]

MCCerts == {MCCert("k1"), MCCert("e1")}

MCEntry(k, c) == [key |-> k, cert |-> MCCert(c), at |-> 0, under |-> p1]

MCFiles ==
    {[state |-> "absent", pwd |-> p1, entries |-> [a \in Aliases |-> NoEntry]],
     [state |-> "ok", pwd |-> p1,
      entries |-> [a \in Aliases |->
                    IF a = a1 THEN MCEntry("k1", "k1")
                    ELSE MCEntry("k2", "k1")]],
     [state |-> "ok", pwd |-> p1,
      entries |-> [a \in Aliases |->
                    IF a = a1 THEN MCEntry("e1", "e1") ELSE NoEntry]]}
=============================================================================
