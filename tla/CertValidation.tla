--------------------------- MODULE CertValidation ---------------------------
(***************************************************************************)
(* X.509 certificates as PqcCertificateManager sees them, the checks of    *)
(* validateCertificate and the signature primitive.  A certificate is a    *)
(* record of the five facts the code reads from it; the clock is an        *)
(* argument.  The CA certificate the user selects is parsed and stored but *)
(* no check ever reads it (validateCertificate ignores its second          *)
(* argument), so it carries no data here.                                  *)
(***************************************************************************)
EXTENDS Integers

CONSTANTS
    Keys,       \* key pairs; a key pair stands for its private and public key
    AlgOf,      \* the algorithm name of each key pair
    PqcAlgs,    \* the names that contain "ml-dsa" or "dilithium"
    SignatureAlgs, \* the names the provider has a Signature under
    Certs,      \* the certificates in the user's documents
    MaxTime     \* bound on the clock

Times == 0 .. MaxTime

ASSUME KeysAssumption == DOMAIN AlgOf = Keys

ASSUME TimeAssumption == MaxTime \in Nat

(* keyUsage is the answer of getKeyUsage(): present is FALSE when it is null; *)
(* bits are the positions set in the boolean array.                        *)
Certificate ==
    [key : Keys, basicConstraints : Int,
     keyUsage : [present : BOOLEAN, bits : SUBSET (0 .. 8)],
     notBefore : Int, notAfter : Int]

ASSUME CertsAssumption == Certs \subseteq Certificate

-----------------------------------------------------------------------------

(* X509Certificate.checkValidity(): both ends of the period belong to it. *)
isCurrentlyValid(c, t) == c.notBefore <= t /\ t <= c.notAfter

(* Slip: a path length of 0 taken for "not a CA". *)
isEndEntity_pathLength(c) == c.basicConstraints <= 0

(* In X.509 a negative answer of getBasicConstraints() means "not a CA".   *)
isEndEntity(c) == c.basicConstraints < 0

validateCertificate(c, t) ==
    [isPqc       |-> AlgOf[c.key] \in PqcAlgs,
     timeValid   |-> isCurrentlyValid(c, t),
     isEndEntity |-> isEndEntity(c),
     keyUsageOk  |-> c.keyUsage.present /\ 0 \in c.keyUsage.bits]

isOverallAcceptableForSigning(r) ==
    r.timeValid /\ r.isEndEntity /\ r.keyUsageOk

(* What no passing of time changes: the certificate may sign documents.    *)
SigningCert(c) ==
    c.basicConstraints < 0 /\ c.keyUsage.present /\ 0 \in c.keyUsage.bits

-----------------------------------------------------------------------------

(* A signature is the key that made it and the bytes it covers: the       *)
(* algorithms are assumed correct (verify accepts exactly what sign made). *)
Signature(k, data) == [signer |-> k, over |-> data]

(* The provider signs and verifies with a key of this algorithm.  For any  *)
(* other Signature.getInstance throws, as it does for "EC": an ECDSA       *)
(* signature has another name than its key.                                *)
Usable(k) == AlgOf[k] \in SignatureAlgs

(* It returns true.  Otherwise it returns false, or throws: always when    *)
(* the key of the certificate is not Usable.                               *)
verifyDataWithCertificate(c, data, sig) ==
    Usable(c.key) /\ sig.signer = c.key /\ sig.over = data
=============================================================================
