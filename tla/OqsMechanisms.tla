---------------------------- MODULE OqsMechanisms ----------------------------
(***************************************************************************)
(* The mechanisms of liboqs as the wrappers see them: the names that its   *)
(* headers define, those that the build enables, and the lengths of their  *)
(* arrays; the loops of Sigs.java and KEMs.java that list them, and what   *)
(* the constructors of Signature and KeyEncapsulation make of a name.      *)
(*                                                                         *)
(* A name is a tuple: the family, the parameter set, the variant.  The     *)
(* order in which liboqs lists the names is a parameter.                   *)
(***************************************************************************)
EXTENDS Integers, Sequences, FiniteSets

CONSTANTS
    SigNames,       \* what OQS_SIG_alg_identifier answers to 0, 1, 2 ...
    KemNames,       \* what OQS_KEM_alg_identifier does
    OtherNames      \* names that the headers do not define

VARIABLES
    scheme,     \* "sig" or "kem"
    i, j,       \* how far the two loops have come
    supported,  \* the list that get_supported builds
    enabled,    \* the list that get_enabled builds
    tried       \* the name that was last given to a constructor, its outcome

mechVars == <<scheme, i, j, supported, enabled, tried>>

-----------------------------------------------------------------------------
(* Names. *)

Default == <<"DEFAULT">>

SigIdentifiers ==
    {Default}
    \cup {"picnic"} \X {"L1", "L3", "L5"} \X {"FS", "UR", "full"}
    \cup {"picnic3"} \X {"L1", "L3", "L5"}
    \cup {"Dilithium"} \X {2, 3, 4}
    \cup {"Falcon"} \X {512, 1024}
    \cup {"Rainbow"} \X {"Ia", "IIIc", "Vc"}
            \X {"Classic", "Cyclic", "Cyclic-Compressed"}
    \cup {"SPHINCS+"} \X {"Haraka", "SHA256", "SHAKE256"} \X {128, 192, 256}
            \X {"f", "s"} \X {"robust", "simple"}

OQS_SIG_algs_length == 63

McElieceSets == {348864, 460896, 6688128, 6960119, 8192128}

KemIdentifiers ==
    {Default}
    \cup {"BIKE1"} \X {"L1", "L3"} \X {"CPA", "FO"}
    \cup {"Classic-McEliece"} \X McElieceSets \X {"plain", "f"}
    \cup {"HQC"} \X {128, 192, 256}
    \cup {"Kyber"} \X {512, 768, 1024} \X {"plain", "90s"}
    \cup {"NTRU"} \X {"HPS-2048-509", "HPS-2048-677", "HPS-4096-821",
                      "HRSS-701"}
    \cup {"ntruprime"} \X {"ntrulpr", "sntrup"} \X {653, 761, 857}
    \cup {"Saber"} \X {"LightSaber", "Saber", "FireSaber"}
    \cup {"FrodoKEM"} \X {640, 976, 1344} \X {"AES", "SHAKE"}
    \cup {"SIDH", "SIKE"} \X {434, 503, 610, 751} \X {"plain", "compressed"}

OQS_KEM_algs_length == 59

(* The table s has n names: each that the headers define, each once.       *)
IsTable(s, S, n) ==
    /\ s \in Seq(S)
    /\ Len(s) = n
    /\ \A name \in S : \E k \in 1 .. n : s[k] = name
    /\ \A k, l \in 1 .. n : s[k] = s[l] => k = l

(* The table behind the identifiers is as long as the header says.         *)
ASSUME TableAssumption ==
    /\ IsTable(SigNames, SigIdentifiers, OQS_SIG_algs_length)
    /\ IsTable(KemNames, KemIdentifiers, OQS_KEM_algs_length)

(* The families whose flags the build defines; none is defined in part.   *)
PqcleanKems ==
    {"Classic-McEliece", "HQC", "Kyber", "NTRU", "ntruprime", "Saber"}

EnabledKems == {"BIKE1", "FrodoKEM", "SIDH"} \cup PqcleanKems

PqcleanSigs == {"Dilithium", "Falcon", "Rainbow", "SPHINCS+"}

(* Of the others there is Picnic, which the build leaves out. *)
EnabledSigs == PqcleanSigs

KemDefault == <<"FrodoKEM", 640, "AES">>

SigDefault == <<"Dilithium", 2>>

-----------------------------------------------------------------------------
(* The operators of the module TLC, which the provers cannot expand.       *)
d :> e == [x \in {d} |-> e]

f @@ g ==
    [x \in (DOMAIN f) \cup (DOMAIN g) |->
        IF x \in DOMAIN f THEN f[x] ELSE g[x]]

(* Lengths: of the public key, the secret key, and the longest signature. *)

DilithiumLengths ==
    <<"Dilithium", 2>> :> <<1184, 2800, 2044>>
    @@ <<"Dilithium", 3>> :> <<1472, 3504, 2701>>
    @@ <<"Dilithium", 4>> :> <<1760, 3856, 3366>>

FalconLengths ==
    <<"Falcon", 512>> :> <<897, 1281, 690>>
    @@ <<"Falcon", 1024>> :> <<1793, 2305, 1330>>

(* The full and the cyclic public key, the full secret key, the signature. *)
RainbowSizes ==
    "Ia" :> <<148992, 58144, 92960, 64>>
    @@ "IIIc" :> <<710640, 206744, 511448, 156>>
    @@ "Vc" :> <<1705536, 491936, 1227104, 204>>

RainbowLengths ==
    [n \in {"Rainbow"} \X (DOMAIN RainbowSizes)
            \X {"Classic", "Cyclic", "Cyclic-Compressed"} |->
        LET z == RainbowSizes[n[2]]
        IN  <<IF n[3] = "Classic" THEN z[1] ELSE z[2],
              IF n[3] = "Cyclic-Compressed" THEN 64 ELSE z[3],
              z[4]>>]

SphincsSignature ==
    "f" :> (128 :> 16976 @@ 192 :> 35664 @@ 256 :> 49216)
    @@ "s" :> (128 :> 8080 @@ 192 :> 17064 @@ 256 :> 29792)

(* Slip: the lengths of the keys were copied from Falcon-512. *)
SphincsKeys_copied(bits) == <<897, 1281>>

SphincsKeys(bits) == <<bits \div 4, bits \div 2>>

SphincsOf(hash) ==
    [n \in {"SPHINCS+"} \X {hash} \X {128, 192, 256} \X {"f", "s"}
            \X {"robust", "simple"} |->
        Append(SphincsKeys(n[3]), SphincsSignature[n[4]][n[3]])]

(* A block of the header each. *)
HarakaLengths == SphincsOf("Haraka")

Sha256Lengths == SphincsOf("SHA256")

Shake256Lengths == SphincsOf("SHAKE256")

(* The public key, the secret key, the ciphertext, the shared secret. *)
BikeLengths ==
    <<"BIKE1", "L1", "CPA">> :> <<2542, 3110, 2542, 32>>
    @@ <<"BIKE1", "L3", "CPA">> :> <<4964, 5788, 4964, 32>>
    @@ <<"BIKE1", "L1", "FO">> :> <<2946, 6460, 2946, 32>>
    @@ <<"BIKE1", "L3", "FO">> :> <<6206, 13236, 6206, 32>>

(* Each parameter set has the same lengths in both variants. *)
BothVariants(family, sizes, variants) ==
    [n \in {family} \X (DOMAIN sizes) \X variants |-> sizes[n[2]]]

McElieceLengths ==
    BothVariants("Classic-McEliece",
        348864 :> <<261120, 6452, 128, 32>>
        @@ 460896 :> <<524160, 13568, 188, 32>>
        @@ 6688128 :> <<1044992, 13892, 240, 32>>
        @@ 6960119 :> <<1047319, 13908, 226, 32>>
        @@ 8192128 :> <<1357824, 14080, 240, 32>>, {"plain", "f"})

FrodoLengths ==
    BothVariants("FrodoKEM",
        640 :> <<9616, 19888, 9720, 16>>
        @@ 976 :> <<15632, 31296, 15744, 24>>
        @@ 1344 :> <<21520, 43088, 21632, 32>>, {"AES", "SHAKE"})

HqcLengths ==
    <<"HQC", 128>> :> <<2249, 2289, 4481, 64>>
    @@ <<"HQC", 192>> :> <<4522, 4562, 9026, 64>>
    @@ <<"HQC", 256>> :> <<7245, 7285, 14469, 64>>

KyberLengths ==
    BothVariants("Kyber",
        512 :> <<800, 1632, 768, 32>>
        @@ 768 :> <<1184, 2400, 1088, 32>>
        @@ 1024 :> <<1568, 3168, 1568, 32>>, {"plain", "90s"})

NtruLengths ==
    <<"NTRU", "HPS-2048-509">> :> <<699, 935, 699, 32>>
    @@ <<"NTRU", "HPS-2048-677">> :> <<930, 1234, 930, 32>>
    @@ <<"NTRU", "HPS-4096-821">> :> <<1230, 1590, 1230, 32>>
    @@ <<"NTRU", "HRSS-701">> :> <<1138, 1450, 1138, 32>>

NtruPrimeLengths ==
    <<"ntruprime", "ntrulpr", 653>> :> <<897, 1125, 1025, 32>>
    @@ <<"ntruprime", "ntrulpr", 761>> :> <<1039, 1294, 1167, 32>>
    @@ <<"ntruprime", "ntrulpr", 857>> :> <<1184, 1463, 1312, 32>>
    @@ <<"ntruprime", "sntrup", 653>> :> <<994, 1518, 897, 32>>
    @@ <<"ntruprime", "sntrup", 761>> :> <<1158, 1763, 1039, 32>>
    @@ <<"ntruprime", "sntrup", 857>> :> <<1322, 1999, 1184, 32>>

SaberLengths ==
    <<"Saber", "LightSaber">> :> <<672, 1568, 736, 32>>
    @@ <<"Saber", "Saber">> :> <<992, 2304, 1088, 32>>
    @@ <<"Saber", "FireSaber">> :> <<1312, 3040, 1472, 32>>

(* The public key, plain and compressed. *)
SidhPublicKey ==
    "plain" :> (434 :> 330 @@ 503 :> 378 @@ 610 :> 462 @@ 751 :> 564)
    @@ "compressed" :> (434 :> 197 @@ 503 :> 225 @@ 610 :> 274 @@ 751 :> 335)

(* The secret key and the shared secret, for both variants. *)
SidhSizes ==
    434 :> <<28, 110>> @@ 503 :> <<32, 126>> @@ 610 :> <<39, 154>>
    @@ 751 :> <<48, 188>>

(* Its ciphertext is a public key. *)
SidhLengths ==
    [n \in {"SIDH"} \X (DOMAIN SidhSizes) \X {"plain", "compressed"} |->
        LET pk == SidhPublicKey[n[3]][n[2]]
        IN  <<pk, SidhSizes[n[2]][1], pk, SidhSizes[n[2]][2]>>]

KemLengths ==
    BikeLengths @@ McElieceLengths @@ FrodoLengths @@ HqcLengths
    @@ KyberLengths @@ NtruLengths @@ NtruPrimeLengths @@ SaberLengths
    @@ SidhLengths

SigLengths ==
    DilithiumLengths @@ FalconLengths @@ RainbowLengths @@ HarakaLengths
    @@ Sha256Lengths @@ Shake256Lengths

-----------------------------------------------------------------------------
(* What liboqs answers, for the scheme at hand. *)

Sig == scheme = "sig"

Identifiers == IF Sig THEN SigIdentifiers ELSE KemIdentifiers

(* OQS_SIG_alg_count, OQS_KEM_alg_count. *)
alg_count == IF Sig THEN OQS_SIG_algs_length ELSE OQS_KEM_algs_length

Tables == [sig |-> SigNames, kem |-> KemNames]

Table == Tables[scheme]

(* OQS_SIG_alg_identifier, OQS_KEM_alg_identifier: the name, or NULL. *)
get_name(id) ==
    IF id \in 0 .. Len(Table) - 1 THEN Table[id + 1] ELSE <<"NULL">>

(* The name behind an alias. *)
Resolved(n) ==
    IF n # Default THEN n ELSE IF Sig THEN SigDefault ELSE KemDefault

(* OQS_SIG_alg_is_enabled, OQS_KEM_alg_is_enabled. *)
is_enabled(n) ==
    /\ Resolved(n) \in Identifiers
    /\ Resolved(n)[1] \in IF Sig THEN EnabledSigs ELSE EnabledKems

MechLengths == IF Sig THEN SigLengths ELSE KemLengths

-----------------------------------------------------------------------------
(* The Java side. *)

MechInit ==
    /\ scheme \in {"sig", "kem"}
    /\ i = 0
    /\ j = 0
    /\ supported = <<>>
    /\ enabled = <<>>
    /\ tried = [name |-> <<"NULL">>, outcome |-> "none"]

(* Slip: the last index is left out. *)
More_short == i < alg_count - 1

More == i < alg_count

(* An iteration of get_supported_sigs or get_supported_KEMs ... *)
get_supported ==
    /\ More
    /\ i' = i + 1
    /\ supported' = Append(supported, get_name(i))
    /\ UNCHANGED <<scheme, j, enabled, tried>>

(* ... and of get_enabled_sigs or get_enabled_KEMs, over that list.        *)
get_enabled ==
    /\ ~More
    /\ j < Len(supported)
    /\ j' = j + 1
    /\ enabled' = IF is_enabled(supported[j'])
                  THEN Append(enabled, supported[j'])
                  ELSE enabled
    /\ UNCHANGED <<scheme, i, supported, tried>>

Done == ~More /\ j = Len(supported)

(* is_sig_supported, is_KEM_supported: the list is built once more. *)
is_supported(n) == \E id \in 0 .. alg_count - 1 : get_name(id) = n

(* Slip: the two exceptions are exchanged. *)
OutcomeOf_exchanged(n) ==
    IF is_enabled(n) THEN "constructed"
    ELSE IF is_supported(n) THEN "not_supported" ELSE "not_enabled"

(* What the constructor does with a name. *)
OutcomeOf(n) ==
    IF is_enabled(n) THEN "constructed"
    ELSE IF is_supported(n) THEN "not_enabled" ELSE "not_supported"

Constructor(n) ==
    /\ Done
    /\ tried' = [name |-> n, outcome |-> OutcomeOf(n)]
    /\ UNCHANGED <<scheme, i, j, supported, enabled>>

MechNext ==
    \/ get_supported
    \/ get_enabled
    \/ \E n \in SigIdentifiers \cup KemIdentifiers \cup OtherNames :
            Constructor(n)

MechSpec == MechInit /\ [][MechNext]_mechVars

-----------------------------------------------------------------------------

Elements(s) == {s[k] : k \in DOMAIN s}

(* The two loops end with every name that the headers define and every one *)
(* that the build enables, each of them once, although the number of names *)
(* and the names come from different places.  The default is enabled.      *)
ListsComplete ==
    Done =>
        /\ Elements(supported) = Identifiers
        /\ Len(supported) = Cardinality(Identifiers)
        /\ Elements(enabled) = {n \in Identifiers : is_enabled(n)}
        /\ Len(enabled) = Cardinality(Elements(enabled))
        /\ Default \in Elements(enabled)

(* A constructor accepts exactly the names on the list of the enabled      *)
(* ones, and tells a name that is merely disabled from one it never heard  *)
(* of.                                                                     *)
ListsTellOutcome ==
    /\ tried.outcome = "constructed" <=> tried.name \in Elements(enabled)
    /\ tried.outcome = "not_enabled" <=>
            tried.name \in Elements(supported) \ Elements(enabled)

(* int of Java. *)
MaxInt == 2147483647

(* The algorithm that was constructed, the alias resolved. *)
Constructed == tried.outcome = "constructed"

Detail == MechLengths[Resolved(tried.name)]

(* What is constructed has lengths, which the casts to int preserve; and a *)
(* ciphertext and a secret key of the wrong family do not pass both tests  *)
(* of decap_secret, nor a public key and a signature those of verify: only *)
(* what differs in the variant of one parameter set is left to liboqs, or, *)
(* for verify, in the parameter set of one family.                         *)
GuardsTellFamilies ==
    Constructed =>
        /\ Resolved(tried.name) \in DOMAIN MechLengths
        /\ \A k \in DOMAIN Detail : Detail[k] \in 1 .. MaxInt
        /\ \A n \in DOMAIN MechLengths :
            /\ scheme = "kem" /\ MechLengths[n][2] = Detail[2]
                              /\ MechLengths[n][3] = Detail[3]
               => /\ n[1] = Resolved(tried.name)[1]
                  /\ n[2] = Resolved(tried.name)[2]
            /\ scheme = "sig" /\ MechLengths[n][1] = Detail[1]
               => n[1] = Resolved(tried.name)[1]
=============================================================================
