------------------------------- MODULE OqsKem -------------------------------
(***************************************************************************)
(* com.example.liboqs.KeyEncapsulation with its native part: the objects   *)
(* of OqsObjects, and the calls that encapsulate and decapsulate a secret. *)
(* A ciphertext travels by whatever means the callers have: it may come    *)
(* late, again, to another object or after the process was started again.  *)
(* The algorithms are assumed correct: whoever has the secret key gets the *)
(* secret, everybody else another one or an error.                         *)
(***************************************************************************)
EXTENDS OqsObjects

CONSTANTS
    Secrets,    \* secrets that liboqs may draw
    Rejected,   \* a secret that nobody else has
    NoAnswer    \* the last call returned no secret

VARIABLES
    sent,       \* the ciphertexts that encap_secret has returned
    answer      \* what the last decap_secret returned, and for what

vars == <<objects, sent, answer>>

(* What callers pass for a public key; Junk is an array that holds none. *)
PublicKeys == Keys \cup {Junk}

Ciphertexts == [alg : Algorithms, under : PublicKeys, secret : Secrets]

Answers == [of : Objects, ciphertext : Ciphertexts,
            secret : Secrets \cup {Rejected}]

ASSUME AnswerAssumption == Rejected \notin Secrets /\ NoAnswer \notin Answers

ASSUME PairAssumption ==
    NoObject \notin [alg : Algorithms, key : PublicKeys]

Init == InitObjects /\ sent = {} /\ answer = NoAnswer

Quietly == UNCHANGED sent /\ answer' = NoAnswer

-----------------------------------------------------------------------------
(* Creation and disposal. *)

(* The lengths in the details of an object. *)
get_KEM_details(r) == Lengths[r.alg]

create_KEM_new(o, a) ==
    /\ \/ Construct(o, a, Blank, get_KEM_details([alg |-> a])["secret_key"])
       \/ \E k \in Given, l \in KeyLengths : Construct(o, a, k, l)
    /\ Quietly

create_KEM_new_again(o, a) == CreateAgain(o, a) /\ Quietly

generate_keypair(o) == GenerateKeypair(o) /\ Quietly

dispose_KEM(o) == Dispose(o) /\ Quietly

drop(o) == Drop(o) /\ Quietly

restart == Restart /\ Quietly

-----------------------------------------------------------------------------
(* Encapsulation. *)

EncapArrays(r, l) == [public_key |-> l, output |-> get_KEM_details(r)["output"]]

(* The ciphertext and the secret are copied back and their copies kept,    *)
(* the public key is released.                                             *)
KeptOutput == \E copied \in BOOLEAN :
    remaining' = remaining \cup InNative("output", "JNI_COMMIT", copied)

(* Slip: the length of the public key is not tested. *)
PublicKeyFits_any(r, l) == TRUE

PublicKeyFits(r, l) == l = get_KEM_details(r)["public_key"]

(* A secret that no other ciphertext has. *)
NewSecrets == {s \in Secrets : \A c \in sent : c.secret # s}

(* OQS_KEM_encaps succeeded; liboqs refuses NULL. *)
EncapReturns(r, pk) ==
    /\ getHandle(r) # NULL
    /\ \E s \in NewSecrets :
        sent' = sent \cup
            {[alg |-> native[getHandle(r)], under |-> pk, secret |-> s]}

(* A secret is encapsulated under pk, in an array of length l. *)
encap_secret(o, pk, l) ==
    LET r == obj[o] IN
    /\ Calls(o)
    /\ answer' = NoAnswer
    /\ broken' = broken \cup Breaks("disposeLast", r.disposed)
    /\ \/ /\ ~PublicKeyFits(r, l)
          /\ UNCHANGED <<native, obj, remaining, fault, sent>>
       \/ PublicKeyFits(r, l) /\ Misuses(r, EncapArrays(r, l)) /\ UNCHANGED sent
       \/ /\ PublicKeyFits(r, l) /\ Sound(r, EncapArrays(r, l))
          /\ KeptOutput
          /\ EncapReturns(r, pk) \/ UNCHANGED sent
          /\ UNCHANGED <<native, obj, fault>>

-----------------------------------------------------------------------------
(* Decapsulation. *)

DecapArrays(r) == [secret_key |-> r.length,
                   output |-> get_KEM_details(r)["output"]]

(* The lengths of the ciphertext and of the secret key. *)
DecapFits(r, c) ==
    /\ Lengths[c.alg]["output"] = get_KEM_details(r)["output"]
    /\ r.length = get_KEM_details(r)["secret_key"]

DecapKeyMode == "JNI_ABORT"

(* What OQS_KEM_decaps yields when it succeeds. *)
OQS_KEM_decaps(r, c) ==
    IF c.alg = native[getHandle(r)] /\ c.under = r.secret_key
       /\ c.under \in Keys
    THEN c.secret
    ELSE Rejected

(* Slip: the public key is passed to C in place of the secret key. *)
DecapReturns_publicKey(o, c) ==
    /\ getHandle(obj[o]) # NULL
    /\ answer' = [of |-> o, ciphertext |-> c,
                  secret |-> OQS_KEM_decaps([obj[o] EXCEPT !.secret_key =
                                                obj[o].public_key], c)]

DecapReturns(o, c) ==
    /\ getHandle(obj[o]) # NULL
    /\ answer' = [of |-> o, ciphertext |-> c,
                  secret |-> OQS_KEM_decaps(obj[o], c)]

decap_secret(o, c) ==
    LET r == obj[o] IN
    /\ Calls(o)
    /\ UNCHANGED sent
    /\ broken' = broken \cup Breaks("disposeLast", r.disposed)
    /\ \/ /\ ~DecapFits(r, c)
          /\ answer' = NoAnswer
          /\ UNCHANGED <<native, obj, remaining, fault>>
       \/ /\ DecapFits(r, c) /\ Misuses(r, DecapArrays(r))
          /\ answer' = NoAnswer
       \/ /\ DecapFits(r, c) /\ Sound(r, DecapArrays(r))
          /\ \E copied, skCopied \in BOOLEAN :
                remaining' = remaining
                    \cup InNative("output", "JNI_COMMIT", copied)
                    \cup InNative(r.secret_key, DecapKeyMode, skCopied)
          /\ DecapReturns(o, c) \/ answer' = NoAnswer
          /\ UNCHANGED <<native, obj, fault>>

-----------------------------------------------------------------------------

(* What callers pass for a public key may have any length. *)
PublicLengths ==
    KeyLengths \cup {Lengths[a]["public_key"] : a \in Algorithms}

Next ==
    \/ restart
    \/ \E o \in Objects :
        \/ \E a \in Algorithms :
                create_KEM_new(o, a) \/ create_KEM_new_again(o, a)
        \/ generate_keypair(o)
        \/ \E pk \in PublicKeys, l \in PublicLengths : encap_secret(o, pk, l)
        \/ \E c \in sent : decap_secret(o, c)
        \/ dispose_KEM(o)
        \/ drop(o)

Spec == Init /\ [][Next]_vars

-----------------------------------------------------------------------------

TypeOK ==
    /\ ObjectsTypeOK
    /\ sent \subseteq Ciphertexts
    /\ answer \in Answers \cup {NoAnswer}

(* As long as the callers keep the rules, an object whose last             *)
(* generate_keypair returned normally opens every ciphertext that was made *)
(* under the public key that it exports, however late it comes and         *)
(* whatever failed in between, and no other: the secrets of both sides     *)
(* coincide.                                                               *)
SecretsCoincide ==
    broken = {} => \A c \in sent, o \in Live :
        /\ obj[o].key_from = "generated"
        /\ getHandle(obj[o]) # NULL
        /\ c.alg = obj[o].alg
        => /\ DecapFits(obj[o], c)
           /\ OQS_KEM_decaps(obj[o], c) =
                IF c.under = obj[o].public_key THEN c.secret ELSE Rejected

(* As long as nobody uses a disposed object, or changes the algorithm of   *)
(* one, a caller sees what KemContract promises.                           *)
Kept == broken \cap {"disposeLast", "ownAlgorithm"} = {}

HasPair(o) ==
    /\ Kept
    /\ obj[o] # NoObject
    /\ getHandle(obj[o]) # NULL
    /\ obj[o].secret_key \in Keys

Contract == INSTANCE KemContract WITH
    NoPair <- NoObject,
    pair <- [o \in Objects |->
                IF HasPair(o)
                THEN [alg |-> obj[o].alg, key |-> obj[o].secret_key]
                ELSE NoObject],
    answer <- IF Kept THEN answer ELSE NoAnswer

ContractSpec == Contract!Spec
=============================================================================
