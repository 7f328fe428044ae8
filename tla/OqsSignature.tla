---------------------------- MODULE OqsSignature ----------------------------
(***************************************************************************)
(* com.example.liboqs.Signature with its native part: the objects of       *)
(* OqsObjects, and the calls to sign and to verify.  A key pair stands for *)
(* the contents of both arrays.  The algorithms are assumed correct:       *)
(* verify accepts what the same algorithm made with the secret key of that *)
(* public key, over that message.                                          *)
(***************************************************************************)
EXTENDS OqsObjects

CONSTANTS
    Data,       \* messages
    NoAnswer    \* the last call returned nothing of interest

VARIABLES
    answer,     \* the object and the signature, when the last call returned one
    unkeyed     \* history: a sign has returned when no key was given or generated

vars == <<objects, answer, unkeyed>>

Signatures == [by : KeyContents, alg : Algorithms, over : Data]

SignAnswer == [of : Objects, signature : Signatures]

ASSUME AnswerAssumption == NoAnswer \notin SignAnswer

ASSUME PairAssumption == NoObject \notin [alg : Algorithms, key : Keys]

Init == InitObjects /\ answer = NoAnswer /\ unkeyed = FALSE

-----------------------------------------------------------------------------
(* Creation and disposal. *)

(* The lengths in the details of an object. *)
get_sig_details(r) == Lengths[r.alg]

create_sig_new(o, a) ==
    /\ \/ Construct(o, a, Blank, get_sig_details([alg |-> a])["secret_key"])
       \/ \E k \in Given, l \in KeyLengths : Construct(o, a, k, l)
    /\ answer' = NoAnswer
    /\ UNCHANGED unkeyed

create_sig_new_again(o, a) ==
    CreateAgain(o, a) /\ answer' = NoAnswer /\ UNCHANGED unkeyed

generate_keypair(o) ==
    GenerateKeypair(o) /\ answer' = NoAnswer /\ UNCHANGED unkeyed

dispose_sig(o) == Dispose(o) /\ answer' = NoAnswer /\ UNCHANGED unkeyed

drop(o) == Drop(o) /\ answer' = NoAnswer /\ UNCHANGED unkeyed

restart == Restart /\ answer' = NoAnswer /\ unkeyed' = FALSE

-----------------------------------------------------------------------------
(* Signing. *)

(* Slip: any secret key will do. *)
SecretKeyFits_any(r) == TRUE

SecretKeyFits(r) == r.length = get_sig_details(r)["secret_key"]

(* Slip: the public key is compared instead. *)
Signed_public(r, d) ==
    [by |-> r.public_key, alg |-> native[getHandle(r)], over |-> d]

Signed(r, d) ==
    [by |-> r.secret_key, alg |-> native[getHandle(r)], over |-> d]

(* Slip: the secret key is released as the signature is. *)
SecretKeyMode_commit == "JNI_COMMIT"

SecretKeyMode == "JNI_ABORT"

SignatureMode == "JNI_COMMIT"

(* sign, when its native part is sound: the arrays are released, and a     *)
(* signature is returned if liboqs succeeded.                              *)
ReleaseAfterSign(r) ==
    \E copied, skCopied \in BOOLEAN :
        remaining' = remaining
            \cup InNative(r.secret_key, SecretKeyMode, skCopied)
            \cup InNative("output", SignatureMode, copied)

SignArrays(r) == [secret_key |-> r.length,
                  output |-> get_sig_details(r)["output"]]

(* An exception, before anything native is called. *)
Throws == answer' = NoAnswer /\ UNCHANGED <<native, obj, remaining, fault>>

Succeeds(o, d) ==
    /\ getHandle(obj[o]) # NULL
    /\ answer' = [of |-> o, signature |-> Signed(obj[o], d)]
    /\ unkeyed' = (unkeyed \/ obj[o].key_from \in {"none", "failed"})
    /\ UNCHANGED fault

(* When liboqs fails, the length of the signature is whatever was on the   *)
(* stack: within the array, Java throws as it should; beyond it, an        *)
(* exception is pending while further JNI calls are made, which ends the   *)
(* process where JNI is checked.                                           *)
SignFails ==
    /\ fault' \in {"none", "abort"}
    /\ answer' = NoAnswer
    /\ UNCHANGED unkeyed

sign(o, d) ==
    LET r == obj[o] IN
    /\ Calls(o)
    /\ broken' = broken \cup Breaks("disposeLast", r.disposed)
    /\ \/ ~SecretKeyFits(r) /\ Throws /\ UNCHANGED unkeyed
       \/ /\ SecretKeyFits(r) /\ Misuses(r, SignArrays(r))
          /\ answer' = NoAnswer /\ UNCHANGED unkeyed
       \/ /\ SecretKeyFits(r) /\ Sound(r, SignArrays(r))
          /\ ReleaseAfterSign(r)
          /\ Succeeds(o, d) \/ SignFails
          /\ UNCHANGED <<native, obj>>

-----------------------------------------------------------------------------
(* Verification. *)

(* The lengths of a signature by a, and of the public key, suit the object. *)
ArgumentsFit(r, a, l) ==
    /\ l = get_sig_details(r)["public_key"]
    /\ Lengths[a]["output"] <= get_sig_details(r)["output"]

(* OQS_SIG_verify; liboqs refuses NULL. *)
Accepts(r, s, pk) ==
    /\ getHandle(r) # NULL
    /\ s.alg = native[getHandle(r)]
    /\ s.by = pk

(* A signature by algorithm a is verified with a public key in an array of *)
(* length l.                                                               *)
(* All arrays are released with JNI_ABORT, and none was written to; the     *)
(* result, Accepts, is of no consequence to the object.                    *)
verify(o, a, l) ==
    LET r == obj[o] IN
    /\ Calls(o)
    /\ broken' = broken \cup Breaks("disposeLast", r.disposed)
    /\ \/ ~ArgumentsFit(r, a, l) /\ Throws
       \/ /\ ArgumentsFit(r, a, l) /\ Misuses(r, [public_key |-> l])
       \/ /\ ArgumentsFit(r, a, l) /\ Sound(r, [public_key |-> l])
          /\ UNCHANGED <<native, obj, remaining, fault>>
    /\ answer' = NoAnswer
    /\ UNCHANGED unkeyed

-----------------------------------------------------------------------------

(* What callers pass for a public key may have any length. *)
PublicLengths ==
    KeyLengths \cup {Lengths[a]["public_key"] : a \in Algorithms}

Next ==
    \/ restart
    \/ \E o \in Objects :
        \/ \E a \in Algorithms :
                create_sig_new(o, a) \/ create_sig_new_again(o, a)
        \/ generate_keypair(o)
        \/ \E d \in Data : sign(o, d)
        \/ \E a \in Algorithms, l \in PublicLengths : verify(o, a, l)
        \/ dispose_sig(o)
        \/ drop(o)

Spec == Init /\ [][Next]_vars

-----------------------------------------------------------------------------

TypeOK ==
    /\ ObjectsTypeOK
    /\ answer \in SignAnswer \cup {NoAnswer}
    /\ unkeyed \in BOOLEAN

(* What sign returns is accepted by every object of that algorithm, with   *)
(* the public key that the signing object exports and with no other, when  *)
(* its last generate_keypair returned normally: whatever happened to it    *)
(* and to the other objects before, failures included.                     *)
SignedVerifies ==
    /\ answer \in SignAnswer
    /\ obj[answer.of].key_from = "generated"
    /\ broken \cap {"disposeLast", "ownAlgorithm"} = {}
    => \A v \in Live :
        getHandle(obj[v]) # NULL /\ obj[v].alg = obj[answer.of].alg =>
            /\ ArgumentsFit(obj[v], answer.signature.alg,
                            Lengths[obj[answer.of].alg]["public_key"])
            /\ \A pk \in Keys :
                    Accepts(obj[v], answer.signature, pk)
                        <=> pk = obj[answer.of].public_key

(* Signing without a key throws, and tells the caller to specify one in    *)
(* the constructor or to run generate_keypair.                             *)
SignNeedsKey == ~unkeyed

(* As long as nobody uses a disposed object, changes the algorithm of one  *)
(* or signs without a key, a caller sees what SignatureContract promises.  *)
(* The pair of an object is in its secret key array.                       *)
Kept == broken \cap {"disposeLast", "ownAlgorithm"} = {} /\ ~unkeyed

HasPair(o) ==
    /\ Kept
    /\ obj[o] # NoObject
    /\ getHandle(obj[o]) # NULL
    /\ obj[o].key_from \in {"given", "generated"}

Contract == INSTANCE SignatureContract WITH
    NoPair <- NoObject,
    pair <- [o \in Objects |->
                IF HasPair(o)
                THEN [alg |-> obj[o].alg, key |-> obj[o].secret_key]
                ELSE NoObject],
    answer <- IF Kept THEN answer ELSE NoAnswer

ContractSpec == Contract!Spec
=============================================================================
