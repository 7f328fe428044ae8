------------------------- MODULE OqsSignatureProofs -------------------------
(***************************************************************************)
(* Proofs about OqsSignature, for any number of objects, addresses, keys   *)
(* and algorithms.                                                         *)
(***************************************************************************)
EXTENDS OqsSignature, OqsObjectsProofs

IInv == ObjectsInv /\ TypeOK /\ SignedVerifies

-----------------------------------------------------------------------------
(* sign. *)

(* What the last conjuncts of sign say of an outcome in which the native   *)
(* part was sound.                                                         *)
SignOutcome(o, d) ==
    /\ SecretKeyFits(obj[o]) /\ Sound(obj[o], SignArrays(obj[o]))
    /\ ReleaseAfterSign(obj[o])
    /\ Succeeds(o, d) \/ SignFails
    /\ UNCHANGED <<native, obj>>

(* However sign ends, the objects stay, and only the signature is left in  *)
(* native memory: the secret key is released with JNI_ABORT.               *)
LEMMA SignKeeps ==
    ASSUME ObjectsInv, NEW o \in Objects, NEW d \in Data, sign(o, d)
    PROVE  /\ UNCHANGED <<native, obj>>
           /\ remaining' \subseteq remaining \cup {"output"}
           /\ obj[o] # NoObject
           /\ broken \subseteq broken' /\ broken' \subseteq Rules
           /\ obj[o].disposed => "disposeLast" \in broken'
           /\ fault' \in {"none", "freed", "overrun", "abort"}
           /\ fault' = "freed" => "disposeLast" \in broken'
           /\ fault' = "overrun" => broken' # {}
           /\ \/ answer' = NoAnswer /\ UNCHANGED unkeyed
              \/ SignOutcome(o, d) /\ Succeeds(o, d)
<1> DEFINE r == obj[o]
<1>1. /\ r # NoObject /\ fault = "none"
      /\ broken \subseteq broken' /\ broken' \subseteq Rules
      /\ r.disposed => "disposeLast" \in broken'
  BY DEF sign, Calls, Breaks, ObjectsInv, ObjectsTypeOK, Rules
<1>2. r \in JavaObject
  BY <1>1, ObjectTyped DEF ObjectsInv
<1>3. CASE ~SecretKeyFits(r) /\ Throws /\ UNCHANGED unkeyed
  BY <1>1, <1>3 DEF Throws
<1>4. CASE /\ SecretKeyFits(r) /\ Misuses(r, SignArrays(r))
           /\ answer' = NoAnswer /\ UNCHANGED unkeyed
  <2>1. \A x \in DOMAIN SignArrays(r) :
            ~ (Lengths[r.alg][x] > SignArrays(r)[x])
    BY <1>2, <1>4, LengthsAssumption
       DEF SignArrays, SecretKeyFits, get_sig_details, JavaObject, Arrays
  <2>2. /\ fault' \in {"freed", "overrun"}
        /\ fault' = "freed" => "disposeLast" \in broken'
        /\ fault' = "overrun" => broken' # {}
    BY <1>1, <1>4, <2>1, MisuseExplained
  <2> QED
    BY <1>1, <1>4, <2>2 DEF Misuses
<1>5. CASE SignOutcome(o, d)
  <2>1. remaining' \subseteq remaining \cup {"output"}
    BY <1>5 DEF SignOutcome, ReleaseAfterSign, InNative, SecretKeyMode,
                SignatureMode
  <2>2. fault' \in {"none", "abort"}
    BY <1>1, <1>5 DEF SignOutcome, Succeeds, SignFails
  <2>3. (answer' = NoAnswer /\ UNCHANGED unkeyed) \/ Succeeds(o, d)
    BY <1>5 DEF SignOutcome, SignFails
  <2> QED
    BY <1>1, <1>5, <2>1, <2>2, <2>3 DEF SignOutcome
<1> QED
  BY <1>3, <1>4, <1>5 DEF sign, SignOutcome

(* The answer is typed: the object that signed had an algorithm.           *)
LEMMA AnswerTyped ==
    ASSUME ObjectsInv, NEW o \in Objects, NEW d \in Data, obj[o] # NoObject,
           SignOutcome(o, d), Succeeds(o, d)
    PROVE  answer' \in SignAnswer
<1>1. obj[o] \in JavaObject
  BY ObjectTyped DEF ObjectsInv
<1>2. getHandle(obj[o]) \in Addresses
  BY <1>1 DEF Succeeds, getHandle, JavaObject
<1>3. native[getHandle(obj[o])] \in Algorithms
  BY <1>2 DEF SignOutcome, Sound, Dangling, Succeeds, ObjectsInv, ObjectsTypeOK
<1>4. Signed(obj[o], d) \in Signatures
  BY <1>1, <1>3 DEF Signed, Signatures, JavaObject
<1> QED
  BY <1>4 DEF Succeeds, SignAnswer

(* A signature that is returned verifies with the public key that the      *)
(* object exports, and with no other.                                      *)
LEMMA SignVerifies ==
    ASSUME ObjectsInv, NEW o \in Objects, NEW d \in Data, obj[o] # NoObject,
           Succeeds(o, d), UNCHANGED <<native, obj>>,
           broken \subseteq broken',
           obj[o].disposed => "disposeLast" \in broken'
    PROVE  SignedVerifies'
<1> SUFFICES ASSUME obj[o].key_from = "generated",
                    broken' \cap {"disposeLast", "ownAlgorithm"} = {},
                    NEW v \in Live, getHandle(obj[v]) # NULL,
                    obj[v].alg = obj[o].alg
             PROVE  /\ ArgumentsFit(obj[v], Signed(obj[o], d).alg,
                                    Lengths[obj[o].alg]["public_key"])
                    /\ \A pk \in Keys : Accepts(obj[v], Signed(obj[o], d), pk)
                                            <=> pk = obj[o].public_key
  <2>1. answer'.of = o /\ answer'.signature = Signed(obj[o], d)
    BY DEF Succeeds
  <2> QED
    BY <2>1 DEF SignedVerifies, Live, ArgumentsFit, Accepts
<1>1. o \in Live /\ getHandle(obj[o]) # NULL
  BY DEF Live, Succeeds
<1>2. native[getHandle(obj[o])] = obj[o].alg
      /\ native[getHandle(obj[v])] = obj[o].alg
  BY <1>1 DEF ObjectsInv, HandleValid
<1>3. obj[o].public_key = obj[o].secret_key
  BY DEF ObjectsInv, PairInBoth
<1>4. Signed(obj[o], d).alg = obj[o].alg
      /\ Signed(obj[o], d).by = obj[o].secret_key
  BY <1>2 DEF Signed
<1>5. Lengths[obj[o].alg]["output"] \in Nat
  <2>1. obj[o].alg \in Algorithms
    BY ObjectTyped DEF ObjectsInv, JavaObject
  <2> QED
    BY <2>1, LengthsAssumption DEF Arrays
<1>6. ArgumentsFit(obj[v], Signed(obj[o], d).alg,
                   Lengths[obj[o].alg]["public_key"])
  BY <1>4, <1>5 DEF ArgumentsFit, get_sig_details
<1> QED
  BY <1>2, <1>3, <1>4, <1>6 DEF Accepts

LEMMA SignInv ==
    ASSUME IInv, NEW o \in Objects, NEW d \in Data, sign(o, d)
    PROVE  IInv'
<1> USE DEF IInv
<1>1. ObjectsInv'
  BY SignKeeps, CallInv DEF ObjectsInv, ObjectsTypeOK
<1>2. CASE answer' = NoAnswer /\ UNCHANGED unkeyed
  BY <1>1, <1>2, AnswerAssumption DEF TypeOK, SignedVerifies, ObjectsInv
<1>3. CASE SignOutcome(o, d) /\ Succeeds(o, d)
  <2>1. answer' \in SignAnswer
    BY <1>3, SignKeeps, AnswerTyped
  <2>2. unkeyed' \in BOOLEAN
    BY <1>3 DEF Succeeds
  <2>3. SignedVerifies'
    BY <1>3, SignKeeps, SignVerifies
  <2> QED
    BY <1>1, <2>1, <2>2, <2>3 DEF TypeOK, ObjectsInv
<1> QED
  BY <1>2, <1>3, SignKeeps

-----------------------------------------------------------------------------
(* verify, and the operations of OqsObjects. *)

LEMMA VerifyKeeps ==
    ASSUME ObjectsInv, NEW o \in Objects, NEW a \in Algorithms,
           NEW l, verify(o, a, l)
    PROVE  /\ UNCHANGED <<native, obj, remaining>>
           /\ broken \subseteq broken'
           /\ ObjectsInv'
<1> DEFINE r == obj[o]
<1>1. /\ r # NoObject /\ fault = "none"
      /\ broken \subseteq broken' /\ broken' \subseteq Rules
      /\ r.disposed => "disposeLast" \in broken'
  BY DEF verify, Calls, Breaks, ObjectsInv, ObjectsTypeOK, Rules
<1>2. r \in JavaObject
  BY <1>1, ObjectTyped DEF ObjectsInv
<1>3. CASE ArgumentsFit(r, a, l) /\ Misuses(r, [public_key |-> l])
  <2>1. \A x \in DOMAIN [public_key |-> l] :
            ~ (Lengths[r.alg][x] > [public_key |-> l][x])
    BY <1>2, <1>3, LengthsAssumption
       DEF ArgumentsFit, get_sig_details, JavaObject, Arrays
  <2>2. /\ fault' \in {"freed", "overrun"}
        /\ fault' = "freed" => "disposeLast" \in broken'
        /\ fault' = "overrun" => broken' # {}
    BY <1>1, <1>3, <2>1, MisuseExplained
  <2> QED
    BY <1>1, <1>3, <2>2, CallInv DEF Misuses, ObjectsInv, ObjectsTypeOK
<1>4. CASE UNCHANGED <<native, obj, remaining, fault>>
  BY <1>1, <1>4, CallInv DEF ObjectsInv, ObjectsTypeOK
<1> QED
  BY <1>3, <1>4 DEF verify, Throws

(* Each of them returns no signature. *)
LEMMA QuietInv ==
    ASSUME IInv, ObjectsInv', answer' = NoAnswer, unkeyed' \in {unkeyed, FALSE}
    PROVE  IInv'
BY AnswerAssumption DEF IInv, TypeOK, SignedVerifies, ObjectsInv

LEMMA CreateInv ==
    ASSUME ObjectsInv, NEW o \in Objects, NEW a \in Algorithms,
           create_sig_new(o, a)
    PROVE  ObjectsInv'
<1>1. Lengths[a]["secret_key"] \in Nat
  BY LengthsAssumption DEF Arrays
<1>2. CASE Construct(o, a, Blank, get_sig_details([alg |-> a])["secret_key"])
  BY <1>1, <1>2, ConstructInv DEF get_sig_details
<1>3. ASSUME NEW k \in Given, NEW l \in KeyLengths, Construct(o, a, k, l)
      PROVE  ObjectsInv'
  BY <1>3, ConstructInv, KeyLengthsAssumption DEF Keys
<1> QED
  BY <1>2, <1>3 DEF create_sig_new

-----------------------------------------------------------------------------
(* The invariant. *)

LEMMA InitInv == Init => IInv
BY InitObjectsInv, AnswerAssumption
   DEF Init, IInv, TypeOK, SignedVerifies, ObjectsInv

LEMMA NextInv == IInv /\ [Next]_vars => IInv'
<1> SUFFICES ASSUME IInv, [Next]_vars
             PROVE  IInv'
  OBVIOUS
<1> USE DEF IInv
<1>1. CASE restart
  BY <1>1, RestartInv, QuietInv DEF restart
<1>2. ASSUME NEW o \in Objects, NEW a \in Algorithms, create_sig_new(o, a)
      PROVE  IInv'
  BY <1>2, CreateInv, QuietInv DEF create_sig_new
<1>3. ASSUME NEW o \in Objects, NEW a \in Algorithms, create_sig_new_again(o, a)
      PROVE  IInv'
  BY <1>3, CreateAgainInv, QuietInv DEF create_sig_new_again
<1>4. ASSUME NEW o \in Objects, generate_keypair(o)
      PROVE  IInv'
  BY <1>4, GenerateInv, QuietInv DEF generate_keypair
<1>5. ASSUME NEW o \in Objects, NEW d \in Data, sign(o, d)
      PROVE  IInv'
  BY <1>5, SignInv
<1>6. ASSUME NEW o \in Objects, NEW a \in Algorithms, NEW l \in PublicLengths,
             verify(o, a, l)
      PROVE  IInv'
  BY <1>6, VerifyKeeps, QuietInv DEF verify
<1>7. ASSUME NEW o \in Objects, dispose_sig(o)
      PROVE  IInv'
  BY <1>7, DisposeInv, QuietInv DEF dispose_sig
<1>8. ASSUME NEW o \in Objects, drop(o)
      PROVE  IInv'
  BY <1>8, DropInv, QuietInv DEF drop
<1>9. CASE UNCHANGED vars
  BY <1>9 DEF vars, objects, ObjectsInv, ObjectsTypeOK, HandleValid, Live,
              NoWildAccess, PairInBoth, TypeOK, SignedVerifies, ArgumentsFit,
              Accepts, getHandle, get_sig_details
<1> QED
  BY <1>1, <1>2, <1>3, <1>4, <1>5, <1>6, <1>7, <1>8, <1>9 DEF Next

LEMMA Invariance == Spec => []IInv
BY InitInv, NextInv, PTL DEF Spec

-----------------------------------------------------------------------------

(* Type correctness. *)
THEOREM TypeCorrect == Spec => []TypeOK
<1>1. IInv => TypeOK
  BY DEF IInv
<1> QED
  BY <1>1, Invariance, PTL

(* As long as nobody uses a disposed object, handles lead to distinct      *)
(* objects of the right algorithm.  (Signature.java, handle.c)             *)
THEOREM HandlesValid == Spec => []HandleValid
<1>1. IInv => HandleValid
  BY DEF IInv, ObjectsInv
<1> QED
  BY <1>1, Invariance, PTL

(* Memory is misused only by callers that broke a rule.                    *)
THEOREM NoneWild == Spec => []NoWildAccess
<1>1. IInv => NoWildAccess
  BY DEF IInv, ObjectsInv
<1> QED
  BY <1>1, Invariance, PTL

(* What sign returns verifies with the key that the object exports and     *)
(* with no other.                                                          *)
THEOREM SignedIsVerifiable == Spec => []SignedVerifies
<1>1. IInv => SignedVerifies
  BY DEF IInv
<1> QED
  BY <1>1, Invariance, PTL

(* Only generate_keypair leaves a secret key in native memory: its own.    *)
THEOREM OnlyGenerationLeavesKeys == Spec => SecretsReleased
<1>1. ASSUME IInv, [Next]_vars
      PROVE  [KeysReleased]_objects
  <2>1. CASE UNCHANGED vars
    BY <2>1 DEF vars
  <2>2. ASSUME NEW o \in Objects, generate_keypair(o)
        PROVE  KeysReleased
    BY <1>1, <2>2, GenerateReleases DEF generate_keypair, IInv
  <2>3. ASSUME NEW o \in Objects, NEW d \in Data, sign(o, d)
        PROVE  KeysReleased
    BY <1>1, <2>3, SignKeeps, OthersRelease DEF IInv
  <2>4. ASSUME NEW o \in Objects, NEW a \in Algorithms,
               NEW l \in PublicLengths, verify(o, a, l)
        PROVE  KeysReleased
    <3>1. UNCHANGED remaining
      BY <1>1, <2>4, VerifyKeeps DEF IInv
    <3> QED
      BY <3>1, OthersRelease
  <2>5. ASSUME NEW o \in Objects, NEW a \in Algorithms,
               create_sig_new(o, a) \/ create_sig_new_again(o, a)
        PROVE  KeysReleased
    BY <2>5, OthersRelease
       DEF create_sig_new, create_sig_new_again, Construct, CreateAgain
  <2>6. ASSUME NEW o \in Objects, dispose_sig(o) \/ drop(o)
        PROVE  KeysReleased
    BY <2>6, OthersRelease DEF dispose_sig, drop, Dispose, Drop, Misuses
  <2>7. CASE restart
    BY <2>7, OthersRelease DEF restart, Restart
  <2> QED
    BY <1>1, <2>1, <2>2, <2>3, <2>4, <2>5, <2>6, <2>7 DEF Next
<1> QED
  BY <1>1, Invariance, PTL DEF Spec, SecretsReleased

-----------------------------------------------------------------------------
(* The refinement.  A step maps to what it does to the pair of one object, *)
(* to a signature, or to LoseAll when a rule is broken.                    *)

PairMap == [o \in Objects |->
                IF HasPair(o)
                THEN [alg |-> obj[o].alg, key |-> obj[o].secret_key]
                ELSE NoObject]

AnswerMap == IF Kept THEN answer ELSE NoAnswer

LEMMA MapsInit == Init => Contract!Init
BY DEF Init, InitObjects, Contract!Init, HasPair

LEMMA MapsBroken ==
    ASSUME ~Kept'
    PROVE  Contract!LoseAll
BY DEF Contract!LoseAll, HasPair

(* A call that changes one object at most, and returns no signature.       *)
LEMMA MapsOneObject ==
    ASSUME ObjectsInv', Kept, Kept', NEW o \in Objects,
           \A q \in Objects \ {o} : obj'[q] = obj[q], answer' = NoAnswer
    PROVE  Contract!Next
<1>1. PairMap' = [PairMap EXCEPT ![o] = PairMap'[o]]
  BY DEF PairMap, HasPair
<1>2. AnswerMap' = NoAnswer
  BY DEF AnswerMap
<1>3. Contract!Obtain(o, PairMap'[o])
  BY <1>1, <1>2 DEF Contract!Obtain, PairMap, AnswerMap
<1>4. CASE PairMap'[o] = NoObject
  BY <1>3, <1>4 DEF Contract!Next, Contract!Lose, Contract!Obtain
<1>5. CASE PairMap'[o] # NoObject
  <2>1. /\ PairMap'[o] = [alg |-> obj'[o].alg, key |-> obj'[o].secret_key]
        /\ obj'[o] # NoObject
        /\ obj'[o].key_from \in {"given", "generated"}
    BY <1>5 DEF PairMap, HasPair
  <2>2. obj'[o] \in JavaObject
    BY <2>1 DEF ObjectsInv, ObjectsTypeOK
  <2>3. obj'[o].secret_key \in Keys
    BY <2>1 DEF ObjectsInv, PairInBoth
  <2>4. PairMap'[o] \in Contract!Pairs
    BY <2>1, <2>2, <2>3 DEF Contract!Pairs, JavaObject
  <2> QED
    BY <1>3, <2>4 DEF Contract!Next, Contract!Obtain
<1> QED
  BY <1>4, <1>5

(* A signature is by the pair that the object has.                         *)
LEMMA MapsSign ==
    ASSUME ObjectsInv, Kept, Kept', NEW o \in Objects, NEW d \in Data,
           obj[o] # NoObject, Succeeds(o, d), UNCHANGED <<native, obj>>,
           obj[o].disposed => "disposeLast" \in broken'
    PROVE  Contract!Sign(o, d)
<1>1. obj[o].key_from \in {"given", "generated"}
  <2>1. obj[o] \in JavaObject
    BY ObjectTyped DEF ObjectsInv
  <2> QED
    BY <2>1 DEF Succeeds, Kept, JavaObject, Sources
<1>2. HasPair(o)
  BY <1>1 DEF HasPair, Succeeds
<1>3. native[getHandle(obj[o])] = obj[o].alg
  BY DEF Succeeds, Kept, ObjectsInv, HandleValid, Live
<1>4. PairMap[o] = [alg |-> obj[o].alg, key |-> obj[o].secret_key]
  BY <1>2 DEF PairMap
<1>5. PairMap[o] # NoObject
  <2>1. obj[o].alg \in Algorithms /\ obj[o].secret_key \in Keys
    BY <1>1, ObjectTyped DEF ObjectsInv, PairInBoth, JavaObject
  <2> QED
    BY <1>4, <2>1, PairAssumption
<1>6. PairMap' = PairMap
  BY DEF PairMap, HasPair
<1>7. AnswerMap' = [of |-> o,
                    signature |-> [by |-> PairMap[o].key,
                                   alg |-> PairMap[o].alg, over |-> d]]
  BY <1>3, <1>4 DEF AnswerMap, Succeeds, Signed
<1> QED
  BY <1>5, <1>6, <1>7 DEF Contract!Sign, PairMap, AnswerMap

LEMMA NextMaps ==
    ASSUME IInv, IInv', [Next]_vars
    PROVE  [Contract!Next]_<<PairMap, AnswerMap>>
<1> USE DEF IInv
<1>1. CASE UNCHANGED vars
  BY <1>1 DEF vars, objects, PairMap, HasPair, Kept, AnswerMap, getHandle
<1>2. CASE restart
  BY <1>2 DEF restart, Restart, HasPair, Contract!Next, Contract!LoseAll
<1>3. CASE ~Kept'
  BY <1>3, MapsBroken DEF Contract!Next
<1>4. ASSUME Kept', Next, ~restart
      PROVE  Contract!Next
  <2>1. ASSUME NEW o \in Objects, NEW d \in Data, sign(o, d)
        PROVE  Contract!Next
    <3>1. Kept
      BY <1>4, <2>1, SignKeeps DEF Kept, Succeeds
    <3>2. CASE answer' = NoAnswer
      BY <1>4, <2>1, <3>1, <3>2, SignKeeps, MapsOneObject
    <3>3. CASE SignOutcome(o, d) /\ Succeeds(o, d)
      BY <1>4, <2>1, <3>1, <3>3, SignKeeps, MapsSign DEF Contract!Next
    <3> QED
      BY <2>1, <3>2, <3>3, SignKeeps
  <2>2. ASSUME NEW o \in Objects, NEW a \in Algorithms,
               NEW l \in PublicLengths, verify(o, a, l)
        PROVE  Contract!Next
    <3>1. UNCHANGED obj /\ broken \subseteq broken'
      BY <2>2, VerifyKeeps
    <3>2. answer' = NoAnswer /\ UNCHANGED unkeyed
      BY <2>2 DEF verify
    <3>3. Kept
      BY <1>4, <3>1, <3>2 DEF Kept
    <3> QED
      BY <1>4, <3>1, <3>2, <3>3, MapsOneObject
  <2>3. ASSUME NEW o \in Objects, NEW a \in Algorithms,
               create_sig_new(o, a) \/ create_sig_new_again(o, a)
        PROVE  Contract!Next
    <3>1. /\ \A q \in Objects \ {o} : obj'[q] = obj[q]
          /\ broken \subseteq broken'
      BY <2>3 DEF create_sig_new, create_sig_new_again, Construct,
                  CreateAgain, ObjectsInv, ObjectsTypeOK
    <3>2. answer' = NoAnswer /\ UNCHANGED unkeyed
      BY <2>3 DEF create_sig_new, create_sig_new_again
    <3>3. Kept
      BY <1>4, <3>1, <3>2 DEF Kept
    <3> QED
      BY <1>4, <3>1, <3>2, <3>3, MapsOneObject
  <2>4. ASSUME NEW o \in Objects, generate_keypair(o)
        PROVE  Contract!Next
    <3>1. /\ \A q \in Objects \ {o} : obj'[q] = obj[q]
          /\ broken \subseteq broken'
      BY <2>4 DEF generate_keypair, GenerateKeypair, Misuses, ObjectsInv,
                  ObjectsTypeOK
    <3>2. answer' = NoAnswer /\ UNCHANGED unkeyed
      BY <2>4 DEF generate_keypair
    <3>3. Kept
      BY <1>4, <3>1, <3>2 DEF Kept
    <3> QED
      BY <1>4, <3>1, <3>2, <3>3, MapsOneObject
  <2>5. ASSUME NEW o \in Objects, dispose_sig(o) \/ drop(o)
        PROVE  Contract!Next
    <3>1. /\ \A q \in Objects \ {o} : obj'[q] = obj[q]
          /\ broken \subseteq broken'
      BY <2>5 DEF dispose_sig, drop, Dispose, Drop, Misuses, ObjectsInv,
                  ObjectsTypeOK
    <3>2. answer' = NoAnswer /\ UNCHANGED unkeyed
      BY <2>5 DEF dispose_sig, drop
    <3>3. Kept
      BY <1>4, <3>1, <3>2 DEF Kept
    <3> QED
      BY <1>4, <3>1, <3>2, <3>3, MapsOneObject
  <2> QED
    BY <1>4, <2>1, <2>2, <2>3, <2>4, <2>5 DEF Next
<1> QED
  BY <1>1, <1>2, <1>3, <1>4

(* The wrapper implements the contract: whatever happens to handles,       *)
(* arrays and native memory, callers who keep the rules see key pairs come *)
(* and go, and signatures by the pair that an object has.                  *)
THEOREM Refinement == Spec => ContractSpec
<1>1. IInv /\ IInv' /\ [Next]_vars => [Contract!Next]_<<PairMap, AnswerMap>>
  BY NextMaps
<1> QED
  BY <1>1, MapsInit, Invariance, PTL
     DEF Spec, ContractSpec, Contract!Spec, PairMap, AnswerMap
=============================================================================
