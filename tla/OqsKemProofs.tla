----------------------------- MODULE OqsKemProofs -----------------------------
(***************************************************************************)
(* Proofs about OqsKem, for any number of objects, addresses, keys,        *)
(* algorithms and ciphertexts; and, at the end, about the two modules for  *)
(* the rest of liboqs: OqsRand, the generator that keys and secrets are    *)
(* drawn from, for any width of the integers of Java and any generator     *)
(* names, and OqsMechanisms, the lists of mechanisms, for any order of the *)
(* names.                                                                  *)
(***************************************************************************)
EXTENDS OqsKem, OqsObjectsProofs, OqsRand, OqsMechanisms, FiniteSetTheorems

IInv == ObjectsInv /\ TypeOK

-----------------------------------------------------------------------------
(* encap_secret. *)

EncapOutcome(o, pk, l) ==
    /\ Sound(obj[o], EncapArrays(obj[o], l))
    /\ KeptOutput
    /\ EncapReturns(obj[o], pk) \/ UNCHANGED sent
    /\ UNCHANGED <<native, obj, fault>>

LEMMA EncapKeeps ==
    ASSUME ObjectsInv, NEW o \in Objects, NEW pk, NEW l, encap_secret(o, pk, l)
    PROVE  /\ UNCHANGED <<native, obj>>
           /\ broken \subseteq broken'
           /\ ObjectsInv'
           /\ remaining' \subseteq remaining \cup {"output"}
           /\ \/ sent' = sent
              \/ EncapOutcome(o, pk, l) /\ EncapReturns(obj[o], pk)
<1> DEFINE r == obj[o]
<1>1. /\ r # NoObject /\ fault = "none"
      /\ broken \subseteq broken' /\ broken' \subseteq Rules
      /\ r.disposed => "disposeLast" \in broken'
  BY DEF encap_secret, Calls, Breaks, ObjectsInv, ObjectsTypeOK, Rules
<1>2. r \in JavaObject
  BY <1>1, ObjectTyped DEF ObjectsInv
<1>3. CASE UNCHANGED <<native, obj, remaining, fault, sent>>
  BY <1>1, <1>3, CallInv DEF ObjectsInv, ObjectsTypeOK
<1>4. CASE /\ PublicKeyFits(r, l) /\ Misuses(r, EncapArrays(r, l))
           /\ UNCHANGED sent
  <2>1. \A x \in DOMAIN EncapArrays(r, l) :
            ~ (Lengths[r.alg][x] > EncapArrays(r, l)[x])
    BY <1>2, <1>4, LengthsAssumption
       DEF EncapArrays, PublicKeyFits, get_KEM_details, JavaObject, Arrays
  <2>2. /\ fault' \in {"freed", "overrun"}
        /\ fault' = "freed" => "disposeLast" \in broken'
        /\ fault' = "overrun" => broken' # {}
    BY <1>1, <1>4, <2>1, MisuseExplained
  <2> QED
    BY <1>1, <1>4, <2>2, CallInv DEF Misuses, ObjectsInv, ObjectsTypeOK
<1>5. CASE EncapOutcome(o, pk, l)
  <2>1. remaining' \subseteq remaining \cup {"output"}
    BY <1>5 DEF EncapOutcome, KeptOutput, InNative
  <2>2. UNCHANGED <<native, obj>> /\ fault' = "none"
    BY <1>1, <1>5 DEF EncapOutcome
  <2>3. (sent' = sent) \/ EncapReturns(obj[o], pk)
    BY <1>5 DEF EncapOutcome
  <2>4. remaining' \subseteq Keys \cup {"output"}
    BY <2>1 DEF ObjectsInv, ObjectsTypeOK
  <2>5. ObjectsInv'
    BY <1>1, <2>2, <2>4, CallInv
  <2> QED
    BY <1>1, <1>5, <2>1, <2>2, <2>3, <2>5
<1> QED
  BY <1>3, <1>4, <1>5 DEF encap_secret, EncapOutcome

(* A ciphertext that is returned was made by an object with an algorithm.  *)
LEMMA EncapTyped ==
    ASSUME IInv, NEW o \in Objects, NEW pk \in PublicKeys, NEW l,
           obj[o] # NoObject, EncapOutcome(o, pk, l), EncapReturns(obj[o], pk)
    PROVE  \E s \in NewSecrets :
                /\ native[getHandle(obj[o])] \in Algorithms
                /\ sent' = sent \cup {[alg |-> native[getHandle(obj[o])],
                                       under |-> pk, secret |-> s]}
                /\ sent' \subseteq Ciphertexts
<1>1. obj[o] \in JavaObject
  BY ObjectTyped DEF IInv, ObjectsInv
<1>2. getHandle(obj[o]) \in Addresses
  BY <1>1 DEF EncapReturns, getHandle, JavaObject
<1>3. native[getHandle(obj[o])] \in Algorithms
  BY <1>2 DEF EncapOutcome, Sound, Dangling, EncapReturns, IInv, ObjectsInv,
              ObjectsTypeOK
<1>4. PICK s \in NewSecrets :
        sent' = sent \cup {[alg |-> native[getHandle(obj[o])],
                            under |-> pk, secret |-> s]}
  BY DEF EncapReturns
<1>5. [alg |-> native[getHandle(obj[o])], under |-> pk, secret |-> s]
        \in Ciphertexts
  BY <1>3 DEF Ciphertexts, NewSecrets
<1> QED
  BY <1>3, <1>4, <1>5 DEF IInv, TypeOK

-----------------------------------------------------------------------------
(* decap_secret. *)

LEMMA DecapKeeps ==
    ASSUME ObjectsInv, NEW o \in Objects, NEW c \in sent, decap_secret(o, c)
    PROVE  /\ UNCHANGED <<native, obj, sent>>
           /\ broken \subseteq broken'
           /\ obj[o] # NoObject
           /\ obj[o].disposed => "disposeLast" \in broken'
           /\ ObjectsInv'
           /\ remaining' \subseteq remaining \cup {"output"}
           /\ answer' = NoAnswer \/ DecapReturns(o, c)
<1> DEFINE r == obj[o]
<1>1. /\ r # NoObject /\ fault = "none"
      /\ broken \subseteq broken' /\ broken' \subseteq Rules
      /\ r.disposed => "disposeLast" \in broken'
      /\ UNCHANGED sent
  BY DEF decap_secret, Calls, Breaks, ObjectsInv, ObjectsTypeOK, Rules
<1>2. r \in JavaObject
  BY <1>1, ObjectTyped DEF ObjectsInv
<1>3. CASE answer' = NoAnswer /\ UNCHANGED <<native, obj, remaining, fault>>
  BY <1>1, <1>3, CallInv DEF ObjectsInv, ObjectsTypeOK
<1>4. CASE /\ DecapFits(r, c) /\ Misuses(r, DecapArrays(r))
           /\ answer' = NoAnswer
  <2>1. \A x \in DOMAIN DecapArrays(r) :
            ~ (Lengths[r.alg][x] > DecapArrays(r)[x])
    BY <1>2, <1>4, LengthsAssumption
       DEF DecapArrays, DecapFits, get_KEM_details, JavaObject, Arrays
  <2>2. /\ fault' \in {"freed", "overrun"}
        /\ fault' = "freed" => "disposeLast" \in broken'
        /\ fault' = "overrun" => broken' # {}
    BY <1>1, <1>4, <2>1, MisuseExplained
  <2> QED
    BY <1>1, <1>4, <2>2, CallInv DEF Misuses, ObjectsInv, ObjectsTypeOK
<1>5. CASE /\ \E copied, skCopied \in BOOLEAN :
                remaining' = remaining
                    \cup InNative("output", "JNI_COMMIT", copied)
                    \cup InNative(r.secret_key, DecapKeyMode, skCopied)
           /\ DecapReturns(o, c) \/ answer' = NoAnswer
           /\ UNCHANGED <<native, obj, fault>>
  <2>1. remaining' \subseteq remaining \cup {"output"}
    BY <1>5 DEF InNative, DecapKeyMode
  <2>2. remaining' \subseteq Keys \cup {"output"}
    BY <2>1 DEF ObjectsInv, ObjectsTypeOK
  <2>3. ObjectsInv'
    BY <1>1, <1>5, <2>2, CallInv
  <2> QED
    BY <1>1, <1>5, <2>1, <2>3
<1> QED
  BY <1>3, <1>4, <1>5 DEF decap_secret

LEMMA DecapTyped ==
    ASSUME IInv, NEW o \in Objects, NEW c \in sent, DecapReturns(o, c)
    PROVE  answer' \in Answers
BY DEF IInv, TypeOK, DecapReturns, OQS_KEM_decaps, Answers, Ciphertexts

-----------------------------------------------------------------------------
(* The invariant. *)

LEMMA QuietInv ==
    ASSUME IInv, ObjectsInv', Quietly
    PROVE  IInv'
BY DEF IInv, TypeOK, ObjectsInv, Quietly

LEMMA CreateInv ==
    ASSUME ObjectsInv, NEW o \in Objects, NEW a \in Algorithms,
           create_KEM_new(o, a)
    PROVE  ObjectsInv'
<1>1. Lengths[a]["secret_key"] \in Nat
  BY LengthsAssumption DEF Arrays
<1>2. CASE Construct(o, a, Blank, get_KEM_details([alg |-> a])["secret_key"])
  BY <1>1, <1>2, ConstructInv DEF get_KEM_details
<1>3. ASSUME NEW k \in Given, NEW l \in KeyLengths, Construct(o, a, k, l)
      PROVE  ObjectsInv'
  BY <1>3, ConstructInv, KeyLengthsAssumption DEF Keys
<1> QED
  BY <1>2, <1>3 DEF create_KEM_new

LEMMA InitInv == Init => IInv
BY InitObjectsInv DEF Init, IInv, TypeOK, ObjectsInv

LEMMA NextInv == IInv /\ [Next]_vars => IInv'
<1> SUFFICES ASSUME IInv, [Next]_vars
             PROVE  IInv'
  OBVIOUS
<1>0. ObjectsInv
  BY DEF IInv
<1>1. CASE restart
  BY <1>1, RestartInv, QuietInv DEF restart
<1>2. ASSUME NEW o \in Objects, NEW a \in Algorithms, create_KEM_new(o, a)
      PROVE  IInv'
  BY <1>0, <1>2, CreateInv, QuietInv DEF create_KEM_new
<1>3. ASSUME NEW o \in Objects, NEW a \in Algorithms, create_KEM_new_again(o, a)
      PROVE  IInv'
  BY <1>0, <1>3, CreateAgainInv, QuietInv DEF create_KEM_new_again
<1>4. ASSUME NEW o \in Objects, generate_keypair(o)
      PROVE  IInv'
  BY <1>0, <1>4, GenerateInv, QuietInv DEF generate_keypair
<1>5. ASSUME NEW o \in Objects, NEW pk \in PublicKeys,
             NEW l \in PublicLengths, encap_secret(o, pk, l)
      PROVE  IInv'
  <2>1. ObjectsInv' /\ answer' = NoAnswer /\ obj[o] # NoObject
    BY <1>0, <1>5, EncapKeeps DEF encap_secret, Calls
  <2>2. sent' \subseteq Ciphertexts
    BY <1>0, <1>5, <2>1, EncapKeeps, EncapTyped DEF IInv, TypeOK
  <2> QED
    BY <2>1, <2>2 DEF IInv, TypeOK, ObjectsInv
<1>6. ASSUME NEW o \in Objects, NEW c \in sent, decap_secret(o, c)
      PROVE  IInv'
  <2>1. ObjectsInv' /\ UNCHANGED sent
    BY <1>0, <1>6, DecapKeeps
  <2>2. answer' \in Answers \cup {NoAnswer}
    BY <1>0, <1>6, DecapKeeps, DecapTyped
  <2> QED
    BY <2>1, <2>2 DEF IInv, TypeOK, ObjectsInv
<1>7. ASSUME NEW o \in Objects, dispose_KEM(o)
      PROVE  IInv'
  BY <1>0, <1>7, DisposeInv, QuietInv DEF dispose_KEM
<1>8. ASSUME NEW o \in Objects, drop(o)
      PROVE  IInv'
  BY <1>0, <1>8, DropInv, QuietInv DEF drop
<1>9. CASE UNCHANGED vars
  BY <1>9 DEF vars, objects, IInv, ObjectsInv, ObjectsTypeOK, HandleValid, Live,
              NoWildAccess, PairInBoth, TypeOK, getHandle
<1> QED
  BY <1>1, <1>2, <1>3, <1>4, <1>5, <1>6, <1>7, <1>8, <1>9 DEF Next

LEMMA Invariance == Spec => []IInv
BY InitInv, NextInv, PTL DEF Spec

-----------------------------------------------------------------------------

(* Type correctness. *)
THEOREM TypeCorrect == Spec => []TypeOK
<1>1. IInv => TypeOK
  BY DEF IInv
<1> QED
  BY <1>1, Invariance, PTL

(* Memory is misused only by callers that broke a rule.                    *)
THEOREM NoneWild == Spec => []NoWildAccess
<1>1. IInv => NoWildAccess
  BY DEF IInv, ObjectsInv
<1> QED
  BY <1>1, Invariance, PTL

(* Sender and receiver get the same secret, or the receiver one that       *)
(* nobody else has: at any later time, whatever failed in between.         *)
THEOREM BothSidesAgree == Spec => []SecretsCoincide
<1>1. ASSUME IInv
      PROVE  SecretsCoincide
  <2> SUFFICES ASSUME broken = {}, NEW c \in sent, NEW o \in Live,
                      obj[o].key_from = "generated",
                      getHandle(obj[o]) # NULL, c.alg = obj[o].alg
               PROVE  /\ DecapFits(obj[o], c)
                      /\ OQS_KEM_decaps(obj[o], c) =
                            IF c.under = obj[o].public_key
                            THEN c.secret ELSE Rejected
    BY DEF SecretsCoincide
  <2>1. native[getHandle(obj[o])] = obj[o].alg
    BY <1>1 DEF IInv, ObjectsInv, HandleValid
  <2>2. /\ obj[o].public_key = obj[o].secret_key
        /\ obj[o].secret_key \in Keys
        /\ obj[o].length = Lengths[obj[o].alg]["secret_key"]
    BY <1>1 DEF IInv, ObjectsInv, PairInBoth, Live
  <2> QED
    BY <2>1, <2>2 DEF DecapFits, get_KEM_details, OQS_KEM_decaps
<1> QED
  BY <1>1, Invariance, PTL

(* The handle of an object that is not disposed leads to an object of its  *)
(* own, as long as nobody uses a disposed one: also where encap_secret and *)
(* decap_secret are called between the other operations.                   *)
THEOREM HandlesValid == Spec => []HandleValid
<1>1. IInv => HandleValid
  BY DEF IInv, ObjectsInv
<1> QED
  BY <1>1, Invariance, PTL

(* A key enters native memory in a call of generate_keypair, and is the    *)
(* key that the object has after it.                                       *)
KeysLeftByGeneration ==
    \A s \in (remaining' \ remaining) \cap Keys :
        \E o \in Objects : generate_keypair(o) /\ obj'[o].secret_key = s

(* generate_keypair releases the secret key with JNI_COMMIT and so leaves  *)
(* the copy of it that the virtual machine may have made.  It is the only  *)
(* call that does: decap_secret, which passes the secret key to C as well, *)
(* and encap_secret leave ciphertexts and secrets but no key, generated or *)
(* given to the constructor, whatever they return or throw.                *)
THEOREM OnlyGenerationLeavesKeys == Spec => [][KeysLeftByGeneration]_vars
<1>1. ASSUME IInv, [Next]_vars
      PROVE  [KeysLeftByGeneration]_vars
  <2>0. ASSUME remaining' \subseteq remaining \cup {"output"}
        PROVE  KeysLeftByGeneration
    BY <2>0, KeysAssumption DEF KeysLeftByGeneration
  <2>1. CASE UNCHANGED vars
    BY <2>1
  <2>2. ASSUME NEW o \in Objects, generate_keypair(o)
        PROVE  KeysLeftByGeneration
    <3>1. \A s \in remaining' \ remaining : obj'[o].secret_key = s
      BY <1>1, <2>2, GenerateReleases DEF generate_keypair, IInv
    <3> QED
      BY <2>2, <3>1 DEF KeysLeftByGeneration
  <2>3. ASSUME NEW o \in Objects, NEW pk \in PublicKeys,
               NEW l \in PublicLengths, encap_secret(o, pk, l)
        PROVE  KeysLeftByGeneration
    BY <1>1, <2>0, <2>3, EncapKeeps DEF IInv
  <2>4. ASSUME NEW o \in Objects, NEW c \in sent, decap_secret(o, c)
        PROVE  KeysLeftByGeneration
    BY <1>1, <2>0, <2>4, DecapKeeps DEF IInv
  <2>5. ASSUME NEW o \in Objects, NEW a \in Algorithms,
               create_KEM_new(o, a) \/ create_KEM_new_again(o, a)
        PROVE  KeysLeftByGeneration
    BY <2>0, <2>5
       DEF create_KEM_new, create_KEM_new_again, Construct, CreateAgain
  <2>6. ASSUME NEW o \in Objects, dispose_KEM(o) \/ drop(o)
        PROVE  KeysLeftByGeneration
    BY <2>0, <2>6 DEF dispose_KEM, drop, Dispose, Drop, Misuses
  <2>7. CASE restart
    BY <2>0, <2>7 DEF restart, Restart
  <2> QED
    BY <1>1, <2>1, <2>2, <2>3, <2>4, <2>5, <2>6, <2>7 DEF Next
<1> QED
  BY <1>1, Invariance, PTL DEF Spec

-----------------------------------------------------------------------------
(* The refinement. *)

PairMap == [o \in Objects |->
                IF HasPair(o)
                THEN [alg |-> obj[o].alg, key |-> obj[o].secret_key]
                ELSE NoObject]

AnswerMap == IF Kept THEN answer ELSE NoAnswer

LEMMA MapsInit == Init => Contract!Init
BY DEF Init, InitObjects, Contract!Init, HasPair

LEMMA MapsBroken ==
    ASSUME ~Kept', sent' \subseteq Ciphertexts
    PROVE  Contract!LoseAll
BY DEF Contract!LoseAll, HasPair, Ciphertexts, Contract!Ciphertexts

(* A call that changes one object at most, and returns nothing.            *)
LEMMA MapsOneObject ==
    ASSUME ObjectsInv', Kept, Kept', NEW o \in Objects,
           \A q \in Objects \ {o} : obj'[q] = obj[q],
           answer' = NoAnswer, UNCHANGED sent
    PROVE  Contract!Next
<1>1. PairMap' = [PairMap EXCEPT ![o] = PairMap'[o]]
  <2>1. ASSUME NEW q \in Objects \ {o} PROVE PairMap'[q] = PairMap[q]
    BY DEF PairMap, HasPair, getHandle
  <2>2. /\ DOMAIN PairMap = Objects /\ DOMAIN PairMap' = Objects
        /\ PairMap = [q \in Objects |-> PairMap[q]]
        /\ PairMap' = [q \in Objects |-> PairMap'[q]]
    BY DEF PairMap
  <2> QED
    BY <2>1, <2>2
<1>2. AnswerMap' = NoAnswer
  BY DEF AnswerMap
<1>3. Contract!Obtain(o, PairMap'[o])
  BY <1>1, <1>2 DEF Contract!Obtain, PairMap, AnswerMap
<1>4. CASE PairMap'[o] = NoObject
  BY <1>3, <1>4 DEF Contract!Next, Contract!Lose, Contract!Obtain
<1>5. CASE PairMap'[o] # NoObject
  <2>1. /\ PairMap'[o] = [alg |-> obj'[o].alg, key |-> obj'[o].secret_key]
        /\ obj'[o] # NoObject /\ obj'[o].secret_key \in Keys
    BY <1>5 DEF PairMap, HasPair
  <2>2. obj'[o] \in JavaObject
    BY <2>1 DEF ObjectsInv, ObjectsTypeOK
  <2>3. PairMap'[o] \in Contract!Pairs
    BY <2>1, <2>2 DEF Contract!Pairs, JavaObject
  <2> QED
    BY <1>3, <2>3 DEF Contract!Next, Contract!Obtain
<1> QED
  BY <1>4, <1>5

LEMMA MapsEncap ==
    ASSUME IInv, Kept, Kept', NEW o \in Objects, NEW pk \in PublicKeys, NEW l,
           obj[o] # NoObject, UNCHANGED <<native, obj>>, answer' = NoAnswer,
           EncapOutcome(o, pk, l), EncapReturns(obj[o], pk)
    PROVE  Contract!Next
<1>1. PICK s \in NewSecrets :
        /\ native[getHandle(obj[o])] \in Algorithms
        /\ sent' = sent \cup {[alg |-> native[getHandle(obj[o])],
                               under |-> pk, secret |-> s]}
  BY EncapTyped
<1>2. s \in Secrets /\ \A c \in sent : c.secret # s
  BY DEF NewSecrets
<1>3. PairMap' = PairMap /\ AnswerMap' = NoAnswer
  BY DEF PairMap, HasPair, AnswerMap
<1>4. Contract!Encapsulate(native[getHandle(obj[o])], pk, s)
  BY <1>1, <1>2, <1>3 DEF Contract!Encapsulate, PairMap, AnswerMap
<1> QED
  BY <1>1, <1>2, <1>4 DEF Contract!Next, Contract!Encapsulate

(* What is opened depends on the pair that the object has, and on nothing  *)
(* else.                                                                   *)
LEMMA MapsDecap ==
    ASSUME IInv, Kept, Kept', NEW o \in Objects, NEW c \in sent,
           obj[o] # NoObject, UNCHANGED <<native, obj, sent>>,
           obj[o].disposed => "disposeLast" \in broken', DecapReturns(o, c)
    PROVE  Contract!Next
<1>1. c.alg \in Algorithms /\ c.under \in PublicKeys
  BY DEF IInv, TypeOK, Ciphertexts
<1>2. native[getHandle(obj[o])] = obj[o].alg /\ getHandle(obj[o]) # NULL
  BY DEF IInv, DecapReturns, Kept, ObjectsInv, HandleValid, Live
<1>3. PairMap' = PairMap /\ AnswerMap' = answer'
  BY DEF PairMap, HasPair, AnswerMap
<1>4. PairMap[o] = [alg |-> c.alg, key |-> c.under]
        <=> c.alg = obj[o].alg /\ c.under = obj[o].secret_key /\ c.under \in Keys
  <2>1. CASE obj[o].secret_key \in Keys
    <3>1. PairMap[o] = [alg |-> obj[o].alg, key |-> obj[o].secret_key]
      BY <1>2, <2>1 DEF PairMap, HasPair
    <3>2. [alg |-> obj[o].alg, key |-> obj[o].secret_key] =
                [alg |-> c.alg, key |-> c.under]
            <=> obj[o].alg = c.alg /\ obj[o].secret_key = c.under
      OBVIOUS
    <3> QED
      BY <2>1, <3>1, <3>2
  <2>2. CASE obj[o].secret_key \notin Keys
    <3>1. PairMap[o] = NoObject
      BY <2>2 DEF PairMap, HasPair
    <3>2. [alg |-> c.alg, key |-> c.under] # NoObject
      BY <1>1, PairAssumption
    <3> QED
      BY <2>2, <3>1, <3>2
  <2> QED
    BY <2>1, <2>2
<1>5. answer' = [of |-> o, ciphertext |-> c,
                 secret |-> IF PairMap[o] = [alg |-> c.alg, key |-> c.under]
                            THEN c.secret ELSE Rejected]
  BY <1>2, <1>4 DEF DecapReturns, OQS_KEM_decaps
<1>6. Contract!Decapsulate(o, c)
  BY <1>3, <1>5 DEF Contract!Decapsulate, PairMap, AnswerMap
<1> QED
  BY <1>6 DEF Contract!Next, Contract!Decapsulate

LEMMA NextMaps ==
    ASSUME IInv, IInv', [Next]_vars
    PROVE  [Contract!Next]_<<PairMap, sent, AnswerMap>>
<1>0. /\ ObjectsInv /\ ObjectsInv' /\ ObjectsTypeOK
      /\ sent' \subseteq Ciphertexts
  BY DEF IInv, TypeOK, ObjectsInv
<1>1. CASE UNCHANGED vars
  BY <1>1 DEF vars, objects, PairMap, HasPair, Kept, AnswerMap, getHandle
<1>2. CASE restart
  BY <1>0, <1>2 DEF restart, Restart, Quietly, HasPair, Contract!Next,
                    Contract!LoseAll, Ciphertexts, Contract!Ciphertexts
<1>3. CASE ~Kept'
  BY <1>0, <1>3, MapsBroken DEF Contract!Next
<1>4. ASSUME Kept', Next, ~restart
      PROVE  Contract!Next
  <2>1. ASSUME broken \subseteq broken'
        PROVE  Kept
    BY <1>4, <2>1 DEF Kept
  <2>2. ASSUME NEW o \in Objects, NEW pk \in PublicKeys,
               NEW l \in PublicLengths, encap_secret(o, pk, l)
        PROVE  Contract!Next
    <3>1. /\ UNCHANGED <<native, obj>> /\ Kept /\ obj[o] # NoObject
          /\ answer' = NoAnswer
      BY <1>0, <2>1, <2>2, EncapKeeps DEF encap_secret, Calls
    <3>2. CASE sent' = sent
      BY <1>0, <1>4, <3>1, <3>2, MapsOneObject
    <3>3. CASE EncapOutcome(o, pk, l) /\ EncapReturns(obj[o], pk)
      BY <1>4, <3>1, <3>3, MapsEncap
    <3> QED
      BY <1>0, <2>2, <3>2, <3>3, EncapKeeps
  <2>3. ASSUME NEW o \in Objects, NEW c \in sent, decap_secret(o, c)
        PROVE  Contract!Next
    <3>1. /\ UNCHANGED <<native, obj, sent>> /\ Kept /\ obj[o] # NoObject
          /\ obj[o].disposed => "disposeLast" \in broken'
      BY <1>0, <2>1, <2>3, DecapKeeps
    <3>2. CASE answer' = NoAnswer
      BY <1>0, <1>4, <3>1, <3>2, MapsOneObject
    <3>3. CASE DecapReturns(o, c)
      BY <1>4, <3>1, <3>3, MapsDecap
    <3> QED
      BY <1>0, <2>3, <3>2, <3>3, DecapKeeps
  <2>4. ASSUME NEW o \in Objects, NEW a \in Algorithms,
               create_KEM_new(o, a) \/ create_KEM_new_again(o, a)
        PROVE  Contract!Next
    <3>1. /\ \A q \in Objects \ {o} : obj'[q] = obj[q]
          /\ broken \subseteq broken'
      BY <1>0, <2>4 DEF create_KEM_new, create_KEM_new_again, Construct,
                        CreateAgain, ObjectsTypeOK
    <3>2. answer' = NoAnswer /\ UNCHANGED sent
      BY <2>4 DEF create_KEM_new, create_KEM_new_again, Quietly
    <3> QED
      BY <1>0, <1>4, <2>1, <3>1, <3>2, MapsOneObject
  <2>5. ASSUME NEW o \in Objects,
               generate_keypair(o) \/ dispose_KEM(o) \/ drop(o)
        PROVE  Contract!Next
    <3>1. /\ \A q \in Objects \ {o} : obj'[q] = obj[q]
          /\ broken \subseteq broken'
      BY <1>0, <2>5 DEF generate_keypair, dispose_KEM, drop, GenerateKeypair,
                        Dispose, Drop, Misuses, ObjectsTypeOK
    <3>2. answer' = NoAnswer /\ UNCHANGED sent
      BY <2>5 DEF generate_keypair, dispose_KEM, drop, Quietly
    <3> QED
      BY <1>0, <1>4, <2>1, <3>1, <3>2, MapsOneObject
  <2> QED
    BY <1>4, <2>2, <2>3, <2>4, <2>5 DEF Next
<1> QED
  BY <1>1, <1>2, <1>3, <1>4

(* The wrapper implements the contract: callers who keep the rules see key *)
(* pairs come and go, and ciphertexts that open under the pair they were   *)
(* made for.                                                               *)
THEOREM Refinement == Spec => ContractSpec
<1>1. IInv /\ IInv' /\ [Next]_vars =>
        [Contract!Next]_<<PairMap, sent, AnswerMap>>
  BY NextMaps
<1> QED
  BY <1>1, MapsInit, Invariance, PTL
     DEF Spec, ContractSpec, Contract!Spec, PairMap, AnswerMap

-----------------------------------------------------------------------------
(* Random numbers. *)

(* A long that is passed as a jsize becomes one, is itself when it fits,   *)
(* and never grows when it is not negative.                                *)
LEMMA JsizeType ==
    \A n \in Int : ToJsize(n) \in -Half .. Half - 1
BY WidthAssumption DEF ToJsize

LEMMA JsizeFits ==
    \A n \in Int : n \in -Half .. Half - 1 => ToJsize(n) = n
BY WidthAssumption DEF ToJsize

LEMMA JsizeCuts ==
    \A n \in Nat : ToJsize(n) <= n
BY WidthAssumption DEF ToJsize

(* What randombytes returns, whichever way it ends.                        *)
LEMMA RandomBytesDrawn ==
    ASSUME NEW n \in Requests, randombytes(n)
    PROVE  ReturnedIsDrawn'
<1>1. n \in Int
  BY RequestAssumption
<1>2. CASE returned' = [asked |-> n, array |-> Null, from |-> Null]
  BY <1>2 DEF ReturnedIsDrawn
<1>3. CASE /\ Allocated(n)
           /\ returned' = [asked |-> n, array |-> ToJsize(n), from |-> Source]
  <2>1. returned'.array = ToJsize(n) /\ returned'.asked = n
    BY <1>3
  <2>2. ToJsize(n) \in 0 .. Half - 1
    BY <1>1, JsizeType, WidthAssumption DEF randombytes
  <2>3. n \in Nat /\ ToJsize(n) <= n
    BY <1>1, <1>3, JsizeCuts DEF Allocated
  <2>4. n < Half => ToJsize(n) = n
    BY <2>3, JsizeFits, WidthAssumption
  <2> QED
    BY <2>1, <2>2, <2>3, <2>4 DEF ReturnedIsDrawn
<1> QED
  BY <1>2, <1>3 DEF randombytes

(* Every byte of an array that is returned was drawn, and none is missing  *)
(* where an array of Java can hold them all: for a jsize of any width.     *)
THEOREM ReturnedDrawn == RandSpec => []ReturnedIsDrawn
<1>1. RandInit => ReturnedIsDrawn
  BY DEF RandInit, NothingReturned, ReturnedIsDrawn
<1>2. ReturnedIsDrawn /\ [RandNext]_randVars => ReturnedIsDrawn'
  <2> SUFFICES ASSUME ReturnedIsDrawn, [RandNext]_randVars
               PROVE  ReturnedIsDrawn'
    OBVIOUS
  <2>1. ASSUME NEW n \in Requests, randombytes(n)
        PROVE  ReturnedIsDrawn'
    BY <2>1, RandomBytesDrawn
  <2>2. CASE Abort
    BY <2>2 DEF Abort, NothingReturned, ReturnedIsDrawn
  <2>3. CASE UNCHANGED returned
    BY <2>3 DEF ReturnedIsDrawn
  <2> QED
    BY <2>1, <2>2, <2>3
       DEF RandNext, randVars, randombytes_switch_algorithm,
           randombytes_nist_kat_init
<1> QED
  BY <1>1, <1>2, PTL DEF RandSpec

(* A call that throws changes no generator: a name that is not supported   *)
(* leaves the one that was selected, and a seed that is refused draws      *)
(* nothing.                                                                *)
THEOREM ThrowingIsHarmless == RandSpec => ThrowsUnchanged
<1>1. [RandNext]_randVars =>
        [thrown' => UNCHANGED <<algorithm, drawn, overrun>>]_randVars
  <2> SUFFICES ASSUME RandNext, thrown'
               PROVE  UNCHANGED <<algorithm, drawn, overrun>>
    OBVIOUS
  <2>1. ASSUME NEW n \in Requests, randombytes(n)
        PROVE  UNCHANGED <<algorithm, drawn, overrun>>
    BY <2>1 DEF randombytes
  <2>2. ASSUME NEW name \in Names, randombytes_switch_algorithm(name)
        PROVE  UNCHANGED <<algorithm, drawn, overrun>>
    BY <2>2 DEF randombytes_switch_algorithm, Selected
  <2>3. ASSUME NEW length, NEW pers, randombytes_nist_kat_init(length, pers)
        PROVE  UNCHANGED <<algorithm, drawn, overrun>>
    BY <2>3 DEF randombytes_nist_kat_init
  <2> QED
    BY <2>1, <2>2, <2>3 DEF RandNext, Abort
<1> QED
  BY <1>1, PTL DEF RandSpec, ThrowsUnchanged

-----------------------------------------------------------------------------
(* The lists of mechanisms. *)

(* The scheme at hand has its table, whichever scheme that is.             *)
LEMMA TableListed ==
    ASSUME scheme \in {"sig", "kem"}
    PROVE  IsTable(Table, Identifiers, alg_count) /\ alg_count \in Nat
BY TableAssumption
   DEF Table, Tables, Identifiers, alg_count, Sig, OQS_SIG_algs_length,
       OQS_KEM_algs_length

(* The list of the enabled has the enabled ones among the first j of the   *)
(* supported, each of them once.                                           *)
EnabledSoFar ==
    /\ \A m \in 1 .. Len(enabled) :
        is_enabled(enabled[m]) /\ \E k \in 1 .. j : enabled[m] = supported[k]
    /\ \A k \in 1 .. j : is_enabled(supported[k]) =>
        \E m \in 1 .. Len(enabled) : enabled[m] = supported[k]
    /\ \A m, n \in 1 .. Len(enabled) : enabled[m] = enabled[n] => m = n

MechInv ==
    /\ scheme \in {"sig", "kem"}
    /\ i \in 0 .. alg_count
    /\ supported \in Seq(Identifiers) /\ Len(supported) = i
    /\ \A k \in 1 .. i : supported[k] = Table[k]
    /\ j \in 0 .. i /\ (More => j = 0)
    /\ enabled \in Seq(Identifiers) /\ EnabledSoFar
    /\ \/ tried.outcome = "none" /\ tried.name = <<"NULL">>
       \/ Done /\ tried.outcome = OutcomeOf(tried.name)

LEMMA MechStart == MechInit => MechInv
<1> SUFFICES ASSUME MechInit PROVE MechInv
  OBVIOUS
<1>1. alg_count \in Nat
  BY TableListed DEF MechInit
<1>2. enabled \in Seq(Identifiers) /\ EnabledSoFar
  BY DEF MechInit, EnabledSoFar
<1> QED
  BY <1>1, <1>2 DEF MechInit, MechInv

LEMMA SupportedInv ==
    ASSUME MechInv, get_supported
    PROVE  MechInv'
<1>1. /\ Table \in Seq(Identifiers) /\ Len(Table) = alg_count
      /\ alg_count \in Nat
  BY TableListed DEF MechInv, IsTable
<1>2. get_name(i) = Table[i + 1] /\ Table[i + 1] \in Identifiers
  BY <1>1 DEF get_name, MechInv, get_supported, More
<1>3. /\ Identifiers' = Identifiers /\ Table' = Table
      /\ alg_count' = alg_count
  BY DEF get_supported, Identifiers, Table, Tables, alg_count, Sig
<1>4. i' = i + 1 /\ i' \in 0 .. alg_count
  BY <1>1 DEF get_supported, More, MechInv
<1>5. /\ supported' \in Seq(Identifiers) /\ Len(supported') = i'
      /\ \A k \in 1 .. i' : supported'[k] = Table[k]
  BY <1>2, <1>4 DEF get_supported, MechInv
<1>6. j = 0 /\ j' = 0 /\ enabled' = enabled
  BY DEF get_supported, MechInv
<1>7. enabled \in Seq(Identifiers) /\ Len(enabled) = 0
  BY <1>6 DEF MechInv, EnabledSoFar
<1>8. EnabledSoFar'
  BY <1>6, <1>7 DEF EnabledSoFar
<1>9. tried'.outcome = "none" /\ tried'.name = <<"NULL">>
  BY DEF get_supported, MechInv, Done
<1> QED
  BY <1>3, <1>4, <1>5, <1>6, <1>7, <1>8, <1>9 DEF MechInv, get_supported

LEMMA EnabledInv ==
    ASSUME MechInv, get_enabled
    PROVE  MechInv'
<1>1. /\ alg_count \in Nat
      /\ \A k, l \in 1 .. alg_count : Table[k] = Table[l] => k = l
  BY TableListed DEF MechInv, IsTable
<1>2. /\ Identifiers' = Identifiers /\ Table' = Table
      /\ alg_count' = alg_count /\ \A n : is_enabled(n)' = is_enabled(n)
  BY DEF get_enabled, Identifiers, Table, Tables, alg_count, Sig, is_enabled,
         Resolved
<1>3. /\ i \in 0 .. alg_count /\ Len(supported) = i
      /\ j \in 0 .. i /\ j < i /\ j' = j + 1
      /\ supported \in Seq(Identifiers) /\ supported' = supported
  BY <1>1 DEF get_enabled, MechInv
<1> DEFINE x == supported[j + 1]
<1>4. x \in Identifiers
  BY <1>1, <1>3
<1>5. ASSUME NEW k \in 1 .. j PROVE supported[k] # x
  BY <1>1, <1>3, <1>5 DEF MechInv
<1>6. /\ enabled \in Seq(Identifiers)
      /\ \A m \in 1 .. Len(enabled) : enabled[m] # x
  BY <1>5 DEF MechInv, EnabledSoFar
<1>7. CASE is_enabled(x)
  <2>1. enabled' = Append(enabled, x)
    BY <1>3, <1>7 DEF get_enabled
  <2>2. /\ enabled' \in Seq(Identifiers)
        /\ Len(enabled') = Len(enabled) + 1
        /\ enabled'[Len(enabled) + 1] = x
        /\ \A m \in 1 .. Len(enabled) : enabled'[m] = enabled[m]
    BY <1>4, <1>6, <2>1
  <2> HIDE DEF x
  <2>3. ASSUME NEW m \in 1 .. Len(enabled')
        PROVE  /\ is_enabled(enabled'[m])
               /\ \E k \in 1 .. j + 1 : enabled'[m] = supported[k]
    <3>1. CASE m = Len(enabled) + 1
      BY <1>3, <1>7, <2>2, <3>1 DEF x
    <3>2. CASE m # Len(enabled) + 1
      <4>1. m \in 1 .. Len(enabled) /\ enabled'[m] = enabled[m]
        BY <1>6, <2>2, <3>2
      <4> QED
        BY <1>3, <4>1 DEF MechInv, EnabledSoFar
    <3> QED
      BY <3>1, <3>2
  <2>4. ASSUME NEW k \in 1 .. j + 1, is_enabled(supported[k])
        PROVE  \E m \in 1 .. Len(enabled') : enabled'[m] = supported[k]
    <3>1. CASE k = j + 1
      BY <1>6, <2>2, <3>1 DEF x
    <3>2. CASE k # j + 1
      <4>1. PICK m \in 1 .. Len(enabled) : enabled[m] = supported[k]
        BY <1>3, <2>4, <3>2 DEF MechInv, EnabledSoFar
      <4> QED
        BY <1>6, <2>2, <4>1
    <3> QED
      BY <3>1, <3>2
  <2>5. ASSUME NEW m \in 1 .. Len(enabled'), NEW n \in 1 .. Len(enabled'),
               enabled'[m] = enabled'[n]
        PROVE  m = n
    BY <1>6, <2>2, <2>5, SMTT(20) DEF MechInv, EnabledSoFar
  <2> QED
    BY <1>2, <1>3, <2>2, <2>3, <2>4, <2>5, SMTT(20)
       DEF EnabledSoFar, MechInv, Done, More, get_enabled
<1>8. CASE ~is_enabled(x)
  <2>1. enabled' = enabled
    BY <1>3, <1>8 DEF get_enabled
  <2>2. EnabledSoFar'
    BY <1>2, <1>3, <1>8, <2>1 DEF EnabledSoFar, MechInv
  <2> QED
    BY <1>2, <1>3, <2>1, <2>2 DEF MechInv, Done, More, get_enabled
<1> QED
  BY <1>7, <1>8
LEMMA MechInvariance == MechSpec => []MechInv
<1>1. MechInv /\ [MechNext]_mechVars => MechInv'
  <2> SUFFICES ASSUME MechInv, [MechNext]_mechVars
               PROVE  MechInv'
    OBVIOUS
  <2>1. CASE get_supported
    BY <2>1, SupportedInv
  <2>2. CASE get_enabled
    BY <2>2, EnabledInv
  <2>3. ASSUME UNCHANGED <<scheme, i, j, supported, enabled>>,
               \/ UNCHANGED tried
               \/ Done /\ \E n : tried' = [name |-> n,
                                           outcome |-> OutcomeOf(n)]
        PROVE  MechInv'
    <3>1. /\ Identifiers' = Identifiers /\ Table' = Table /\ More' = More
          /\ alg_count' = alg_count /\ Done' = Done
          /\ \A n : is_enabled(n)' = is_enabled(n)
      BY <2>3 DEF Identifiers, Table, Tables, alg_count, Sig, is_enabled,
                  Resolved, More, Done
    <3>2. \A n : OutcomeOf(n)' = OutcomeOf(n)
      BY <2>3, <3>1 DEF OutcomeOf, is_supported, get_name
    <3>3. EnabledSoFar'
      BY <2>3, <3>1 DEF MechInv, EnabledSoFar
    <3>4. \/ tried'.outcome = "none" /\ tried'.name = <<"NULL">>
          \/ Done /\ tried'.outcome = OutcomeOf(tried'.name)
      BY <2>3 DEF MechInv
    <3> QED
      BY <2>3, <3>1, <3>2, <3>3, <3>4 DEF MechInv
  <2> QED
    BY <2>1, <2>2, <2>3 DEF MechNext, mechVars, Constructor
<1> QED
  BY <1>1, MechStart, PTL DEF MechSpec

(* A sequence that has each element of S once is as long as S is large.    *)
LEMMA OnceEach ==
    ASSUME NEW S, NEW s \in Seq(S),
           \A x \in S : \E k \in 1 .. Len(s) : s[k] = x,
           \A k, l \in 1 .. Len(s) : s[k] = s[l] => k = l
    PROVE  Cardinality(S) = Len(s)
<1>1. s \in [1 .. Len(s) -> S] /\ Len(s) \in Nat
  OBVIOUS
<1>2. s \in Bijection(1 .. Len(s), S)
  BY <1>1 DEF Bijection, Injection, Surjection, IsInjective
<1>3. ExistsBijection(1 .. Len(s), S)
  BY <1>2 DEF ExistsBijection
<1> QED
  BY <1>1, <1>3, FS_CountingElements

(* The name that stands for none has the form of no other name.            *)
LEMMA NullName ==
    /\ <<"NULL">> # Default
    /\ \A a, b : <<"NULL">> \notin a \X b
    /\ \A a, b, c : <<"NULL">> \notin a \X b \X c
    /\ \A a, b, c, d, e : <<"NULL">> \notin a \X b \X c \X d \X e
BY DEF Default

(* Every name that is enabled is defined by the headers, and so is what    *)
(* the default stands for, which is enabled; no name stands for none.      *)
LEMMA EnabledIsSupported ==
    ASSUME scheme \in {"sig", "kem"}
    PROVE  /\ \A n : is_enabled(n) => n \in Identifiers
           /\ is_enabled(Default)
           /\ <<"NULL">> \notin Identifiers
<1>1. Default \in SigIdentifiers /\ Default \in KemIdentifiers
  <2>1. Default \in SigIdentifiers
    BY SMT DEF SigIdentifiers
  <2>2. Default \in KemIdentifiers
    BY SMT DEF KemIdentifiers
  <2> QED
    BY <2>1, <2>2
<1>2. /\ <<"NULL">> \notin SigIdentifiers
      /\ <<"NULL">> \notin KemIdentifiers
  <2>1. <<"NULL">> \notin SigIdentifiers
    BY NullName, SMT DEF SigIdentifiers
  <2>2. <<"NULL">> \notin KemIdentifiers
    BY NullName, SMT DEF KemIdentifiers
  <2> QED
    BY <2>1, <2>2
<1>3. SigDefault \in SigIdentifiers /\ SigDefault[1] \in EnabledSigs
  <2>1. /\ SigDefault \in {"Dilithium"} \X {2, 3, 4}
        /\ SigDefault[1] = "Dilithium"
    BY DEF SigDefault
  <2>2. SigDefault \in SigIdentifiers
    BY <2>1, SMT DEF SigIdentifiers
  <2> QED
    BY <2>1, <2>2 DEF EnabledSigs, PqcleanSigs
<1>4. KemDefault \in KemIdentifiers /\ KemDefault[1] \in EnabledKems
  <2>1. /\ KemDefault \in {"FrodoKEM"} \X {640, 976, 1344} \X {"AES", "SHAKE"}
        /\ KemDefault[1] = "FrodoKEM"
    BY DEF KemDefault
  <2>2. KemDefault \in KemIdentifiers
    BY <2>1, SMT DEF KemIdentifiers
  <2> QED
    BY <2>1, <2>2 DEF EnabledKems
<1>5. Default \in Identifiers /\ <<"NULL">> \notin Identifiers
  BY <1>1, <1>2 DEF Identifiers
<1>6. is_enabled(Default)
  BY <1>3, <1>4 DEF is_enabled, Resolved, Identifiers, Sig
<1>7. ASSUME NEW n, is_enabled(n) PROVE n \in Identifiers
  BY <1>5, <1>7 DEF is_enabled, Resolved
<1> QED
  BY <1>5, <1>6, <1>7

(* When both loops are done, each list has what it should.                 *)
LEMMA ListsWhenDone ==
    ASSUME MechInv, Done
    PROVE  /\ Elements(supported) = Identifiers
           /\ Elements(enabled) = {n \in Identifiers : is_enabled(n)}
           /\ Len(supported) = Cardinality(Identifiers)
           /\ Len(enabled) = Cardinality(Elements(enabled))
<1>1. /\ IsTable(Table, Identifiers, alg_count) /\ alg_count \in Nat
      /\ i = alg_count /\ j = i
  BY TableListed DEF MechInv, Done, More
<1>2. /\ supported \in Seq(Identifiers) /\ Len(supported) = alg_count
      /\ \A n \in Identifiers : \E k \in 1 .. alg_count : supported[k] = n
      /\ \A k, l \in 1 .. alg_count : supported[k] = supported[l] => k = l
  <2>1. /\ supported \in Seq(Identifiers) /\ Len(supported) = alg_count
        /\ \A k \in 1 .. alg_count : supported[k] = Table[k]
    BY <1>1 DEF MechInv
  <2>2. /\ \A n \in Identifiers : \E k \in 1 .. alg_count : Table[k] = n
        /\ \A k, l \in 1 .. alg_count : Table[k] = Table[l] => k = l
    BY <1>1 DEF IsTable
  <2> QED
    BY <2>1, <2>2
<1>3. Elements(supported) = Identifiers
  BY <1>2 DEF Elements
<1>4. Len(supported) = Cardinality(Identifiers)
  BY <1>2, OnceEach
<1>5. enabled \in Seq(Identifiers) /\ DOMAIN enabled = 1 .. Len(enabled)
  BY DEF MechInv
<1>6. Elements(enabled) = {n \in Identifiers : is_enabled(n)}
  <2>1. ASSUME NEW n \in Identifiers, is_enabled(n)
        PROVE  n \in Elements(enabled)
    BY <1>1, <1>2, <1>5, <2>1 DEF MechInv, EnabledSoFar, Elements
  <2>2. ASSUME NEW n \in Elements(enabled)
        PROVE  n \in Identifiers /\ is_enabled(n)
    BY <1>5 DEF MechInv, EnabledSoFar, Elements
  <2> QED
    BY <2>1, <2>2
<1>7. Len(enabled) = Cardinality(Elements(enabled))
  <2>1. enabled \in Seq(Elements(enabled))
    BY <1>5 DEF Elements
  <2>2. \A n \in Elements(enabled) :
            \E k \in 1 .. Len(enabled) : enabled[k] = n
    BY <1>5 DEF Elements
  <2>3. \A k, l \in 1 .. Len(enabled) : enabled[k] = enabled[l] => k = l
    BY DEF MechInv, EnabledSoFar
  <2> QED
    BY <2>1, <2>2, <2>3, OnceEach
<1> QED
  BY <1>3, <1>4, <1>6, <1>7

(* The two loops end with every name that the headers define and every one *)
(* that the build enables, each of them once, in whichever order liboqs    *)
(* has them.                                                               *)
THEOREM ListsAreComplete == MechSpec => []ListsComplete
<1>1. MechInv => ListsComplete
  <2> SUFFICES ASSUME MechInv, Done PROVE ListsComplete
    BY DEF ListsComplete
  <2>1. is_enabled(Default) /\ Default \in Identifiers
    BY EnabledIsSupported DEF MechInv
  <2> QED
    BY <2>1, ListsWhenDone DEF ListsComplete
<1> QED
  BY <1>1, MechInvariance, PTL

(* A constructor accepts the names on the list of the enabled ones and no  *)
(* other, and tells a disabled name from one it never heard of: whatever   *)
(* other names it is given.                                                *)
THEOREM OutcomeIsTold == MechSpec => []ListsTellOutcome
<1>1. MechInv => ListsTellOutcome
  <2> SUFFICES ASSUME MechInv PROVE ListsTellOutcome
    OBVIOUS
  <2>1. CASE tried.outcome = "none" /\ tried.name = <<"NULL">>
    <3>1. <<"NULL">> \notin Identifiers
      BY EnabledIsSupported DEF MechInv
    <3>2. tried.name \notin Elements(enabled) \cup Elements(supported)
      BY <2>1, <3>1 DEF MechInv, Elements
    <3> QED
      BY <2>1, <3>2 DEF ListsTellOutcome
  <2>2. CASE Done /\ tried.outcome = OutcomeOf(tried.name)
    <3> DEFINE n == tried.name
    <3>1. /\ n \in Elements(enabled) <=> is_enabled(n)
          /\ n \in Elements(supported) <=> n \in Identifiers
      BY <2>2, ListsWhenDone, EnabledIsSupported DEF MechInv
    <3>2. is_supported(n) <=> n \in Identifiers
      <4>1. IsTable(Table, Identifiers, alg_count) /\ alg_count \in Nat
        BY TableListed DEF MechInv
      <4>2. \A id \in 0 .. alg_count - 1 : get_name(id) = Table[id + 1]
        BY <4>1 DEF get_name, IsTable
      <4>3. ASSUME is_supported(n) PROVE n \in Identifiers
        <5>1. PICK id \in 0 .. alg_count - 1 : Table[id + 1] = n
          BY <4>2, <4>3 DEF is_supported
        <5> QED
          BY <4>1, <5>1 DEF IsTable
      <4>4. ASSUME n \in Identifiers PROVE is_supported(n)
        <5>1. PICK k \in 1 .. alg_count : Table[k] = n
          BY <4>1, <4>4 DEF IsTable
        <5>2. k - 1 \in 0 .. alg_count - 1 /\ get_name(k - 1) = n
          BY <4>1, <4>2, <5>1
        <5> QED
          BY <5>2 DEF is_supported
      <4> QED
        BY <4>3, <4>4
    <3>3. tried.outcome = IF is_enabled(n) THEN "constructed"
                          ELSE IF n \in Identifiers THEN "not_enabled"
                          ELSE "not_supported"
      BY <2>2, <3>2 DEF OutcomeOf
    <3> QED
      BY <3>1, <3>3 DEF ListsTellOutcome
  <2> QED
    BY <2>1, <2>2 DEF MechInv
<1> QED
  BY <1>1, MechInvariance, PTL

-----------------------------------------------------------------------------
(* The lengths, and what the wrappers' guards tell from them.              *)

(* The family and the parameter set, from the length of the secret key.    *)
KemBySecret(sk) ==
    CASE sk \in {3110, 6460}         -> <<"BIKE1", "L1">>
      [] sk \in {5788, 13236}        -> <<"BIKE1", "L3">>
      [] sk = 6452                   -> <<"Classic-McEliece", 348864>>
      [] sk = 13568                  -> <<"Classic-McEliece", 460896>>
      [] sk = 13892                  -> <<"Classic-McEliece", 6688128>>
      [] sk = 13908                  -> <<"Classic-McEliece", 6960119>>
      [] sk = 14080                  -> <<"Classic-McEliece", 8192128>>
      [] sk = 19888                  -> <<"FrodoKEM", 640>>
      [] sk = 31296                  -> <<"FrodoKEM", 976>>
      [] sk = 43088                  -> <<"FrodoKEM", 1344>>
      [] sk = 2289                   -> <<"HQC", 128>>
      [] sk = 4562                   -> <<"HQC", 192>>
      [] sk = 7285                   -> <<"HQC", 256>>
      [] sk = 1632                   -> <<"Kyber", 512>>
      [] sk = 2400                   -> <<"Kyber", 768>>
      [] sk = 3168                   -> <<"Kyber", 1024>>
      [] sk = 935                    -> <<"NTRU", "HPS-2048-509">>
      [] sk = 1234                   -> <<"NTRU", "HPS-2048-677">>
      [] sk = 1590                   -> <<"NTRU", "HPS-4096-821">>
      [] sk = 1450                   -> <<"NTRU", "HRSS-701">>
      [] sk \in {1125, 1294, 1463}   -> <<"ntruprime", "ntrulpr">>
      [] sk \in {1518, 1763, 1999}   -> <<"ntruprime", "sntrup">>
      [] sk = 1568                   -> <<"Saber", "LightSaber">>
      [] sk = 2304                   -> <<"Saber", "Saber">>
      [] sk = 3040                   -> <<"Saber", "FireSaber">>
      [] sk = 28                     -> <<"SIDH", 434>>
      [] sk = 32                     -> <<"SIDH", 503>>
      [] sk = 39                     -> <<"SIDH", 610>>
      [] sk = 48                     -> <<"SIDH", 751>>

(* The family, from the length of the public key.                          *)
SigByPublic(pk) ==
    CASE pk \in {1184, 1472, 1760}                -> "Dilithium"
      [] pk \in {897, 1793}                       -> "Falcon"
      [] pk \in {32, 48, 64}                      -> "SPHINCS+"
      [] pk \in {148992, 58144, 710640, 206744,
                 1705536, 491936}                 -> "Rainbow"

(* A row of the tables: the lengths l belong to family f and set s alone.  *)
KemRow(f, s, l) ==
    /\ KemBySecret(l[2]) = <<f, s>>
    /\ DOMAIN l = 1 .. 4
    /\ \A k \in 1 .. 4 : l[k] \in 1 .. MaxInt

SigRow(f, l) ==
    /\ SigByPublic(l[1]) = f
    /\ DOMAIN l = 1 .. 3
    /\ \A k \in 1 .. 3 : l[k] \in 1 .. MaxInt

KemTable(t) == \A n \in DOMAIN t : KemRow(n[1], n[2], t[n])

SizesTable(f, t) == \A s \in DOMAIN t : KemRow(f, s, t[s])

SigTable(t) == \A n \in DOMAIN t : SigRow(n[1], t[n])

(* The domain of a table of rows.                                          *)
LEMMA TableDomains ==
    /\ \A n, l, x : x \in DOMAIN (n :> l) <=> x = n
    /\ \A s, t, x : x \in DOMAIN (s @@ t) <=> x \in DOMAIN s \/ x \in DOMAIN t
BY SMT DEF :>, @@

(* A table of one row, and two tables joined, are tables of such rows.     *)
LEMMA TableRow ==
    ASSUME NEW n, NEW l
    PROVE  /\ KemRow(n[1], n[2], l) => KemTable(n :> l)
           /\ SigRow(n[1], l) => SigTable(n :> l)
           /\ \A f : KemRow(f, n, l) => SizesTable(f, n :> l)
BY SMT DEF :>, KemTable, SizesTable, SigTable

LEMMA TableMerge ==
    ASSUME NEW s, NEW t
    PROVE  /\ KemTable(s) /\ KemTable(t) => KemTable(s @@ t)
           /\ SigTable(s) /\ SigTable(t) => SigTable(s @@ t)
           /\ \A f : SizesTable(f, s) /\ SizesTable(f, t)
                        => SizesTable(f, s @@ t)
BY SMT DEF @@, KemTable, SizesTable, SigTable

(* A parameter set has the same lengths in every variant.                  *)
LEMMA BothVariantsTable ==
    ASSUME NEW f, NEW t, NEW V, SizesTable(f, t)
    PROVE  KemTable(BothVariants(f, t, V))
BY SMT DEF BothVariants, KemTable, SizesTable

(* No length reaches the width of a Java int.                              *)
LEMMA MaxIntIsLarge == MaxInt \in Int /\ MaxInt > 2000000
BY SMT DEF MaxInt

(* The tables of kem_*.h, a family each.                                   *)
LEMMA BikeTable == KemTable(BikeLengths)
<1>1. /\ KemRow("BIKE1", "L1", <<2542, 3110, 2542, 32>>)
      /\ KemRow("BIKE1", "L3", <<4964, 5788, 4964, 32>>)
      /\ KemRow("BIKE1", "L1", <<2946, 6460, 2946, 32>>)
      /\ KemRow("BIKE1", "L3", <<6206, 13236, 6206, 32>>)
  BY MaxIntIsLarge, SMT DEF KemRow, KemBySecret
<1> QED
  BY <1>1, TableRow, TableMerge, SMT
     DEF BikeLengths

LEMMA McElieceTable == KemTable(McElieceLengths)
<1>1. /\ KemRow("Classic-McEliece", 348864, <<261120, 6452, 128, 32>>)
      /\ KemRow("Classic-McEliece", 460896, <<524160, 13568, 188, 32>>)
      /\ KemRow("Classic-McEliece", 6688128, <<1044992, 13892, 240, 32>>)
      /\ KemRow("Classic-McEliece", 6960119, <<1047319, 13908, 226, 32>>)
      /\ KemRow("Classic-McEliece", 8192128, <<1357824, 14080, 240, 32>>)
  BY MaxIntIsLarge, SMT DEF KemRow, KemBySecret
<1> QED
  BY <1>1, TableRow, TableMerge, BothVariantsTable, SMT
     DEF McElieceLengths

LEMMA FrodoTable == KemTable(FrodoLengths)
<1>1. /\ KemRow("FrodoKEM", 640, <<9616, 19888, 9720, 16>>)
      /\ KemRow("FrodoKEM", 976, <<15632, 31296, 15744, 24>>)
      /\ KemRow("FrodoKEM", 1344, <<21520, 43088, 21632, 32>>)
  BY MaxIntIsLarge, SMT DEF KemRow, KemBySecret
<1> QED
  BY <1>1, TableRow, TableMerge, BothVariantsTable, SMT
     DEF FrodoLengths

LEMMA HqcTable == KemTable(HqcLengths)
<1>1. /\ KemRow("HQC", 128, <<2249, 2289, 4481, 64>>)
      /\ KemRow("HQC", 192, <<4522, 4562, 9026, 64>>)
      /\ KemRow("HQC", 256, <<7245, 7285, 14469, 64>>)
  BY MaxIntIsLarge, SMT DEF KemRow, KemBySecret
<1> QED
  BY <1>1, TableRow, TableMerge, SMT
     DEF HqcLengths

LEMMA KyberTable == KemTable(KyberLengths)
<1>1. /\ KemRow("Kyber", 512, <<800, 1632, 768, 32>>)
      /\ KemRow("Kyber", 768, <<1184, 2400, 1088, 32>>)
      /\ KemRow("Kyber", 1024, <<1568, 3168, 1568, 32>>)
  BY MaxIntIsLarge, SMT DEF KemRow, KemBySecret
<1> QED
  BY <1>1, TableRow, TableMerge, BothVariantsTable, SMT
     DEF KyberLengths

LEMMA NtruTable == KemTable(NtruLengths)
<1>1. /\ KemRow("NTRU", "HPS-2048-509", <<699, 935, 699, 32>>)
      /\ KemRow("NTRU", "HPS-2048-677", <<930, 1234, 930, 32>>)
      /\ KemRow("NTRU", "HPS-4096-821", <<1230, 1590, 1230, 32>>)
      /\ KemRow("NTRU", "HRSS-701", <<1138, 1450, 1138, 32>>)
  BY MaxIntIsLarge, SMT DEF KemRow, KemBySecret
<1> QED
  BY <1>1, TableRow, TableMerge, SMT
     DEF NtruLengths

LEMMA NtruPrimeTable == KemTable(NtruPrimeLengths)
<1>1. /\ KemRow("ntruprime", "ntrulpr", <<897, 1125, 1025, 32>>)
      /\ KemRow("ntruprime", "ntrulpr", <<1039, 1294, 1167, 32>>)
      /\ KemRow("ntruprime", "ntrulpr", <<1184, 1463, 1312, 32>>)
      /\ KemRow("ntruprime", "sntrup", <<994, 1518, 897, 32>>)
      /\ KemRow("ntruprime", "sntrup", <<1158, 1763, 1039, 32>>)
      /\ KemRow("ntruprime", "sntrup", <<1322, 1999, 1184, 32>>)
  BY MaxIntIsLarge, SMT DEF KemRow, KemBySecret
<1> QED
  BY <1>1, TableRow, TableMerge, SMT
     DEF NtruPrimeLengths

LEMMA SaberTable == KemTable(SaberLengths)
<1>1. /\ KemRow("Saber", "LightSaber", <<672, 1568, 736, 32>>)
      /\ KemRow("Saber", "Saber", <<992, 2304, 1088, 32>>)
      /\ KemRow("Saber", "FireSaber", <<1312, 3040, 1472, 32>>)
  BY MaxIntIsLarge, SMT DEF KemRow, KemBySecret
<1> QED
  BY <1>1, TableRow, TableMerge, SMT
     DEF SaberLengths

LEMMA SidhTable == KemTable(SidhLengths)
<1>1. /\ KemBySecret(28) = <<"SIDH", 434>>
      /\ KemBySecret(32) = <<"SIDH", 503>>
      /\ KemBySecret(39) = <<"SIDH", 610>>
      /\ KemBySecret(48) = <<"SIDH", 751>>
  BY SMT DEF KemBySecret
<1>2. /\ DOMAIN SidhSizes = {434, 503, 610, 751}
      /\ SidhSizes[434] = <<28, 110>> /\ SidhSizes[503] = <<32, 126>>
      /\ SidhSizes[610] = <<39, 154>> /\ SidhSizes[751] = <<48, 188>>
  BY SMT DEF SidhSizes, :>, @@
<1>3. /\ DOMAIN SidhPublicKey["plain"] = DOMAIN SidhSizes
      /\ DOMAIN SidhPublicKey["compressed"] = DOMAIN SidhSizes
      /\ \A v \in {"plain", "compressed"}, s \in DOMAIN SidhSizes :
            SidhPublicKey[v][s] \in Nat \ {0} /\ SidhPublicKey[v][s] < 1000
  BY <1>2, SMTT(20) DEF SidhPublicKey, :>, @@
<1>4. ASSUME NEW n \in DOMAIN SidhLengths
      PROVE  KemRow(n[1], n[2], SidhLengths[n])
  <2>1. /\ n[1] = "SIDH" /\ n[2] \in DOMAIN SidhSizes
        /\ n[3] \in {"plain", "compressed"}
    BY <1>4, SMT DEF SidhLengths
  <2>2. SidhLengths[n] =
            <<SidhPublicKey[n[3]][n[2]], SidhSizes[n[2]][1],
              SidhPublicKey[n[3]][n[2]], SidhSizes[n[2]][2]>>
    BY <1>4, SMT DEF SidhLengths
  <2> QED
    BY <1>1, <1>2, <1>3, <2>1, <2>2, MaxIntIsLarge, SMT DEF KemRow
<1> QED
  BY <1>4 DEF KemTable

(* What the build enables has lengths.                                     *)
LEMMA KemsListed ==
    ASSUME NEW n \in KemIdentifiers, n # Default, n[1] \in EnabledKems
    PROVE  n \in DOMAIN KemLengths
<1>1. ASSUME \/ n \in DOMAIN BikeLengths \/ n \in DOMAIN McElieceLengths
             \/ n \in DOMAIN FrodoLengths \/ n \in DOMAIN HqcLengths
             \/ n \in DOMAIN KyberLengths \/ n \in DOMAIN NtruLengths
             \/ n \in DOMAIN NtruPrimeLengths \/ n \in DOMAIN SaberLengths
             \/ n \in DOMAIN SidhLengths
      PROVE  n \in DOMAIN KemLengths
  BY <1>1, TableDomains, SMT DEF KemLengths
<1>2. ASSUME n \in {"BIKE1"} \X {"L1", "L3"} \X {"CPA", "FO"}
      PROVE  n \in DOMAIN BikeLengths
  BY <1>2, TableDomains, SMT DEF BikeLengths
<1>3. ASSUME n \in {"Classic-McEliece"} \X McElieceSets \X {"plain", "f"}
      PROVE  n \in DOMAIN McElieceLengths
  BY <1>3, TableDomains, SMT
     DEF McElieceLengths, BothVariants, McElieceSets
<1>4. ASSUME n \in {"FrodoKEM"} \X {640, 976, 1344} \X {"AES", "SHAKE"}
      PROVE  n \in DOMAIN FrodoLengths
  BY <1>4, TableDomains, SMT DEF FrodoLengths, BothVariants
<1>5. ASSUME n \in {"HQC"} \X {128, 192, 256}
      PROVE  n \in DOMAIN HqcLengths
  BY <1>5, TableDomains, SMT DEF HqcLengths
<1>6. ASSUME n \in {"Kyber"} \X {512, 768, 1024} \X {"plain", "90s"}
      PROVE  n \in DOMAIN KyberLengths
  BY <1>6, TableDomains, SMT DEF KyberLengths, BothVariants
<1>7. ASSUME n \in {"NTRU"} \X {"HPS-2048-509", "HPS-2048-677",
                               "HPS-4096-821", "HRSS-701"}
      PROVE  n \in DOMAIN NtruLengths
  BY <1>7, TableDomains, SMT DEF NtruLengths
<1>8. ASSUME n \in {"ntruprime"} \X {"ntrulpr", "sntrup"} \X {653, 761, 857}
      PROVE  n \in DOMAIN NtruPrimeLengths
  BY <1>8, TableDomains, SMT DEF NtruPrimeLengths
<1>9. ASSUME n \in {"Saber"} \X {"LightSaber", "Saber", "FireSaber"}
      PROVE  n \in DOMAIN SaberLengths
  BY <1>9, TableDomains, SMT DEF SaberLengths
<1>10. ASSUME n \in {"SIDH", "SIKE"} \X {434, 503, 610, 751}
                     \X {"plain", "compressed"}
       PROVE  n \in DOMAIN SidhLengths
  <2>1. n[1] = "SIDH"
    BY <1>10 DEF EnabledKems, PqcleanKems
  <2> QED
    BY <1>10, <2>1, TableDomains, SMT DEF SidhLengths, SidhSizes
<1> QED
  BY <1>1, <1>2, <1>3, <1>4, <1>5, <1>6, <1>7, <1>8, <1>9, <1>10, SMT
     DEF KemIdentifiers

(* Every row of the key encapsulation table is told by its secret key.     *)
LEMMA KemsTable == KemTable(KemLengths)
BY BikeTable, McElieceTable, FrodoTable, HqcTable, KyberTable, NtruTable,
   NtruPrimeTable, SaberTable, SidhTable, TableMerge, SMT DEF KemLengths

(* The tables of sig_*.h, a family each.                                   *)
LEMMA DilithiumTable == SigTable(DilithiumLengths)
<1>1. /\ SigRow("Dilithium", <<1184, 2800, 2044>>)
      /\ SigRow("Dilithium", <<1472, 3504, 2701>>)
      /\ SigRow("Dilithium", <<1760, 3856, 3366>>)
  BY MaxIntIsLarge, SMT DEF SigRow, SigByPublic
<1> QED
  BY <1>1, TableRow, TableMerge, SMT DEF DilithiumLengths

LEMMA FalconTable == SigTable(FalconLengths)
<1>1. /\ SigRow("Falcon", <<897, 1281, 690>>)
      /\ SigRow("Falcon", <<1793, 2305, 1330>>)
  BY MaxIntIsLarge, SMT DEF SigRow, SigByPublic
<1> QED
  BY <1>1, TableRow, TableMerge, SMT DEF FalconLengths

LEMMA RainbowTable == SigTable(RainbowLengths)
<1>1. \A pk \in {148992, 58144, 710640, 206744, 1705536, 491936} :
        SigByPublic(pk) = "Rainbow" /\ pk \in Nat \ {0} /\ pk < 2000000
  BY SMT DEF SigByPublic
<1>2. /\ DOMAIN RainbowSizes = {"Ia", "IIIc", "Vc"}
      /\ RainbowSizes["Ia"] = <<148992, 58144, 92960, 64>>
      /\ RainbowSizes["IIIc"] = <<710640, 206744, 511448, 156>>
      /\ RainbowSizes["Vc"] = <<1705536, 491936, 1227104, 204>>
  BY SMT DEF RainbowSizes, :>, @@
<1>3. ASSUME NEW n \in DOMAIN RainbowLengths
      PROVE  SigRow(n[1], RainbowLengths[n])
  <2>1. n[1] = "Rainbow" /\ n[2] \in DOMAIN RainbowSizes
    BY <1>3, SMT DEF RainbowLengths
  <2> DEFINE z == RainbowSizes[n[2]]
  <2>2. RainbowLengths[n] =
            <<IF n[3] = "Classic" THEN z[1] ELSE z[2],
              IF n[3] = "Cyclic-Compressed" THEN 64 ELSE z[3], z[4]>>
    BY <1>3, SMT DEF RainbowLengths
  <2>3. /\ z[1] \in Nat \ {0} /\ z[1] < 2000000
        /\ z[2] \in Nat \ {0} /\ z[2] < 2000000
        /\ z[3] \in Nat \ {0} /\ z[3] < 2000000
        /\ z[4] \in Nat \ {0} /\ z[4] < 2000000
        /\ SigByPublic(z[1]) = "Rainbow" /\ SigByPublic(z[2]) = "Rainbow"
    BY <1>1, <1>2, <2>1, SMT
  <2> HIDE DEF z
  <2> QED
    BY <2>1, <2>2, <2>3, MaxIntIsLarge, SMT DEF SigRow
<1> QED
  BY <1>3 DEF SigTable

(* The lengths of a SPHINCS+ row, once the signature's is appended.        *)
LEMMA AppendToPair ==
    ASSUME NEW a \in Nat, NEW b \in Nat, NEW c \in Nat,
           NEW s \in Seq(Nat), s = <<a, b>>
    PROVE  /\ DOMAIN Append(s, c) = 1 .. 3
           /\ Append(s, c)[1] = a /\ Append(s, c)[2] = b
           /\ Append(s, c)[3] = c
<1>1. DOMAIN Append(s, c) = 1 .. 3
  OBVIOUS
<1>2. Append(s, c)[1] = a
  OBVIOUS
<1>3. Append(s, c)[2] = b
  OBVIOUS
<1>4. Append(s, c)[3] = c
  OBVIOUS
<1> QED
  BY <1>1, <1>2, <1>3, <1>4

LEMMA SphincsTable == \A hash : SigTable(SphincsOf(hash))
<1>1. ASSUME NEW bits \in {128, 192, 256}
      PROVE  /\ SphincsKeys(bits) = <<bits \div 4, bits \div 2>>
             /\ bits \div 4 \in {32, 48, 64} /\ bits \div 2 \in {64, 96, 128}
  BY SMT DEF SphincsKeys
<1>2. \A pk \in {32, 48, 64} : SigByPublic(pk) = "SPHINCS+"
  BY SMT DEF SigByPublic
<1>3. \A v \in {"f", "s"}, bits \in {128, 192, 256} :
        /\ SphincsSignature[v][bits] \in Nat \ {0}
        /\ SphincsSignature[v][bits] < 100000
  BY SMT DEF SphincsSignature, :>, @@
<1>4. ASSUME NEW hash, NEW n \in DOMAIN SphincsOf(hash)
      PROVE  SigRow(n[1], SphincsOf(hash)[n])
  <2> DEFINE pk == n[3] \div 4
             sk == n[3] \div 2
             sg == SphincsSignature[n[4]][n[3]]
             s  == SphincsKeys(n[3])
  <2>1. n[1] = "SPHINCS+" /\ n[3] \in {128, 192, 256} /\ n[4] \in {"f", "s"}
    BY <1>4, SMT DEF SphincsOf
  <2>2. SphincsOf(hash)[n] = Append(s, sg)
    BY <1>4, SMT DEF SphincsOf
  <2>3. s = <<pk, sk>> /\ pk \in {32, 48, 64} /\ sk \in {64, 96, 128}
    BY <1>1, <2>1
  <2>4. sg \in Nat \ {0} /\ sg < 100000
    BY <1>3, <2>1
  <2> HIDE DEF pk, sk, sg, s
  <2>5. pk \in Nat /\ sk \in Nat /\ s \in Seq(Nat)
    BY <2>3, SMT
  <2>6. /\ DOMAIN Append(s, sg) = 1 .. 3
        /\ Append(s, sg)[1] = pk /\ Append(s, sg)[2] = sk
        /\ Append(s, sg)[3] = sg
    BY <2>3, <2>4, <2>5, AppendToPair
  <2> DEFINE l == Append(s, sg)
  <2> HIDE DEF l
  <2>7. SigRow("SPHINCS+", l)
    <3>1. DOMAIN l = 1 .. 3 /\ l[1] = pk /\ l[2] = sk /\ l[3] = sg
      BY <2>6 DEF l
    <3>2. SigByPublic(l[1]) = "SPHINCS+"
      BY <1>2, <2>3, <3>1
    <3>3. ASSUME NEW k \in 1 .. 3 PROVE l[k] \in 1 .. MaxInt
      <4>1. l[k] \in Nat \ {0} /\ l[k] < 2000000
        BY <2>3, <2>4, <3>1, SMT
      <4> QED
        BY <4>1, MaxIntIsLarge, SMT
    <3> QED
      BY <3>1, <3>2, <3>3 DEF SigRow
  <2> QED
    BY <2>1, <2>2, <2>7 DEF l
<1> QED
  BY <1>4 DEF SigTable

(* Every row of the signature table is told by its public key.             *)
LEMMA SigsTable == SigTable(SigLengths)
BY DilithiumTable, FalconTable, RainbowTable, SphincsTable, TableMerge, SMT
   DEF SigLengths, HarakaLengths, Sha256Lengths, Shake256Lengths

(* What the build enables has lengths: picnic is not among it.             *)
LEMMA SigsListed ==
    ASSUME NEW n \in SigIdentifiers, n # Default, n[1] \in EnabledSigs
    PROVE  n \in DOMAIN SigLengths
<1>1. ASSUME \/ n \in DOMAIN DilithiumLengths \/ n \in DOMAIN FalconLengths
             \/ n \in DOMAIN RainbowLengths
             \/ \E h \in {"Haraka", "SHA256", "SHAKE256"} :
                    n \in DOMAIN SphincsOf(h)
      PROVE  n \in DOMAIN SigLengths
  BY <1>1, TableDomains, SMT
     DEF SigLengths, HarakaLengths, Sha256Lengths, Shake256Lengths
<1>2. ASSUME n \in {"Dilithium"} \X {2, 3, 4}
      PROVE  n \in DOMAIN DilithiumLengths
  BY <1>2, TableDomains, SMT DEF DilithiumLengths
<1>3. ASSUME n \in {"Falcon"} \X {512, 1024}
      PROVE  n \in DOMAIN FalconLengths
  BY <1>3, TableDomains, SMT DEF FalconLengths
<1>4. ASSUME n \in {"Rainbow"} \X {"Ia", "IIIc", "Vc"}
                    \X {"Classic", "Cyclic", "Cyclic-Compressed"}
      PROVE  n \in DOMAIN RainbowLengths
  BY <1>4, TableDomains, SMT DEF RainbowLengths, RainbowSizes
<1>5. ASSUME n \in {"SPHINCS+"} \X {"Haraka", "SHA256", "SHAKE256"}
                    \X {128, 192, 256} \X {"f", "s"} \X {"robust", "simple"}
      PROVE  \E h \in {"Haraka", "SHA256", "SHAKE256"} :
                n \in DOMAIN SphincsOf(h)
  BY <1>5, SMT DEF SphincsOf
<1>6. ASSUME \/ n \in {"picnic"} \X {"L1", "L3", "L5"} \X {"FS", "UR", "full"}
             \/ n \in {"picnic3"} \X {"L1", "L3", "L5"}
      PROVE  FALSE
  BY <1>6, SMT DEF EnabledSigs, PqcleanSigs
<1> QED
  BY <1>1, <1>2, <1>3, <1>4, <1>5, <1>6, SMT DEF SigIdentifiers

(* The two tests of decap_secret, and those of verify, keep the families   *)
(* apart, and those of decap_secret the parameter sets: for every          *)
(* algorithm that a constructor accepts, whatever order liboqs lists them  *)
(* in.                                                                     *)
THEOREM FamiliesAreTold == MechSpec => []GuardsTellFamilies
<1>1. ASSUME MechInv, Constructed
      PROVE  /\ Resolved(tried.name) \in DOMAIN MechLengths
             /\ IF Sig THEN SigTable(MechLengths) ELSE KemTable(MechLengths)
  <2>1. is_enabled(tried.name)
    BY <1>1, SMT DEF Constructed, MechInv, OutcomeOf
  <2>2. Resolved(tried.name) # Default
    BY SMT DEF Resolved, Default, SigDefault, KemDefault
  <2>3. CASE Sig
    BY <2>1, <2>2, <2>3, SigsListed, SigsTable
       DEF is_enabled, Identifiers, MechLengths
  <2>4. CASE ~ Sig
    BY <2>1, <2>2, <2>4, KemsListed, KemsTable
       DEF is_enabled, Identifiers, MechLengths
  <2> QED
    BY <2>3, <2>4
<1>2. ASSUME MechInv, Constructed
      PROVE  \A k \in DOMAIN Detail : Detail[k] \in 1 .. MaxInt
  <2>1. CASE Sig
    BY <1>1, <1>2, <2>1 DEF Detail, SigTable, SigRow
  <2>2. CASE ~ Sig
    BY <1>1, <1>2, <2>2 DEF Detail, KemTable, KemRow
  <2> QED
    BY <2>1, <2>2
<1>3. ASSUME MechInv, Constructed, scheme = "kem",
             NEW n \in DOMAIN MechLengths, MechLengths[n][2] = Detail[2]
      PROVE  /\ n[1] = Resolved(tried.name)[1]
             /\ n[2] = Resolved(tried.name)[2]
  <2> DEFINE m == Resolved(tried.name)
  <2>1. KemTable(MechLengths) /\ m \in DOMAIN MechLengths
    BY <1>1, <1>3 DEF Sig
  <2>2. /\ KemBySecret(Detail[2]) = <<m[1], m[2]>>
        /\ KemBySecret(Detail[2]) = <<n[1], n[2]>>
    BY <1>3, <2>1 DEF KemTable, KemRow, Detail
  <2> QED
    BY <2>2
<1>4. ASSUME MechInv, Constructed, scheme = "sig",
             NEW n \in DOMAIN MechLengths, MechLengths[n][1] = Detail[1]
      PROVE  n[1] = Resolved(tried.name)[1]
  BY <1>1, <1>4 DEF Sig, SigTable, SigRow, Detail
<1>5. MechInv => GuardsTellFamilies
  BY <1>1, <1>2, <1>3, <1>4 DEF GuardsTellFamilies
<1> QED
  BY <1>5, MechInvariance, PTL
=============================================================================
