-------------------------- MODULE OqsObjectsProofs --------------------------
(***************************************************************************)
(* What every operation on a liboqs object preserves, for any number of    *)
(* objects, addresses, algorithms and keys.  The lemmas are about the      *)
(* actions of OqsObjects, so that both wrappers can cite them.             *)
(***************************************************************************)
EXTENDS OqsObjects, TLAPS

(* An object that was given a pair or has generated one holds a key; one   *)
(* that has generated it has it in both its arrays, which have the lengths *)
(* of the algorithm unless a caller broke that rule.                       *)
PairInBoth ==
    \A o \in Objects : obj[o] # NoObject =>
        /\ obj[o].key_from \in {"given", "generated"} =>
                obj[o].secret_key \in Keys
        /\ obj[o].key_from = "generated" =>
            /\ obj[o].public_key = obj[o].secret_key
            /\ "keyLength" \notin broken =>
                    obj[o].length = Lengths[obj[o].alg]["secret_key"]

ObjectsInv == ObjectsTypeOK /\ HandleValid /\ NoWildAccess /\ PairInBoth

-----------------------------------------------------------------------------

LEMMA ObjectTyped ==
    ASSUME ObjectsTypeOK, NEW o \in Objects, obj[o] # NoObject
    PROVE  obj[o] \in JavaObject
BY DEF ObjectsTypeOK

(* The invariant holds of the empty process. *)
LEMMA InitObjectsInv == InitObjects => ObjectsInv
BY ObjectAssumption, AddressAssumption
   DEF InitObjects, ObjectsInv, ObjectsTypeOK, HandleValid, NoWildAccess,
       PairInBoth, Live

(* A restart establishes it again. *)
LEMMA RestartInv == Restart => ObjectsInv'
BY ObjectAssumption, AddressAssumption
   DEF Restart, ObjectsInv, ObjectsTypeOK, HandleValid, NoWildAccess,
       PairInBoth, Live

(* What the constructor makes is a typed object of that algorithm. *)
LEMMA NewObjectTyped ==
    ASSUME NEW a \in Algorithms, NEW k \in Keys \cup {Blank}, NEW l \in Nat,
           NEW t \in Addresses
    PROVE  /\ setHandle(NewObject(a, k, l), t) \in JavaObject
           /\ setHandle(NewObject(a, k, l), t).alg = a
           /\ setHandle(NewObject(a, k, l), t).handle = t
           /\ setHandle(NewObject(a, k, l), t).key_from # "generated"
           /\ setHandle(NewObject(a, k, l), t).key_from = "given" =>
                    setHandle(NewObject(a, k, l), t).secret_key \in Keys
BY KeysAssumption DEF setHandle, NewObject, JavaObject, KeyContents, Sources

-----------------------------------------------------------------------------
(* Handles. *)

(* Handles stay valid when no object comes to life, and none that lives    *)
(* gets another handle or loses what its handle leads to.                  *)
LEMMA HandlesKept ==
    ASSUME HandleValid, broken \subseteq broken',
           \A q \in Live' :
                /\ q \in Live
                /\ getHandle(obj[q])' = getHandle(obj[q])
                /\ obj'[q].alg = obj[q].alg
                /\ getHandle(obj[q]) # NULL /\ "disposeLast" \notin broken' =>
                        native'[getHandle(obj[q])] = native[getHandle(obj[q])]
    PROVE  HandleValid'
BY DEF HandleValid

(* They stay valid when an object gets the handle of what was just         *)
(* allocated: the address was free, so no other handle leads there.        *)
LEMMA HandleAllocated ==
    ASSUME ObjectsTypeOK, HandleValid, broken \subseteq broken',
           NEW o \in Objects, NEW a \in Algorithms, NEW t \in Addresses,
           native[t] = Free, native' = OQS_new(t, a),
           obj'[o].handle = t, "ownAlgorithm" \notin broken' => obj'[o].alg = a,
           \A q \in Objects \ {o} : obj'[q] = obj[q]
    PROVE  HandleValid'
<1> SUFFICES ASSUME "disposeLast" \notin broken',
                    NEW q \in Live', getHandle(obj'[q]) # NULL
             PROVE  /\ native'[getHandle(obj'[q])] # Free
                    /\ "ownAlgorithm" \notin broken' =>
                            native'[getHandle(obj'[q])] = obj'[q].alg
                    /\ \A z \in Live' \ {q} :
                            getHandle(obj'[z]) # getHandle(obj'[q])
  BY DEF HandleValid
<1>1. native'[t] = a /\ \A p \in Addresses \ {t} : native'[p] = native[p]
  BY DEF OQS_new
<1>2. \A z \in Live' \ {o} : z \in Live /\ obj'[z] = obj[z]
  BY DEF Live
<1>3. \A z \in Live' \ {o} : getHandle(obj[z]) # t
  BY <1>2, AddressAssumption DEF HandleValid
<1>4. CASE q = o
  BY <1>1, <1>2, <1>3, <1>4, AddressAssumption DEF getHandle
<1>5. CASE q # o
  <2>1. q \in Live /\ obj'[q] = obj[q]
    BY <1>2, <1>5
  <2>2. getHandle(obj[q]) \in Addresses \ {t}
    BY <2>1, <1>3, <1>5, ObjectTyped DEF Live, JavaObject, getHandle
  <2>3. native'[getHandle(obj[q])] = native[getHandle(obj[q])]
    BY <2>2, <1>1
  <2>4. \A z \in Live' \ {q} : getHandle(obj'[z]) # getHandle(obj[q])
    BY <1>2, <2>1, <2>2 DEF HandleValid, getHandle
  <2> QED
    BY <2>1, <2>3, <2>4 DEF HandleValid
<1> QED
  BY <1>4, <1>5

(* A misuse has its cause in a rule that was broken, now or before, when   *)
(* the arrays suit the algorithm of the object or the caller broke a rule  *)
(* to make them otherwise.                                                 *)
LEMMA MisuseExplained ==
    ASSUME ObjectsInv, NEW o \in Objects, obj[o] # NoObject,
           NEW given, Misuses(obj[o], given),
           broken \subseteq broken',
           obj[o].disposed => "disposeLast" \in broken',
           broken' = {} => \A x \in DOMAIN given :
                                ~ (Lengths[obj[o].alg][x] > given[x])
    PROVE  /\ fault' \in {"freed", "overrun"}
           /\ fault' = "freed" => "disposeLast" \in broken'
           /\ fault' = "overrun" => broken' # {}
<1> DEFINE h == getHandle(obj[o])
<1>1. fault' = IF Dangling(obj[o]) THEN "freed" ELSE "overrun"
  BY DEF Misuses
<1>2. ASSUME "disposeLast" \notin broken'
      PROVE  ~ Dangling(obj[o])
  BY <1>2 DEF ObjectsInv, HandleValid, Live, Dangling
<1>3. ASSUME broken' = {}
      PROVE  ~ Overruns(obj[o], given)
  <2>1. o \in Live /\ "disposeLast" \notin broken /\ "ownAlgorithm" \notin broken
    BY <1>3 DEF Live
  <2>2. h # NULL => native[h] = obj[o].alg
    BY <2>1 DEF ObjectsInv, HandleValid
  <2> QED
    BY <2>2, <1>3 DEF Overruns
<1>4. Dangling(obj[o]) \/ Overruns(obj[o], given)
  BY DEF Misuses, Sound
<1> QED
  BY <1>1, <1>2, <1>3, <1>4

-----------------------------------------------------------------------------
(* The operations. *)

(* A call that leaves the objects as they are: sign and verify,            *)
(* encap_secret and decap_secret.                                          *)
LEMMA CallInv ==
    ASSUME ObjectsInv, UNCHANGED <<native, obj>>,
           broken \subseteq broken', broken' \subseteq Rules,
           remaining' \subseteq Keys \cup {"output"},
           fault' \in {"none", "freed", "overrun", "abort"},
           fault' = "freed" => "disposeLast" \in broken',
           fault' = "overrun" => broken' # {}
    PROVE  ObjectsInv'
<1>1. HandleValid'
  BY HandlesKept DEF ObjectsInv, Live
<1> QED
  BY <1>1 DEF ObjectsInv, ObjectsTypeOK, NoWildAccess, PairInBoth

(* The constructor.                                                        *)
LEMMA ConstructInv ==
    ASSUME ObjectsInv, NEW o \in Objects, NEW a \in Algorithms,
           NEW k \in Keys \cup {Blank}, NEW l \in Nat, Construct(o, a, k, l)
    PROVE  ObjectsInv'
<1> USE DEF ObjectsInv
<1>1. PICK t \in Allocations :
        /\ native' = OQS_new(t, a)
        /\ IF t = NULL
           THEN fault' = "null" /\ UNCHANGED obj
           ELSE /\ obj' = [obj EXCEPT
                            ![o] = setHandle(NewObject(native'[t], k, l), t)]
                /\ UNCHANGED fault
  BY DEF Construct
<1>2. fault = "none" /\ obj[o] = NoObject /\ UNCHANGED <<remaining, broken>>
  BY DEF Construct
<1>3. CASE t = NULL
  <2>1. native' = native
    BY <1>1, <1>3, AddressAssumption DEF OQS_new, ObjectsTypeOK
  <2>2. fault' = "null" /\ UNCHANGED obj
    BY <1>1, <1>3
  <2> QED
    BY <1>2, <2>1, <2>2 DEF ObjectsTypeOK, HandleValid, NoWildAccess,
                            PairInBoth, Live, getHandle
<1>4. CASE t # NULL
  <2>1. t \in Addresses /\ native[t] = Free
    BY <1>1, <1>4 DEF Allocations
  <2>2. native'[t] = a
    BY <1>1, <2>1 DEF OQS_new
  <2> DEFINE r == setHandle(NewObject(a, k, l), t)
  <2>3. obj' = [obj EXCEPT ![o] = r] /\ UNCHANGED fault
    BY <1>1, <1>4, <2>2
  <2>4. /\ r \in JavaObject /\ r.alg = a /\ r.handle = t
        /\ r.key_from # "generated"
        /\ r.key_from = "given" => r.secret_key \in Keys
    <3>1. setHandle(NewObject(a, k, l), t) \in JavaObject
      BY <2>1, NewObjectTyped
    <3>2. /\ setHandle(NewObject(a, k, l), t).alg = a
          /\ setHandle(NewObject(a, k, l), t).handle = t
          /\ setHandle(NewObject(a, k, l), t).key_from # "generated"
          /\ setHandle(NewObject(a, k, l), t).key_from = "given" =>
                    setHandle(NewObject(a, k, l), t).secret_key \in Keys
      BY <2>1, NewObjectTyped
    <3> QED
      BY <3>1, <3>2
  <2> HIDE DEF r
  <2>5. obj'[o] = r /\ \A q \in Objects \ {o} : obj'[q] = obj[q]
    BY <2>3 DEF ObjectsTypeOK
  <2>6. ObjectsTypeOK'
    BY <1>1, <1>2, <2>3, <2>4 DEF ObjectsTypeOK, OQS_new
  <2>7. HandleValid'
    BY <1>1, <1>2, <2>1, <2>4, <2>5, HandleAllocated
  <2>8. NoWildAccess' /\ PairInBoth'
    BY <1>2, <2>3, <2>4, <2>5 DEF NoWildAccess, PairInBoth
  <2> QED
    BY <2>6, <2>7, <2>8
<1> QED
  BY <1>3, <1>4

(* create_new, called again. *)
LEMMA CreateAgainInv ==
    ASSUME ObjectsInv, NEW o \in Objects, NEW a \in Algorithms,
           CreateAgain(o, a)
    PROVE  ObjectsInv'
<1> USE DEF ObjectsInv
<1>1. PICK t \in Allocations :
        /\ native' = OQS_new(t, a)
        /\ obj' = [obj EXCEPT ![o] = [setHandle(obj[o], t)
                                        EXCEPT !.disposed = FALSE]]
  BY DEF CreateAgain
<1>2. /\ obj[o] # NoObject /\ UNCHANGED <<remaining, fault>>
      /\ broken \subseteq broken' /\ broken' \subseteq Rules
      /\ a # obj[o].alg => "ownAlgorithm" \in broken'
  BY DEF CreateAgain, Calls, Breaks, ObjectsTypeOK, Rules
<1> DEFINE r == [setHandle(obj[o], t) EXCEPT !.disposed = FALSE]
<1>3. obj[o] \in JavaObject
  BY <1>2, ObjectTyped
<1>4. t \in Addresses \cup {NULL}
  BY DEF Allocations
<1>5. /\ r \in JavaObject /\ r.handle = t /\ r.alg = obj[o].alg
      /\ r.key_from = obj[o].key_from /\ r.public_key = obj[o].public_key
      /\ r.secret_key = obj[o].secret_key /\ r.length = obj[o].length
  BY <1>3, <1>4 DEF setHandle, JavaObject
<1>6. obj' = [obj EXCEPT ![o] = r]
  BY <1>1
<1> HIDE DEF r
<1>7. obj'[o] = r /\ \A q \in Objects \ {o} : obj'[q] = obj[q]
  BY <1>6 DEF ObjectsTypeOK
<1>8. ObjectsTypeOK'
  BY <1>1, <1>2, <1>5, <1>6 DEF ObjectsTypeOK, OQS_new
<1>9. PairInBoth'
  BY <1>2, <1>5, <1>7 DEF PairInBoth
<1>10. HandleValid'
  <2>1. CASE t = NULL
    <3>1. native' = native
      BY <1>1, <2>1, AddressAssumption DEF OQS_new, ObjectsTypeOK
    <3>2. getHandle(obj'[o]) = NULL
      BY <1>5, <1>7, <2>1 DEF getHandle
    <3> QED
      BY <1>2, <1>7, <3>1, <3>2 DEF HandleValid, Live
  <2>2. CASE t # NULL
    <3>1. t \in Addresses /\ native[t] = Free
      BY <2>2 DEF Allocations
    <3> QED
      BY <1>1, <1>2, <1>5, <1>7, <3>1, HandleAllocated
  <2> QED
    BY <2>1, <2>2
<1> QED
  BY <1>2, <1>8, <1>9, <1>10 DEF NoWildAccess

(* Whatever liboqs wrote and however the arrays were released, a pair that *)
(* generate_keypair returns is in both arrays, and it is a pair.           *)
LEMMA WithKeypairTyped ==
    ASSUME NEW r \in JavaObject, NEW w \in OQS_keypair(r),
           NEW pkCopied \in BOOLEAN, NEW skCopied \in BOOLEAN
    PROVE  LET x == WithKeypair(r, w, pkCopied, skCopied) IN
           /\ x \in JavaObject
           /\ x.handle = r.handle /\ x.alg = r.alg
           /\ x.disposed = r.disposed /\ x.length = r.length
           /\ x.key_from \in {"generated", "failed"}
           /\ x.secret_key = w.sk
           /\ x.key_from = "generated" =>
                x.public_key = x.secret_key /\ x.secret_key \in Keys
           /\ InNative(w.sk, KeypairMode, skCopied) \subseteq Keys \cap {w.sk}
<1>1. /\ w.pk \in KeyContents /\ w.sk \in KeyContents /\ w.ok \in BOOLEAN
      /\ w.ok => w.pk = w.sk /\ w.sk \in Keys
  <2>1. CASE getHandle(r) = NULL
    <3>1. w = [pk |-> r.public_key, sk |-> r.secret_key, ok |-> FALSE]
      BY <2>1 DEF OQS_keypair
    <3>2. w.pk = r.public_key /\ w.sk = r.secret_key /\ w.ok = FALSE
      BY <3>1
    <3> QED
      BY <3>2 DEF JavaObject
  <2>2. CASE w \in {[pk |-> k, sk |-> k, ok |-> TRUE] : k \in Fresh}
    <3>1. PICK k \in Fresh : w = [pk |-> k, sk |-> k, ok |-> TRUE]
      BY <2>2
    <3>2. w.pk = k /\ w.sk = k /\ w.ok = TRUE
      BY <3>1
    <3> QED
      BY <3>2 DEF KeyContents, Keys
  <2>3. CASE w \in [pk : {r.public_key, Junk}, sk : {r.secret_key, Junk},
                    ok : {FALSE}]
    BY <2>3 DEF JavaObject, KeyContents
  <2> QED
    BY <2>1, <2>2, <2>3 DEF OQS_keypair
<1>2. WithKeypair(r, w, pkCopied, skCopied) =
        [r EXCEPT !.public_key = w.pk, !.secret_key = w.sk,
                  !.key_from = IF w.ok THEN "generated" ELSE "failed"]
  BY DEF WithKeypair, InJava, KeypairMode
<1>3. InNative(w.sk, KeypairMode, skCopied) \subseteq Keys \cap {w.sk}
  BY <1>1 DEF InNative, KeypairMode, KeyContents
<1> QED
  BY <1>1, <1>2, <1>3 DEF JavaObject, Sources

(* generate_keypair. *)
LEMMA GenerateInv ==
    ASSUME ObjectsInv, NEW o \in Objects, GenerateKeypair(o)
    PROVE  ObjectsInv'
<1> DEFINE r == obj[o]
<1>1. r # NoObject /\ fault = "none"
  BY DEF GenerateKeypair, Calls
<1>2. r \in JavaObject
  BY <1>1, ObjectTyped DEF ObjectsInv
<1>3. /\ broken \subseteq broken' /\ broken' \subseteq Rules
      /\ r.disposed => "disposeLast" \in broken'
      /\ r.length # Lengths[r.alg]["secret_key"] => "keyLength" \in broken'
  BY DEF GenerateKeypair, Breaks, ObjectsInv, ObjectsTypeOK, Rules
<1>4. CASE Misuses(r, KeypairArrays(r))
  <2>1. broken' = {} => \A x \in DOMAIN KeypairArrays(r) :
                            ~ (Lengths[r.alg][x] > KeypairArrays(r)[x])
    BY <1>2, <1>3, LengthsAssumption
       DEF KeypairArrays, JavaObject, Arrays
  <2>2. /\ fault' \in {"freed", "overrun"}
        /\ fault' = "freed" => "disposeLast" \in broken'
        /\ fault' = "overrun" => broken' # {}
    BY <1>1, <1>3, <1>4, <2>1, MisuseExplained
  <2>3. UNCHANGED <<native, obj, remaining>>
    BY <1>4 DEF Misuses
  <2> QED
    BY <1>3, <2>2, <2>3, CallInv DEF ObjectsInv, ObjectsTypeOK
<1>5. CASE ~ Misuses(r, KeypairArrays(r))
  <2>1. PICK w \in OQS_keypair(r), pkCopied \in BOOLEAN, skCopied \in BOOLEAN :
            /\ obj' = [obj EXCEPT ![o] = WithKeypair(r, w, pkCopied, skCopied)]
            /\ remaining' = remaining \cup InNative(w.sk, KeypairMode, skCopied)
    BY <1>5 DEF GenerateKeypair
  <2>2. UNCHANGED <<native, fault>>
    BY <1>5 DEF GenerateKeypair
  <2> DEFINE n == WithKeypair(r, w, pkCopied, skCopied)
  <2>3. /\ n \in JavaObject /\ n.handle = r.handle /\ n.alg = r.alg
        /\ n.disposed = r.disposed /\ n.length = r.length
        /\ n.key_from \in {"generated", "failed"}
        /\ n.key_from = "generated" =>
                n.public_key = n.secret_key /\ n.secret_key \in Keys
        /\ InNative(w.sk, KeypairMode, skCopied) \subseteq Keys
    BY <1>2, WithKeypairTyped
  <2>4. obj' = [obj EXCEPT ![o] = n]
    BY <2>1
  <2> HIDE DEF n
  <2>5. obj'[o] = n /\ \A q \in Objects \ {o} : obj'[q] = obj[q]
    BY <2>4 DEF ObjectsInv, ObjectsTypeOK
  <2>6. ObjectsTypeOK'
    BY <1>3, <2>1, <2>2, <2>3, <2>4 DEF ObjectsInv, ObjectsTypeOK
  <2>7. \A q \in Live' : /\ q \in Live
                         /\ getHandle(obj[q])' = getHandle(obj[q])
                         /\ obj'[q].alg = obj[q].alg
    BY <1>1, <2>3, <2>5 DEF Live, getHandle
  <2>8. HandleValid'
    BY <1>3, <2>2, <2>7, HandlesKept DEF ObjectsInv
  <2>9. PairInBoth' /\ NoWildAccess'
    BY <1>1, <1>3, <2>2, <2>3, <2>5 DEF ObjectsInv, PairInBoth, NoWildAccess
  <2> QED
    BY <2>6, <2>8, <2>9 DEF ObjectsInv
<1> QED
  BY <1>4, <1>5

(* dispose frees what only this handle leads to, unless the object was     *)
(* disposed before, which breaks the rule.                                 *)
LEMMA DisposeInv ==
    ASSUME ObjectsInv, NEW o \in Objects, Dispose(o)
    PROVE  ObjectsInv'
<1> DEFINE r == obj[o]
<1>1. r # NoObject /\ fault = "none"
  BY DEF Dispose, Calls
<1>2. r \in JavaObject
  BY <1>1, ObjectTyped DEF ObjectsInv
<1>3. /\ broken \subseteq broken' /\ broken' \subseteq Rules
      /\ r.disposed => "disposeLast" \in broken'
  BY DEF Dispose, Breaks, ObjectsInv, ObjectsTypeOK, Rules
<1>4. CASE Misuses(r, <<>>)
  <2>1. DOMAIN <<>> = {}
    OBVIOUS
  <2>2. /\ fault' \in {"freed", "overrun"}
        /\ fault' = "freed" => "disposeLast" \in broken'
        /\ fault' = "overrun" => broken' # {}
    BY <1>1, <1>3, <1>4, <2>1, MisuseExplained
  <2>3. UNCHANGED <<native, obj, remaining>>
    BY <1>4 DEF Misuses
  <2> QED
    BY <1>3, <2>2, <2>3, CallInv DEF ObjectsInv, ObjectsTypeOK
<1>5. CASE ~ Misuses(r, <<>>)
  <2>1. /\ native' = OQS_free(getHandle(r))
        /\ obj' = [obj EXCEPT ![o] = Wiped(r)]
        /\ UNCHANGED <<remaining, fault>>
    BY <1>5 DEF Dispose
  <2>2. Wiped(r) \in JavaObject /\ Wiped(r).disposed
        /\ Wiped(r).key_from = "none"
    BY <1>2 DEF Wiped, JavaObject, KeyContents, Sources
  <2>3. obj'[o] = Wiped(r) /\ \A q \in Objects \ {o} : obj'[q] = obj[q]
    BY <2>1 DEF ObjectsInv, ObjectsTypeOK
  <2>4. ObjectsTypeOK'
    BY <1>3, <2>1, <2>2 DEF ObjectsInv, ObjectsTypeOK, OQS_free
  <2>5. \A q \in Live' : q \in Live \ {o} /\ obj'[q] = obj[q]
    BY <2>2, <2>3 DEF Live
  <2>6. ASSUME NEW q \in Live', getHandle(obj[q]) # NULL,
               "disposeLast" \notin broken'
        PROVE  native'[getHandle(obj[q])] = native[getHandle(obj[q])]
    <3>1. o \in Live
      BY <1>1, <1>3, <2>6 DEF Live
    <3>2. getHandle(r) # getHandle(obj[q])
      BY <1>3, <2>5, <2>6, <3>1 DEF ObjectsInv, HandleValid
    <3>3. getHandle(obj[q]) \in Addresses
      BY <2>5, <2>6, ObjectTyped DEF ObjectsInv, Live, JavaObject, getHandle
    <3> QED
      BY <2>1, <3>2, <3>3 DEF OQS_free
  <2>7. HandleValid'
    BY <1>3, <2>5, <2>6, HandlesKept DEF ObjectsInv
  <2>8. PairInBoth' /\ NoWildAccess'
    BY <1>1, <1>3, <2>1, <2>2, <2>3 DEF ObjectsInv, PairInBoth, NoWildAccess
  <2> QED
    BY <2>4, <2>7, <2>8 DEF ObjectsInv
<1> QED
  BY <1>4, <1>5

(* The last reference to an object goes. *)
LEMMA DropInv ==
    ASSUME ObjectsInv, NEW o \in Objects, Drop(o)
    PROVE  ObjectsInv'
<1>1. /\ obj' = [obj EXCEPT ![o] = NoObject]
      /\ UNCHANGED <<native, remaining, fault, broken>>
  BY DEF Drop
<1>2. obj'[o] = NoObject /\ \A q \in Objects \ {o} : obj'[q] = obj[q]
  BY <1>1 DEF ObjectsInv, ObjectsTypeOK
<1>3. \A q \in Live' : q \in Live /\ obj'[q] = obj[q]
  BY <1>2 DEF Live
<1>4. HandleValid'
  BY <1>1, <1>3, HandlesKept DEF ObjectsInv
<1> QED
  BY <1>1, <1>2, <1>4
     DEF ObjectsInv, ObjectsTypeOK, NoWildAccess, PairInBoth

(* The only key that a call leaves in native memory is the one it has just *)
(* generated.                                                              *)
LEMMA GenerateReleases ==
    ASSUME ObjectsInv, NEW o \in Objects, GenerateKeypair(o)
    PROVE  /\ KeysReleased
           /\ \A s \in remaining' \ remaining : obj'[o].secret_key = s
<1>1. obj[o] # NoObject /\ obj[o] \in JavaObject
  BY ObjectTyped DEF ObjectsInv, GenerateKeypair, Calls
<1>2. CASE UNCHANGED remaining
  BY <1>2 DEF KeysReleased
<1>3. CASE ~ UNCHANGED remaining
  <2>1. PICK w \in OQS_keypair(obj[o]),
             pkCopied \in BOOLEAN, skCopied \in BOOLEAN :
            /\ obj' = [obj EXCEPT
                        ![o] = WithKeypair(obj[o], w, pkCopied, skCopied)]
            /\ remaining' = remaining \cup InNative(w.sk, KeypairMode, skCopied)
    BY <1>3 DEF GenerateKeypair, Misuses
  <2> DEFINE n == WithKeypair(obj[o], w, pkCopied, skCopied)
  <2>2. /\ n \in JavaObject /\ n.secret_key = w.sk
        /\ n.key_from \in {"generated", "failed"}
        /\ InNative(w.sk, KeypairMode, skCopied) \subseteq {w.sk}
    BY <1>1, WithKeypairTyped, SMTT(20)
  <2>3. obj'[o] = n
    BY <2>1 DEF ObjectsInv, ObjectsTypeOK
  <2> HIDE DEF n
  <2>4. n # NoObject
    BY <2>2, ObjectAssumption
  <2>5. \A s \in remaining' \ remaining : s = w.sk
    BY <2>1, <2>2
  <2> QED
    BY <2>2, <2>3, <2>4, <2>5 DEF KeysReleased
<1> QED
  BY <1>2, <1>3

(* The other operations leave nothing.                                     *)
LEMMA OthersRelease ==
    remaining' \subseteq remaining \cup {"output"} => KeysReleased
BY KeysAssumption DEF KeysReleased
=============================================================================
