----------------------------- MODULE OqsObjects -----------------------------
(***************************************************************************)
(* The life of a liboqs object behind a Java object: what Signature.java   *)
(* and KeyEncapsulation.java, with Signature.c and KeyEncapsulation.c, do  *)
(* alike.  The constructor has liboqs allocate an object and keeps its     *)
(* address in a field, the handle; the methods pass that address back with *)
(* the arrays of the Java object; dispose frees it and leaves the field as *)
(* it was.  A Java object that is dropped frees nothing.                   *)
(*                                                                         *)
(* JNI hands an array to C as a copy or in place, as the virtual machine   *)
(* sees fit, and C releases it with a mode: JNI_COMMIT copies back and     *)
(* keeps the copy, JNI_ABORT frees the copy.                               *)
(*                                                                         *)
(* Nothing stops a caller from calling methods in any order.  The rules    *)
(* that a caller has broken are recorded in broken, so that a property can *)
(* say which of them it depends on.                                        *)
(***************************************************************************)
EXTENDS Naturals

CONSTANTS
    Algorithms,     \* algorithms that are enabled
    Lengths,        \* of the arrays of each algorithm
    Objects,        \* references to Java objects
    Addresses,      \* where liboqs may allocate an object
    NULL, Free,     \* no address; an address that holds no object
    KeyLengths,     \* lengths of the arrays that callers pass for a key
    Given, Fresh,   \* key pairs that callers have; that generate_keypair may make
    Blank, Junk,    \* an array of zeros; one that was written in part
    NoObject        \* a reference to nothing

Keys == Given \cup Fresh

KeyContents == Keys \cup {Blank, Junk}

(* output: what sign or encap_secret fills. *)
Arrays == {"public_key", "secret_key", "output"}

Rules == {"disposeLast", "keyLength", "ownAlgorithm"}

ASSUME LengthsAssumption == Lengths \in [Algorithms -> [Arrays -> Nat]]

ASSUME KeyLengthsAssumption == KeyLengths \subseteq Nat

ASSUME AddressAssumption ==
    NULL \notin Addresses /\ Free \notin Algorithms

ASSUME KeysAssumption ==
    /\ Blank \notin Keys /\ Junk \notin Keys /\ Blank # Junk
    /\ "output" \notin Keys

VARIABLES
    native,     \* the algorithm of the object at each address
    obj,        \* the Java objects
    remaining,  \* contents that native memory keeps after a call
    fault,      \* what has ended the process, or "none"
    broken      \* history: the rules that callers have broken

objects == <<native, obj, remaining, fault, broken>>

Sources == {"none", "given", "generated", "failed"}

(* A Java object: the details of its algorithm, the handle, the contents   *)
(* of its arrays, the length of the one with the secret key (the other has *)
(* the length of its algorithm); history: where the keys come from, and    *)
(* whether it was disposed.                                                *)
JavaObject == [alg : Algorithms, handle : Addresses \cup {NULL},
               public_key : KeyContents, secret_key : KeyContents,
               length : Nat, key_from : Sources, disposed : BOOLEAN]

ASSUME ObjectAssumption == NoObject \notin JavaObject

InitObjects ==
    /\ native = [p \in Addresses |-> Free]
    /\ obj = [o \in Objects |-> NoObject]
    /\ remaining = {}
    /\ fault = "none"
    /\ broken = {}

-----------------------------------------------------------------------------
(* Handles and arrays. *)

getHandle(r) == r.handle

setHandle(r, t) == [r EXCEPT !.handle = t]

(* What OQS_SIG_new and OQS_KEM_new may return. *)
Allocations == {p \in Addresses : native[p] = Free} \cup {NULL}

OQS_new(t, a) == [p \in Addresses |-> IF p = t THEN a ELSE native[p]]

OQS_free(t) == [p \in Addresses |-> IF p = t THEN Free ELSE native[p]]

(* The content of a Java array when C has written to it and released it.   *)
InJava(before, written, mode, copied) ==
    IF copied /\ mode = "JNI_ABORT" THEN before ELSE written

(* Slip: a copy is never freed. *)
InNative_always(written, mode, copied) == {written}

(* What stays in native memory then. *)
InNative(written, mode, copied) ==
    IF copied /\ mode = "JNI_COMMIT" THEN {written} \ {Blank, Junk} ELSE {}

(* The handle leads to memory that has been freed. *)
Dangling(r) == getHandle(r) # NULL /\ native[getHandle(r)] = Free

(* C goes beyond the end of an array: given has the lengths that the       *)
(* arrays have.                                                            *)
Overruns(r, given) ==
    /\ getHandle(r) # NULL
    /\ native[getHandle(r)] # Free
    /\ \E x \in DOMAIN given : Lengths[native[getHandle(r)]][x] > given[x]

Sound(r, given) == ~Dangling(r) /\ ~Overruns(r, given)

(* A call of a method of the object at o. *)
Calls(o) == fault = "none" /\ obj[o] # NoObject

Breaks(rule, condition) == IF condition THEN {rule} ELSE {}

(* The process is gone, or goes on with memory that is not its own. *)
Misuses(r, given) ==
    /\ ~Sound(r, given)
    /\ fault' = IF Dangling(r) THEN "freed" ELSE "overrun"
    /\ UNCHANGED <<native, obj, remaining>>

-----------------------------------------------------------------------------
(* The operations. *)

(* The arrays: k is copied with its length, or Blank is a new array.       *)
NewObject(a, k, l) ==
    [alg |-> a, handle |-> NULL, public_key |-> Blank, secret_key |-> k,
     length |-> l, key_from |-> IF k = Blank THEN "none" ELSE "given",
     disposed |-> FALSE]

(* The constructor, for an enabled algorithm.  The details, that is the    *)
(* algorithm with its lengths, are read through the handle, which may be   *)
(* NULL.                                                                   *)
Construct(o, a, k, l) ==
    /\ fault = "none"
    /\ obj[o] = NoObject
    /\ \E t \in Allocations :
        /\ native' = OQS_new(t, a)
        /\ IF t = NULL
           THEN fault' = "null" /\ UNCHANGED obj
           ELSE /\ obj' = [obj EXCEPT
                            ![o] = setHandle(NewObject(native'[t], k, l), t)]
                /\ UNCHANGED fault
    /\ UNCHANGED <<remaining, broken>>

(* create_new is public: the handle is replaced, the rest stays.           *)
CreateAgain(o, a) ==
    /\ Calls(o)
    /\ \E t \in Allocations :
        /\ native' = OQS_new(t, a)
        /\ obj' = [obj EXCEPT ![o] = [setHandle(obj[o], t)
                                        EXCEPT !.disposed = FALSE]]
    /\ broken' = broken \cup Breaks("ownAlgorithm", a # obj[o].alg)
    /\ UNCHANGED <<remaining, fault>>

(* Slip: the arrays are released as sign releases its inputs. *)
KeypairMode_abort == "JNI_ABORT"

KeypairMode == "JNI_COMMIT"

(* OQS_SIG_keypair, OQS_KEM_keypair: what both arrays hold, and whether it *)
(* succeeded.  liboqs refuses NULL.                                        *)
OQS_keypair(r) ==
    IF getHandle(r) = NULL
    THEN {[pk |-> r.public_key, sk |-> r.secret_key, ok |-> FALSE]}
    ELSE {[pk |-> k, sk |-> k, ok |-> TRUE] : k \in Fresh}
         \cup [pk : {r.public_key, Junk}, sk : {r.secret_key, Junk},
               ok : {FALSE}]

KeypairArrays(r) == [public_key |-> Lengths[r.alg]["public_key"],
                     secret_key |-> r.length]

(* The object when w was written, as a copy or in place, and released.     *)
WithKeypair(r, w, pkCopied, skCopied) ==
    [r EXCEPT !.public_key = InJava(@, w.pk, KeypairMode, pkCopied),
              !.secret_key = InJava(@, w.sk, KeypairMode, skCopied),
              !.key_from = IF w.ok THEN "generated" ELSE "failed"]

GenerateKeypair(o) ==
    LET r == obj[o] IN
    /\ Calls(o)
    /\ broken' = broken \cup Breaks("disposeLast", r.disposed)
                \cup Breaks("keyLength", r.length # Lengths[r.alg]["secret_key"])
    /\ \/ Misuses(r, KeypairArrays(r))
       \/ /\ Sound(r, KeypairArrays(r))
          /\ \E w \in OQS_keypair(r), pkCopied, skCopied \in BOOLEAN :
                /\ obj' = [obj EXCEPT
                            ![o] = WithKeypair(r, w, pkCopied, skCopied)]
                /\ remaining' =
                        remaining \cup InNative(w.sk, KeypairMode, skCopied)
          /\ UNCHANGED <<native, fault>>

Wiped(r) == [r EXCEPT !.secret_key = Blank, !.key_from = "none",
                      !.disposed = TRUE]

(* dispose: wipe the array, free the handle; freeing NULL does nothing.    *)
Dispose(o) ==
    /\ Calls(o)
    /\ broken' = broken \cup Breaks("disposeLast", obj[o].disposed)
    /\ \/ Misuses(obj[o], <<>>)
       \/ /\ Sound(obj[o], <<>>)
          /\ native' = OQS_free(getHandle(obj[o]))
          /\ obj' = [obj EXCEPT ![o] = Wiped(obj[o])]
          /\ UNCHANGED <<remaining, fault>>

(* Slip: a finalizer frees the handle, disposed or not. *)
Drop_finalized(o) ==
    /\ Calls(o)
    /\ native' = OQS_free(getHandle(obj[o]))
    /\ obj' = [obj EXCEPT ![o] = NoObject]
    /\ UNCHANGED <<remaining, fault, broken>>

(* The last reference goes; the class has no finalizer.                    *)
Drop(o) ==
    /\ Calls(o)
    /\ obj' = [obj EXCEPT ![o] = NoObject]
    /\ UNCHANGED <<native, remaining, fault, broken>>

(* The process ends, by itself or by a fault, and starts again.            *)
Restart ==
    /\ native' = [p \in Addresses |-> Free]
    /\ obj' = [o \in Objects |-> NoObject]
    /\ remaining' = {}
    /\ fault' = "none"
    /\ broken' = {}

-----------------------------------------------------------------------------
(* Properties. *)

ObjectsTypeOK ==
    /\ native \in [Addresses -> Algorithms \cup {Free}]
    /\ obj \in [Objects -> JavaObject \cup {NoObject}]
    /\ remaining \subseteq Keys \cup {"output"}
    /\ fault \in {"none", "null", "freed", "overrun", "abort"}
    /\ broken \subseteq Rules

(* Objects that may be used. *)
Live == {o \in Objects : obj[o] # NoObject /\ ~obj[o].disposed}

(* As long as nobody uses a disposed object, the handle of every other one *)
(* leads to an object that no other handle leads to, of its own algorithm  *)
(* unless that was changed.                                                *)
HandleValid ==
    "disposeLast" \notin broken =>
        \A o \in Live : getHandle(obj[o]) # NULL =>
            /\ native[getHandle(obj[o])] # Free
            /\ "ownAlgorithm" \notin broken =>
                    native[getHandle(obj[o])] = obj[o].alg
            /\ \A q \in Live \ {o} : getHandle(obj[q]) # getHandle(obj[o])

(* Memory that was freed is used, or an array overrun, only by callers     *)
(* that broke a rule: the checks of the Java code (the lengths of the      *)
(* keys) exclude everything else.                                          *)
NoWildAccess ==
    /\ fault = "freed" => "disposeLast" \in broken
    /\ fault = "overrun" => broken # {}

(* A secret key stays in native memory only when generate_keypair is       *)
(* called, and returns or throws, on the object that has it: no other call *)
(* leaves the key that a caller gave to the constructor.                   *)
KeysReleased ==
    \A s \in (remaining' \ remaining) \cap Keys :
        \E o \in Objects :
            /\ obj'[o] # NoObject
            /\ obj'[o].secret_key = s
            /\ obj'[o].key_from \in {"generated", "failed"}

SecretsReleased == [][KeysReleased]_objects
=============================================================================
