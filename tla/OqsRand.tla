------------------------------- MODULE OqsRand -------------------------------
(***************************************************************************)
(* The random numbers of liboqs as Rand.java and Rand.c wrap them: which   *)
(* generator is selected, what a call returns when the length it is given  *)
(* does not fit the types it passes through, and what the initialisation   *)
(* of the deterministic generator does to that generator.                  *)
(*                                                                         *)
(* A byte is what it was drawn from: nothing else about it is modelled.    *)
(* The deterministic generator is the number of bytes drawn from it, as no *)
(* call of the wrapper ever seeds it: not even the one that is named after *)
(* that, randombytes_nist_kat_init.                                        *)
(***************************************************************************)
EXTENDS Integers

CONSTANTS
    Names,          \* what a caller may ask randombytes_switch_algorithm for
    Requests,       \* values of bytes_to_read
    Half,           \* a jsize is at least -Half and less than Half, 2^31 in
                    \*   the code; a request is wider
    SeedLength,     \* 48 in the code
    ArrayLengths,   \* lengths of the arrays a caller has at hand
    Null,
    MaxDrawn        \* bound: bytes drawn from the deterministic generator

ASSUME WidthAssumption == Half \in Nat \ {0} /\ MaxDrawn \in Nat
ASSUME RequestAssumption == Requests \subseteq Int
ASSUME LengthAssumption == SeedLength \in Nat /\ ArrayLengths \subseteq Nat
ASSUME NullAssumption == Null \notin Nat

VARIABLES
    algorithm,  \* the generator that OQS_randombytes uses
    drawn,      \* the bytes drawn from the deterministic generator
    returned,   \* what the last randombytes returned: the bytes asked for,
                \* the length of the array, where its bytes are from
    thrown,     \* whether the last call threw
    overrun     \* whether bytes went past the end of a native array

randVars == <<algorithm, drawn, returned, thrown, overrun>>

(* OpenSSL's generator is compiled out. *)
Supported == {"system", "NIST-KAT"}

NothingReturned == [asked |-> 0, array |-> Null, from |-> Null]

RandInit ==
    /\ algorithm = "system"
    /\ drawn = 0
    /\ returned = NothingReturned
    /\ thrown = FALSE
    /\ overrun = FALSE

-----------------------------------------------------------------------------
(* What a long becomes when it is passed as a jsize. *)
ToJsize(n) == ((n + Half) % (2 * Half)) - Half

(* OQS_randombytes: n bytes of the generator that is selected.             *)
OQS_randombytes(n) ==
    IF algorithm = "NIST-KAT"
    THEN drawn + n <= MaxDrawn /\ drawn' = drawn + n
    ELSE drawn' = drawn

Source == IF algorithm = "NIST-KAT" THEN drawn ELSE "system"

Running == ~overrun

(* Slip: the native array is made of the size cut to a jsize, too. *)
Allocated_cut(n) == ToJsize(n) >= 0

(* calloc is given the long: a negative one is a size nobody has. *)
Allocated(n) == n >= 0

(* The array of Java is made first, of the size cut to a jsize; the native *)
(* one, of the full size, is filled and copied into it.  With no memory    *)
(* for the first an OutOfMemoryError is pending, for the second it is not. *)
randombytes(n) ==
    /\ Running
    /\ ToJsize(n) >= 0      \* else the process dies: see Abort
    /\ UNCHANGED <<algorithm, overrun>>
    /\ \/ /\ returned' = [asked |-> n, array |-> Null, from |-> Null]
          /\ thrown' \in BOOLEAN
          /\ drawn' = drawn
       \/ /\ Allocated(n)
          /\ OQS_randombytes(n)
          /\ returned' = [asked |-> n, array |-> ToJsize(n), from |-> Source]
          /\ thrown' = FALSE

(* NewByteArray of a negative size ends the process, and so may the end of *)
(* any other process: everything starts anew.                              *)
Abort ==
    /\ algorithm' = "system"
    /\ drawn' = 0
    /\ returned' = NothingReturned
    /\ thrown' = FALSE
    /\ overrun' = FALSE

Selected(name) == IF name \in Supported THEN name ELSE algorithm

randombytes_switch_algorithm(name) ==
    /\ Running
    /\ algorithm' = Selected(name)
    /\ thrown' = (name \notin Supported)
    /\ UNCHANGED <<drawn, returned, overrun>>

(* pers is Null or the length of the personalization string. *)
ArgumentsTaken(length, pers) ==
    /\ length = SeedLength
    /\ pers = Null \/ pers >= SeedLength

(* Slip: the arguments are tested when the native method has returned. *)
randombytes_nist_kat_init_testsLast(length, pers) ==
    LET n == IF pers = Null THEN 0 ELSE pers IN
    /\ Running
    /\ OQS_randombytes(n)
    /\ overrun' = (n > length)
    /\ thrown' = ~ ArgumentsTaken(length, pers)
    /\ UNCHANGED <<algorithm, returned>>

(* The native method fills the entropy array with as many random bytes as  *)
(* the personalization string is long, by OQS_randombytes: it does not     *)
(* call OQS_randombytes_nist_kat_init_256bit.                              *)
randombytes_nist_kat_init(length, pers) ==
    /\ Running
    /\ IF ArgumentsTaken(length, pers)
       THEN LET n == IF pers = Null THEN 0 ELSE pers
            IN  /\ OQS_randombytes(n)
                /\ overrun' = (n > length)
                /\ thrown' = FALSE
       ELSE thrown' = TRUE /\ UNCHANGED <<drawn, overrun>>
    /\ UNCHANGED <<algorithm, returned>>

RandNext ==
    \/ \E n \in Requests : randombytes(n)
    \/ \E name \in Names : randombytes_switch_algorithm(name)
    \/ \E length \in ArrayLengths, pers \in ArrayLengths \cup {Null} :
            randombytes_nist_kat_init(length, pers)
    \/ Abort

RandSpec == RandInit /\ [][RandNext]_randVars

-----------------------------------------------------------------------------

(* An array that is returned is one that Java can have, no longer than     *)
(* what was asked for, so that every byte of it was drawn, and exactly as  *)
(* long wherever an array of Java can be: the two widths that a request is *)
(* cut to agree.  (Rand.c)                                                 *)
ReturnedIsDrawn ==
    returned.array # Null =>
        /\ returned.array \in 0 .. Half - 1
        /\ returned.array <= returned.asked
        /\ returned.asked < Half => returned.array = returned.asked

(* A call that throws has changed nothing that later bytes depend on: not  *)
(* the generator that is selected, nor how far it has come.  (Rand.java)   *)
ThrowsUnchanged ==
    [][thrown' => UNCHANGED <<algorithm, drawn, overrun>>]_randVars
=============================================================================
