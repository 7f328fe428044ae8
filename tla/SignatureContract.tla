-------------------------- MODULE SignatureContract --------------------------
(***************************************************************************)
(* What liboqs.Signature promises a caller who never sees a handle, an     *)
(* array or native memory: an object has a key pair or none, and sign      *)
(* returns signatures by the pair that it has at that moment, or throws.   *)
(***************************************************************************)
CONSTANTS Objects, Algorithms, Keys, Data, NoPair, NoAnswer

VARIABLES
    pair,       \* the key pair of each object
    answer      \* the last call's object and signature, if it returned one

Pairs == [alg : Algorithms, key : Keys]

Init == pair = [o \in Objects |-> NoPair] /\ answer = NoAnswer

(* A pair was given or generated. *)
Obtain(o, p) == pair' = [pair EXCEPT ![o] = p] /\ answer' = NoAnswer

(* The pair was replaced in part, wiped, or dropped with the object. *)
Lose(o) == Obtain(o, NoPair)

Sign(o, d) ==
    /\ pair[o] # NoPair
    /\ answer' = [of |-> o,
                  signature |-> [by |-> pair[o].key, alg |-> pair[o].alg,
                                 over |-> d]]
    /\ UNCHANGED pair

(* Any call that returns no signature. *)
Other == answer' = NoAnswer /\ UNCHANGED pair

(* The process dies, or a caller broke the rules: nothing is promised of   *)
(* the objects there were.                                                 *)
LoseAll == pair' = [o \in Objects |-> NoPair] /\ answer' = NoAnswer

Next ==
    \/ \E o \in Objects :
        \/ \E p \in Pairs : Obtain(o, p)
        \/ Lose(o)
        \/ \E d \in Data : Sign(o, d)
    \/ Other
    \/ LoseAll

Spec == Init /\ [][Next]_<<pair, answer>>
=============================================================================
