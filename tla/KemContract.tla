----------------------------- MODULE KemContract -----------------------------
(***************************************************************************)
(* What liboqs.KeyEncapsulation promises a caller who never sees a handle, *)
(* an array or native memory.  Every ciphertext carries a secret of its    *)
(* own.  An object opens the ciphertexts that were made under the key pair *)
(* that it has at that moment; from any other it gets a secret that nobody *)
(* else has, or an exception.                                              *)
(***************************************************************************)
CONSTANTS Objects, Algorithms, Keys, PublicKeys, Secrets, Rejected,
          NoPair, NoAnswer

VARIABLES
    pair,       \* the key pair of each object
    sent,       \* the ciphertexts that were made
    answer      \* the last call's object, ciphertext and secret, if any

Pairs == [alg : Algorithms, key : Keys]

Ciphertexts == [alg : Algorithms, under : PublicKeys, secret : Secrets]

Init == pair = [o \in Objects |-> NoPair] /\ sent = {} /\ answer = NoAnswer

(* A pair was given or generated. *)
Obtain(o, p) ==
    pair' = [pair EXCEPT ![o] = p] /\ answer' = NoAnswer /\ UNCHANGED sent

(* The pair was replaced in part, wiped, or dropped with the object. *)
Lose(o) == Obtain(o, NoPair)

(* The public key that a caller passes need not belong to anybody. *)
Encapsulate(a, k, s) ==
    /\ \A c \in sent : c.secret # s
    /\ sent' = sent \cup {[alg |-> a, under |-> k, secret |-> s]}
    /\ answer' = NoAnswer
    /\ UNCHANGED pair

Decapsulate(o, c) ==
    /\ answer' = [of |-> o, ciphertext |-> c,
                  secret |-> IF pair[o] = [alg |-> c.alg, key |-> c.under]
                             THEN c.secret
                             ELSE Rejected]
    /\ UNCHANGED <<pair, sent>>

(* Any call that returns nothing. *)
Other == answer' = NoAnswer /\ UNCHANGED <<pair, sent>>

(* The process dies, or a caller broke the rules: nothing is promised of   *)
(* the objects there were, nor of the ciphertexts in a call that breaks    *)
(* one.                                                                    *)
LoseAll ==
    /\ pair' = [o \in Objects |-> NoPair]
    /\ sent' \in SUBSET Ciphertexts
    /\ answer' = NoAnswer

Next ==
    \/ \E o \in Objects :
        \/ \E p \in Pairs : Obtain(o, p)
        \/ Lose(o)
        \/ \E c \in sent : Decapsulate(o, c)
    \/ \E a \in Algorithms, k \in PublicKeys, s \in Secrets : Encapsulate(a, k, s)
    \/ Other
    \/ LoseAll

Spec == Init /\ [][Next]_<<pair, sent, answer>>
=============================================================================
