-------------------------- MODULE LiboqsSignature --------------------------
(***************************************************************************)
(* The objects of com.example.liboqs.Signature, as far as the application  *)
(* uses them: a native handle, which the constructor allocates and nobody  *)
(* frees, and two key arrays.  A key pair stands for the contents of both  *)
(* arrays; Blank is an array of zeros.                                     *)
(*                                                                         *)
(* The algorithm is assumed correct: verify accepts exactly what sign      *)
(* made.  A native call may fail, and the failure reaches the caller as a  *)
(* RuntimeException.  When it is sign that fails, the length of the        *)
(* signature is not initialised, and the wrapper uses it before the result *)
(* is tested: the outcome is a RuntimeException all the same, of another   *)
(* class, or, with CheckJNI, the death of the process.                     *)
(***************************************************************************)
CONSTANTS
    Keys,   \* the key pairs that generate_keypair may come up with
    Blank   \* zeros

KeyArrays == Keys \cup {Blank}

SignatureObject == [public_key : KeyArrays, secret_key : KeyArrays]

Signed(k, data) == [signer |-> k, over |-> data]

(* The constructor without a key. *)
NewSignature == [public_key |-> Blank, secret_key |-> Blank]

(* Slip: the constructor ignores the secret key. *)
NewSignatureWith_blank(k) == NewSignature

(* The constructor with a secret key, which it copies; the public key stays *)
(* blank.                                                                  *)
NewSignatureWith(k) == [public_key |-> Blank, secret_key |-> k]

(* Slip: only the secret key is copied back to the Java array. *)
generate_keypair_secretOnly(k) == [public_key |-> Blank, secret_key |-> k]

(* generate_keypair fills both arrays of a new object. *)
generate_keypair(k) == [public_key |-> k, secret_key |-> k]

(* sign uses the key of the object ... *)
sign(s, data) == Signed(s.secret_key, data)

(* ... and verify the key it is given. *)
verify(data, sig, public_key) == sig = Signed(public_key, data)
=============================================================================
