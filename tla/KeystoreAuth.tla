---------------------------- MODULE KeystoreAuth ----------------------------
(***************************************************************************)
(* KeystoreAuthManager and BiometricKeyStoreManager: the password of the   *)
(* key store kept in memory and, encrypted under a biometric AES key, in   *)
(* the preferences.  A screen creates one manager and EXTENDS this module: *)
(* its actions conjoin the ones below with what its callbacks do.          *)
(*                                                                         *)
(* A password is a char[]: several fields alias one array, and wiping the  *)
(* array reaches them all.  So arrays are explicit: heap gives the content *)
(* of each, and a fresh or wiped array contains Zeroed.                    *)
(*                                                                         *)
(* External, and modelled from how the code uses it: the preferences (an   *)
(* apply() is visible at once and on disk later), the Android key store    *)
(* (a change of the enrolled biometrics invalidates the key for good) and  *)
(* androidx.biometric (at most one prompt; a wrong finger keeps it open;   *)
(* a re-created screen that builds no BiometricPrompt finds the old one    *)
(* still showing, or cancelled).                                           *)
(***************************************************************************)
CONSTANTS
    Passwords,  \* what a user may type
    Zeroed,     \* the content of a wiped array
    NoPassword, \* no password in the preferences
    Arrays,     \* the char[] objects
    NoArray     \* null

VARIABLES
    heap,       \* the content of each array
    stored,     \* the password in the preferences, as the process sees them
    onDisk,     \* and as a new process will see them
    aesKey,     \* the biometric key in the Android key store
    biometrics, \* whether BIOMETRIC_STRONG can authenticate
    cached,     \* KeystoreAuthManager.cachedPassword
    prompt      \* the biometric prompt on the screen: {} or one element

authVars == <<heap, stored, onDisk, aesKey, biometrics, cached, prompt>>

Contents == Passwords \cup {Zeroed}

ASSUME AuthAssumption ==
    /\ Zeroed \notin Passwords
    /\ NoPassword \notin Contents
    /\ NoArray \notin Arrays

(* array is what an encrypt prompt is to store; ours is FALSE when the     *)
(* screen whose callbacks it holds has been destroyed.                     *)
Prompt == [mode : {"decrypt", "encrypt"}, array : Arrays \cup {NoArray},
           ours : BOOLEAN]

AuthTypeOK ==
    /\ heap \in [Arrays -> Contents]
    /\ stored \in Contents \cup {NoPassword}
    /\ onDisk \in Contents \cup {NoPassword}
    /\ aesKey \in {"absent", "valid", "invalidated"}
    /\ biometrics \in BOOLEAN
    /\ cached \in Arrays \cup {NoArray}
    /\ prompt \in SUBSET Prompt
    /\ \A p, q \in prompt : p = q

AuthInit ==
    /\ heap = [r \in Arrays |-> Zeroed]
    /\ stored = NoPassword
    /\ onDisk = NoPassword
    /\ aesKey = "absent"
    /\ biometrics \in BOOLEAN
    /\ cached = NoArray
    /\ prompt = {}

-----------------------------------------------------------------------------

canUseBiometrics == biometrics

hasStoredPassword == stored # NoPassword

hasCachedPassword == cached # NoArray

(* The constructor makes the key when there is none, which throws when no  *)
(* biometrics are enrolled; the screen then goes on without a manager.     *)
ensureKeyExistsThrows == aesKey = "absent" /\ ~biometrics

ensureKeyExists ==
    aesKey' = IF aesKey = "absent" /\ biometrics THEN "valid" ELSE aesKey

(* Arrays.fill(array, '\0'); null is left alone. *)
Wipe(h, arrays) == [r \in Arrays |-> IF r \in arrays THEN Zeroed ELSE h[r]]

(* An array nobody refers to and that holds no password. *)
Unused(referenced) == {r \in Arrays \ referenced : heap[r] = Zeroed}

(* How requestKeystorePassword answers: from the cache, with an error, or  *)
(* by a prompt.  Cipher.init throws when the key is invalidated.           *)
requestKeystorePassword ==
    CASE hasCachedPassword     -> "cached"
      [] ~ hasCachedPassword /\
         (~ hasStoredPassword \/ ~ canUseBiometrics \/ aesKey # "valid") ->
                                  "error"
      [] OTHER                 -> "prompt"

DecryptPrompt == {[mode |-> "decrypt", array |-> NoArray, ours |-> TRUE]}

(* enableBiometricsForPassword gets as far as the prompt; otherwise onFail *)
(* only shows a message.                                                   *)
CanEnrol == canUseBiometrics /\ aesKey = "valid"

(* Slip: the prompt holds the content in place of the array. *)
EncryptPrompt_content(array) ==
    {[mode |-> "encrypt", array |-> heap[array], ours |-> TRUE]}

EncryptPrompt(array) == {[mode |-> "encrypt", array |-> array, ours |-> TRUE]}

-----------------------------------------------------------------------------

(* onAuthenticationSucceeded of a decrypt prompt: decryptPassword makes a  *)
(* new array r, which becomes the cache and goes to onPassword.            *)
DecryptSucceeds(r) ==
    /\ \E p \in prompt : p.mode = "decrypt"
    /\ heap' = [heap EXCEPT ![r] = stored]
    /\ cached' = r
    /\ prompt' = {}
    /\ UNCHANGED <<stored, onDisk, aesKey, biometrics>>

(* Slip: one cache for all the instances of the screen. *)
EncryptSucceeds_sharedCache ==
    \E p \in prompt :
        /\ p.mode = "encrypt"
        /\ stored' = heap[p.array]
        /\ cached' = p.array
        /\ prompt' = {}
        /\ UNCHANGED <<heap, onDisk, aesKey, biometrics>>

(* Slip: the array is wiped once it has been stored. *)
EncryptSucceeds_wipes ==
    \E p \in prompt :
        /\ p.mode = "encrypt"
        /\ stored' = heap[p.array]
        /\ heap' = Wipe(heap, {p.array})
        /\ cached' = IF p.ours THEN p.array ELSE cached
        /\ prompt' = {}
        /\ UNCHANGED <<onDisk, aesKey, biometrics>>

(* onAuthenticationSucceeded of an encrypt prompt: storePassword reads the *)
(* array now, not when the prompt was opened.  The cache that is set is    *)
(* that of the manager that opened the prompt.                             *)
EncryptSucceeds ==
    \E p \in prompt :
        /\ p.mode = "encrypt"
        /\ stored' = heap[p.array]
        /\ cached' = IF p.ours THEN p.array ELSE cached
        /\ prompt' = {}
        /\ UNCHANGED <<heap, onDisk, aesKey, biometrics>>

(* onAuthenticationError: the negative button, back, lockout, a timeout or *)
(* the application leaving the foreground.  onCancel is never called.      *)
PromptError ==
    /\ prompt # {}
    /\ prompt' = {}
    /\ UNCHANGED <<heap, stored, onDisk, aesKey, biometrics, cached>>

(* The write that apply() left to another thread. *)
FlushPreferences ==
    /\ onDisk # stored
    /\ onDisk' = stored
    /\ UNCHANGED <<heap, stored, aesKey, biometrics, cached, prompt>>

(* In the settings the user enrols a finger, or removes them all. *)
ChangeBiometrics ==
    /\ prompt = {}
    /\ biometrics' \in BOOLEAN
    /\ aesKey' = IF aesKey = "valid" THEN "invalidated" ELSE aesKey
    /\ UNCHANGED <<heap, stored, onDisk, cached, prompt>>

(* The memory of the process is gone; preferences not on disk are lost. *)
ProcessDies ==
    /\ heap' = [r \in Arrays |-> Zeroed]
    /\ stored' = onDisk
    /\ cached' = NoArray
    /\ prompt' = {}
    /\ UNCHANGED <<onDisk, aesKey, biometrics>>
=============================================================================
