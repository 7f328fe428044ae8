# MiniBaseApp: a verification project

MiniBaseApp is an Android application that manages post-quantum credentials
(ML-DSA certificates and private keys), signs documents with them and verifies
signatures. The crypto comes from Bouncy Castle and, on one screen, from liboqs
through a JNI wrapper. This directory holds TLA+ modules of its core, the TLC
configurations that check them on small instances, and proofs for TLAPS.

Paths below are relative to the repository; `app:` stands for
`app/src/main/java/com/example/minibaseapp/` and `jni:` for
`liboqs-android/jni/jni/`.

## 1. The system

| Component | State | Operations | What makes it correct |
|---|---|---|---|
| Certificate validation (`app:crypto/PqcCertificateManager.java`) | none | `validateCertificate`, `verifyDataWithCertificate` | only a current, end-entity certificate with digitalSignature is acceptable; a signature verifies with the key that made it and no other |
| PKCS#12 store (same file) | `keystore.p12` | load or create, import, list, get, sign | only vetted entries are stored; an acknowledged import stays readable; a load or store loses nothing unexplained |
| Biometric password access (`app:security/*.java`) | `cachedPassword`, the preferences, an AES key in the Android key store | request, enrol, clear | one password per session; no wiped array is used, none with a password is left; what is enrolled is what opens the store |
| Certificates screen (`app:CertificatesActivity.java`) | password fields, pending alias, certificate and key, dialogs, pickers | open, enrol, add, three pickers, import | an import is made of the parts of one flow; the list is what the store holds |
| Signing screen (`app:SignWithCertActivity.java`) | password, selection, signature in memory | open, select, sign, save | the signature in memory is of the selection; an enabled button never fails its guards |
| Verification screen (`app:VerifySignatureActivity.java`) | selection, verdict, buttons | select, verify, reset | a verdict on the screen is of the present selection |
| Key pair screen (`app:SignKeyPairActivity.java`) | selection, key pair, native object, message; three local files | generate, sign, verify; `publicKey.bin`, `privateKey.bin` and `signature.bin` | keys, files, signature and verdict are of one generation |
| liboqs signature wrapper (`liboqs-android/.../Signature.java`, `jni:Signature.c`, `jni:handle.c`) | the native handle, the key arrays, what C keeps of them | construct, generate, sign, verify, dispose, create again | live handles lead to distinct native objects; no array is overrun; a signature verifies with the key the object exports; a key that was given is not left in native memory |
| liboqs KEM wrapper (`.../KeyEncapsulation.java`, `jni:KeyEncapsulation.c`) | the same | construct, generate, encapsulate, decapsulate, dispose, create again | the same; both sides get one secret, or the receiver one that nobody has |
| Random numbers (`.../Rand.java`, `jni:Rand.c`) | the generator of liboqs | switch, read, initialise | what is returned was drawn; a call that throws changes nothing |
| Mechanism lists (`.../Sigs.java`, `KEMs.java`, `Common.java`, `jni:Sigs.c`, `jni:KEMs.c`, the headers in `liboqs-android/jni/include/oqs`) | none; two loops | list supported, list enabled, look up a name | the lists are complete and agree with the constructors; the lengths tell algorithms apart |
| Navigation (`app:MainActivity.java`, `CertificatesMenuActivity.java`, `MyApp.java`, `CertAliasAdapter.java`) | none | start a screen | none of its own |

**Interaction.** Every callback of a screen runs on the main thread. Three
screens call `PqcCertificateManager`. Two of them, certificates and signing,
own a `KeystoreAuthManager` each and share the file `keystore.p12`, the
preferences and the biometric key; the third, verification, uses neither. A document picker and a
biometric prompt answer later, by a callback, and can outlive the instance of
the screen that opened them. The key pair screen uses neither the store nor the
preferences.

**What is hard here.**

- The password is one `char[]` aliased by up to four references
  (`keystorePassword`, `lastKeystorePassword`, `cachedPassword`, the open
  prompt), and `onDestroy` wipes it through each of them.
- A rotation, the system reclaiming a screen behind a picker, or the death of
  the process can fall between any two callbacks.
- `storeKeyStore` truncates the only copy of the file before it writes it, and
  a file that cannot be opened is taken for a new one.
- Documents belong to other applications: they change between their selection
  and their use.
- The clock moves between the import of a certificate and its use.
- The native wrappers keep raw addresses in Java fields, free them, and leave
  the field as it was; `create_*_new` is public and may be called again; a
  dropped object frees nothing.
- JNI hands an array to C as a copy or in place, as the virtual machine sees
  fit, and the mode of its release decides what comes back and what stays.
- A ciphertext can arrive late, twice, at another object or after a restart.
- Lengths pass from `long` to `jsize` to `size_t`, and are all that keeps an
  array of one algorithm from the code of another.

`PROJECT.json` lists each hazard at its line with the properties that cover it.

## 2. The modules

```
CertValidation              pure operators
  Pkcs12Store               state machine  --refines-->  CredentialVault
    Pkcs12StoreProofs       theorems
  VerifySignatureActivity   state machine (extends CertValidation)
    VerifySignatureProofs   theorems
KeystoreAuth                operators and actions, no specification of its own
  CertificatesActivity      KeystoreAuth + the screen + an instance of Pkcs12Store
    CertificatesProofs      theorems  --implements-->  Pkcs12Store, CredentialVault
  SignWithCertActivity      KeystoreAuth + Pkcs12Store (read only) + the screen
    SignWithCertProofs      theorems
LiboqsSignature             pure operators
  SignKeyPairActivity       state machine  --refines-->  SignatureContract
    SignKeyPairProofs       theorems
OqsObjects                  operators and actions, no specification of its own
  OqsObjectsProofs          lemmas both wrappers rest on
  OqsSignature              state machine  --refines-->  SignatureContract
    OqsSignatureProofs      theorems
  OqsKem                    state machine  --refines-->  KemContract
    OqsKemProofs            theorems, those of the next two modules included
OqsRand                     state machine
OqsMechanisms               state machine
MC*                         constants of the checked instances
```

### CertValidation
`PqcCertificateManager.validateCertificate`, `isOverallAcceptableForSigning`,
`verifyDataWithCertificate`. A certificate is a record of its key pair, its path
length (`getBasicConstraints`, -1 for an end entity), its KeyUsage (absent, or a
set of bits) and the ends of its validity, which belong to it. A signature is a
record of key and data, and verifies with the certificate of the same key, if
the provider has a Signature under the name of the algorithm of that key
(`SignatureAlgs`, `Usable`); otherwise `Signature.getInstance` throws, when
signing and when verifying.

### Pkcs12Store and CredentialVault
`file` is `keystore.p12`: absent, torn, or ok with a password and a key store
(alias to entry). `importCredentialFromPemAndKey` is two steps, because the
process can die in it or the write can fail: `ImportStart` (parse, validate,
load, `setEntry`, `openFileOutput`, which truncates) and `StoreFinish` or
`StoreInterrupted`. Between the two `writing` holds what is being written. The
reads (`listCertificates`, `getKeyAndCertificate`, `signDataWithAlias`) are
operators; they are used by the screens. `at`, `under`, `before` and `acked`
are history variables and fields, read by no guard.

`CredentialVault` is what callers may rely on: each password opens a set of
credentials, `Put` adds or replaces one of them (and empties every other
password), `Forget` loses everything. `VaultSpec` checks that `Pkcs12Store`
implements it when the truncation is invisible (mapping `Opens`).

### KeystoreAuth
`KeystoreAuthManager` and `BiometricKeyStoreManager`. Arrays are explicit
(`heap`), so aliasing and wiping are what they are in the code. `stored` and
`onDisk` are the preferences as the process and as the next process see them
(`apply()` writes later). `aesKey` is absent, valid or invalidated.
`prompt` is the BiometricPrompt on the screen; `ours` is FALSE when the callback
it holds belongs to a destroyed instance. The module has actions
(`DecryptSucceeds`, `EncryptSucceeds`, `PromptError`, `FlushPreferences`,
`ChangeBiometrics`, `ProcessDies`) that the screens conjoin with what their own
callbacks do.

### CertificatesActivity
One action per callback: `Open` and `Recreate` are `onCreate` (after `onDestroy`
for the latter), `TypePassword`, `CancelDialog`, `AcceptOffer` are the buttons of
the dialogs, `FingerprintOpens`, `FingerprintEnrols`, `FingerprintError` the
answers of a prompt, `ShowAddCredential`, `ContinueWithAlias`, `PickUserCert`,
`PickUserKey`, `PickCaCert*` the import flow, `ImportReturns` and `ImportThrows`
its end. Everything a callback calls (refreshing the list, offering the
fingerprint, opening the next picker) is part of its action. `given` and `fresh`
are history.

### SignWithCertActivity
The same conventions. `content` is what each document contains now; it changes
(`DocumentChanges`). `Sign` reads it. `SaveNothing`, `SaveSucceeds`,
`SaveFails` and `SaveCloseFails` are the outcomes of the "save as" picker: the
file exists, empty, before the application writes to it, and the stream is
closed after the signature has been wiped. `created` and `saved` describe that file.
The store is fixed while this screen is open, as nothing else of the application
runs; `Files` are contents which `Pkcs12Store` can reach.

### VerifySignatureActivity
`OpenPicker`, `PickCert`, `PickDocument`, `PickSignature`, `performVerification`,
`resetVerificationState`, `Recreate`, and the environment (`FilesChange`,
`Tick`). `summary` is the kind of message in `tvSummary`, `enabled` and `reset`
the two buttons, `ok` the result in the log. `checked` is history: what the last
verification read. `Verdicts` are the answers it may give: an error when a file
cannot be read or the key of the certificate is not `Usable`, and, as the
provider may choose, an error in place of "invalid" for bytes that are no
signature of the algorithm of the certificate.

### LiboqsSignature
`liboqs.Signature`, as far as the key pair screen sees it: an object is a record
of its two key arrays, where a key pair stands for the contents of both and
`Blank` for zeros. `generate_keypair` fills both, the constructor with a key
copies it into `secret_key`, `sign` uses that array and `verify` the key it is
given. The screen constructs every object for one algorithm (Dilithium2), gives it
keys of that algorithm only and disposes none, so handles and lengths play no part there;
they are the subject of OqsObjects.

### SignKeyPairActivity
`content` is what each document contains, `local` what each of the three local
files does. A handler runs on the main thread to its end, but every save in it
is cut in two, because opening truncates and writing may fail: `Generate`, then
`Opened`, `PublicKeySaved`, `Opened`, `PrivateKeySaved`; `Sign`, then `Opened`,
`SignatureSaved`. No user action happens while `saving` is not "none".
`SaveFails` and `SaveCloseFails` are the ways a save fails, `Recreate` is a
rotation, a new start, or the death of the process at any point, which keeps the
local files only. `GenerateFails`, `SignFails` and `VerifyFails` leave the fields
as the handlers leave them: an object that was constructed is assigned before
anything can fail. `checked` is history: the data and the signature that the
message on the screen is about. `ContractSpec` is the contract that the
wrapper is shown to implement (SignatureContract, below), as the owner of this
screen sees it: the key pair in memory is the pair of one abstract object.

### OqsObjects
What `Signature.java` and `KeyEncapsulation.java`, with their C parts, do alike.
`native` is native memory: the algorithm of the object at each address, or
`Free`. `obj` is the Java objects: algorithm, handle, contents of the two key
arrays and the length of the one with the secret key. `Construct`, `CreateAgain`,
`GenerateKeypair`, `Dispose` and `Drop` are the operations; `InJava` and
`InNative` say what an array that C has written holds after its release with
`JNI_COMMIT` or `JNI_ABORT`, for an array that was handed out as a copy or in
place; `remaining` is what native memory keeps. `fault` is how the process ended:
an allocation that returned NULL, freed memory, an array overrun, an
exception pending where JNI is checked. After a fault only `Restart` is possible.

The methods may be called in any order, by anyone, with keys of any length, and
the wrapper does not defend itself against all of it. `broken` is history: the
rules that callers have broken so far (a disposed object was used, a key of
another length was given to `generate_keypair`, the algorithm of an object was
changed). Each property says which rules it depends on, so that what
the wrapper guarantees by itself and what it leaves to its callers are apart.

### OqsSignature and SignatureContract
`sign` and `verify` on the objects of OqsObjects. A signature is a record of the
secret key array, the algorithm of the *native* object and the message.
`SignFails` is the failure path of `Signature.c`: the length that `OQS_SIG_sign`
did not set is used before the result is tested, so either Java throws as
meant or an exception is pending over further JNI calls. `answer` is what the
last call returned.

`SignatureContract` is what a caller who never sees a handle may rely on: an
object has a key pair or none, `Sign` returns a signature by the pair the object has
at that moment. `ContractSpec` checks the refinement; once a rule is broken
that the contract depends on, nothing more is promised (`Kept`).

### OqsKem and KemContract
`encap_secret` and `decap_secret`. `sent` is every ciphertext that was ever
returned; it survives a restart and a decapsulation, so a ciphertext can be
delayed, repeated, reordered and delivered to any object. `KemContract`
says that an object opens the ciphertexts made under the pair it has now, and
gets from any other a secret that nobody else has, or an exception.

### OqsRand
The generator in use, the bytes drawn from the deterministic one, and what a
request becomes when its `long` is cut to a `jsize`. `randombytes_nist_kat_init`
is modelled by what it does: the native method draws random bytes into
the entropy array, as many as the personalization string is long, and seeds
nothing. Its names differ from those of OqsKem (`RandSpec`, `randVars`), since
one module proves about both.

### OqsMechanisms
All names of the headers of liboqs with the lengths of their arrays and the ones
the build enables (`oqsconfig.h`), as tuples of family, parameter set and
variant; the loops of `Sigs.java` and `KEMs.java`; and what the constructors
make of a name, the alias `DEFAULT` included. The tables that liboqs walks for
`OQS_SIG_alg_identifier` and `OQS_KEM_alg_identifier` are inside its binary:
`SigNames` and `KemNames` are parameters, which `TableAssumption` takes to have
each name of the header once and to be as long as the header says.

## 3. The runs

| Run | Instance | Shows |
|---|---|---|
| `pkcs12_store` | 2 aliases, 2 passwords, 3 keys, 5 certificates, clock 0..2 | `TypeOK`, `EntriesVetted`, `AckedIsReadable`, `LossNeedsInterruptionOrOtherPassword`, refinement `VaultSpec` |
| `certificates_screen` | 2 aliases, 2 passwords, 3 arrays, 1 key, 2 certificates, clock 0..1 | `TypeOK`, `SessionAgrees`, `PasswordOfSession`, `PromptServesSession`, `ImportOfOneFlow`, `ListedIsReadable`, liveness `EnrolmentIsForGood` |
| `sign_screen` | 2 aliases, 2 passwords, 3 arrays, 2 documents, three stores | `TypeOK`, `PasswordOfSession`, `SignatureMatchesSelection`, `SignReadyWhenEnabled`, `EmptyFileExplained` |
| `verify_screen` | 4 certificates of 2 algorithms, 2 documents, 2 contents, 1 signature file, clock 0..1 | `TypeOK`, `ButtonsMatchSelection`, `VerdictMatchesSelection`, `ValidIsSound` |
| `key_pair_screen` | 5 key pairs, 2 documents, 2 contents | `TypeOK`, `KeysBelongTogether`, `GeneratedIsSaved`, `SignedVerifies`, `ValidIsSound` |
| `oqs_signature` | 1 algorithm, 2 objects, 2 addresses, keys of length 0 and 2 | `TypeOK`, `HandleValid`, `NoWildAccess`, `SignedVerifies`, `SecretsReleased`, refinement `ContractSpec` |
| `oqs_kem` | 2 algorithms, 1 object, 2 addresses, 2 key pairs, 1 ciphertext under way | `NoWildAccess`, `SecretsCoincide`, refinement `ContractSpec` |
| `oqs_rand` | `jsize` of 3 bits, requests -5..10, seeds of 2 bytes | `ReturnedIsDrawn`, `ThrowsUnchanged` |
| `oqs_mechanisms` | all 63 and 59 names, and one that nobody knows | `ListsComplete`, `ListsTellOutcome`, `GuardsTellFamilies` |
| `pkcs12_existing_replaced` | as `pkcs12_store` | violated: `ExistingIsOpened` |
| `enrolled_password_was_typed` | as `certificates_screen` | violated: `StoredWasTyped` |
| `sign_needs_key` | as `oqs_signature` | violated: `SignNeedsKey` |

The three violated properties are sentences of the program about itself; the
findings of `PROJECT.json` quote them.

1. *"Si existe un keystore lo abre y si no crea uno nuevo."* Bouncy Castle
   throws an `IOException` for a missing file and for a wrong password alike, and
   `loadOrCreateKeyStore` takes both for a new store. An import under a second
   password replaces the whole file.
2. *"La contraseña se guardará cifrada y protegida por biometría."* A rotation
   while the enrolment prompt is open wipes the array that the prompt is to
   store. The zeros are enrolled.
3. *"Incorrect secret key length, make sure you specify one in the constructor
   or run generate_keypair()"* (`Signature.java:189-191`). The constructor
   without a key makes an array of the right length, so `sign` passes the test
   and signs with zeros. The key pair screen generates before it signs, so the
   application does not meet this.

### Behaviour worth knowing that is not stated as a property

The modules show these too; the code promises nothing about them, so no run
says that they are wrong.

- A mistyped password is offered for enrolment like any other, and the offer is
  never made again.
- A change of the enrolled biometrics invalidates the key of the fingerprint for
  good; `ensureKeyExists` never replaces it, so every later start asks for the
  password although one is stored.
- The import does not compare the private key with the certificate, so a
  signature can be made that the certificate does not verify. It takes keys of
  any algorithm (`isPqc` decides nothing), such as EC keys, for which the
  provider has no Signature under their name: the credential is listed, and
  signing with it fails.
- On the verification screen only digitalSignature is required for the result to
  be logged as ok; an expired or a CA certificate passes. The text on the screen
  does tell.
- On the key pair screen the saved keys are never read back: after a rotation
  the user must generate again, which truncates the files. And selecting another
  document leaves the verdict of the previous one.
- A handle is lost when an object is dropped, or created again, without
  `dispose_*`. `JNI_COMMIT` keeps its copy of an array: each signature,
  ciphertext, secret or generated key can stay in native memory.
- `OQS_SIG_new` may return NULL, which `get_sig_details` reads through.
- `generate_keypair` writes into the array that was given to the constructor,
  whatever its length; the Java side checks lengths in the other methods only.
- `randombytes_nist_kat_init` draws instead of seeding, and writes past the
  entropy when the personalization string is longer than it.

### Bounds, and why they are enough

- **Two passwords**: the one of the store and another. All the code compares is
  equality.
- **Two aliases**: the one imported and another one that must survive it.
- **Three arrays**: the session, one captured by a prompt that outlived its
  screen, and a spare one for the next password. An action that needs a new
  array waits for one, so a fourth could only matter if three were in use at
  once. `PasswordOfSession` says that an array with a password in it is the
  one of the session.
- **Certificates**: for the store, one for each way validation can end (good,
  expiring, CA of path length 0, no KeyUsage, another KeyUsage) over key pairs of
  two algorithms. The screens need fewer: an accepted one and a refused one.
- **Clock** (`MaxTime`): before, at and after the end of a validity period; the
  store has a certificate whose period is the single instant 1. Beyond
  `MaxTime` the clock stops, which loses only more of the same.
- **Algorithms**: one that the provider signs with and one that it does not, on
  the signing and the verification screen.
- **One signature file** on the verification screen: its content ranges over all
  signatures, and selecting it again after a change covers a second one.
- **Five key pairs** on the key pair screen: at most four can be referred to at
  once (by memory, by each of the two key files when saves failed before they
  opened them, and by `signature.bin`), and a fifth is the one to generate. A
  pair that nothing refers to any more may be generated again.

- **Two objects, two addresses** for signatures: two live objects, one address
  freed and taken again by the other, an allocation that finds none. Keys given
  to the constructor have the right length (2) or none (0).
- **Two algorithms, one object** for the KEM, one with longer arrays: an object
  may be of another algorithm than its arrays are made for, and a given key
  right for one and too short for the other, or too long for both. One pair is
  given, and
  generating yields it again or another; a ciphertext may be under either, or under an array that holds no
  key. One ciphertext under way meets every state of an object; more are
  independent of it, and the proof has any number.
- **A `jsize` of 3 bits** (`Half` is 4): requests from -5 to 10 are those that
  fit, those that wrap to a negative and those that wrap to a positive length.
  `SeedLength` is 2 with arrays of 0 to 3 bytes, as only the comparison matters.
  `MaxDrawn` bounds the bytes counted.
- **Mechanisms**: no bound; the names and lengths are those of the headers. The
  names are in one order, as the proof has any.

Imports, rotations, crashes, prompts, saves, and calls of the wrappers are not
bounded.

Symmetry is used on the key pair screen (key pairs, documents, contents), for
`oqs_signature` (objects, addresses) and for `oqs_kem` (addresses): the modules
compare these for equality and do nothing else with them, and none of these
runs has a liveness property. Every module is deadlock-free, so no
configuration turns deadlock checking off.

### Fairness

`FairSpec` of CertificatesActivity adds `WF_vars(Flush)`: Android's writer
thread for `apply()` runs by itself, whatever the user does, as long as the
process lives. Nothing else is fair: each other step is the user's, the
system's or another application's, and may never come. `EnrolmentIsForGood` takes
more than that fairness: the write may be cut off by a process death, which
leaves nothing enrolled, and what is written must never be replaced, which
depends on the offer being made only while nothing is stored, in every session,
under every prompt that outlives its screen.

## 4. The proofs

The runs check an instance; the theorems hold for every value of the constants
that meets the named assumptions. Each assumption states the shape of a
constant, or that a value such as null is none of those it must be told from; TLC
evaluates them in the runs. Each invariant is proved from an inductive one,
`IInv`, by a lemma for each action.

### Pkcs12StoreProofs

| Theorem | Property |
|---|---|
| `TypeCorrect` | `TypeOK` |
| `OnlyVetted` | `EntriesVetted` |
| `WritesAddOne` | `WriteAddsOneEntry`, a lemma in its own right that no run states |
| `AckedStays` | `AckedIsReadable` |
| `LossesExplained` | `LossNeedsInterruptionOrOtherPassword` |
| `Refinement` | `VaultSpec` |
| `WritesAddOrReplace` | `AddsOrReplaces`: under the password of the file one entry is added, under another all are dropped; no run states it |
| `OpenedUnderItsPassword` | `ExistingIsOpened`, if every write is under the password of the file |

**Assumptions.** `KeysAssumption` and `CertsAssumption` (constants have their
shape), `TimeAssumption` (`MaxTime` is a natural number), `NoEntryAssumption`
(`NoEntry` is not an entry).

**Argument.** The inductive invariant is `IInv == TypeOK /\ EntriesVetted /\
WriteAddsOneEntry /\ AckedIsReadable`. `EntriesVetted` speaks of the file and
also of the write in progress: on the file alone it is not inductive, as
`StoreFinish` moves `writing` into the file. For the write in progress it is
preserved by `ImportStart` because what was loaded was vetted for the very
password that loaded it; `under` makes this explicit. `AckedIsReadable` needs
that nothing is acknowledged while a write is in progress other than by
`StoreFinish`, and that this step stores under the alias what it acknowledges,
which is `WriteAddsOneEntry`. `StoreInterrupted` leaves `acked` empty, as
`ImportStart` cleared it. The type invariant has that `writing` has at most one
element, so the `CHOOSE` in `Opens` is determined.

`Refinement` maps each step: `ImportStart` and `Tick` stutter (the former since
`Opens` reads `before` during a write), `StoreFinish` is a `Put`,
`StoreInterrupted` is `Forget`. `WriteAddsOneEntry` gives that what `Put` adds
is one credential.

`WritesAddOrReplace` reads `WriteAddsOneEntry` against `Loaded`: what the
password loaded is either the entries of the file or none, never some of them.
`OpenedUnderItsPassword` follows: the promise that `pkcs12_existing_replaced`
refutes has one enemy, a second password, and holds without it.

### SignKeyPairProofs

| Theorem | Property |
|---|---|
| `TypeCorrect` | `TypeOK` |
| `KeysPaired` | `KeysBelongTogether` |
| `GeneratedKeysSaved` | `GeneratedIsSaved` |
| `SignedIsVerifiable` | `SignedVerifies` |
| `ValidByCurrentKey` | `ValidIsSound` |
| `Refinement` | `ContractSpec` |

**Assumption.** `NothingAssumption`: null is neither a key pair nor an object.

**Argument.** The inductive invariant `IInv` is the conjunction of the five
properties and `SavePending`. None of the four that speak of an idle screen is
inductive: `PrivateKeySaved` ends a save and puts its message on the screen, so
the invariant must say what a save in progress is about to announce.
`SavePending` does: while a key file is being saved there is a public key; when
it is the second one, `publicKey.bin` holds that key already; while
`signature.bin` is being saved, what is to be written was made with the private
key in memory. There is one lemma for each action, and in it one step for each
group of conjuncts. `ValidIsSound` follows at `Verify` from `KeysBelongTogether`:
the code verifies with the public key, the property speaks of the private one.

`Refinement` maps the screen to `SignatureContract` with one object: generating a
pair is `Obtain`, re-creation is `Lose`, `Sign` is the contract's `Sign` by the
pair in memory, whose signature is there while `signature.bin` is being saved,
and everything else a stutter or the answer going away. OqsSignature implements
the same contract, except that an object without a pair may sign there (finding
3): the screen never lets it. TLC checked `ContractSpec` on the instance of
`key_pair_screen` before it was proved.

### SignWithCertProofs

| Theorem | Property |
|---|---|
| `TypeCorrect` | `TypeOK` |
| `PasswordSafe` | `PasswordOfSession` |
| `SignatureIsCurrent` | `SignatureMatchesSelection` |
| `SavedIsAccepted` | `SavedVerifies`, what the two properties of the signature mean for a receiver; no run states it |
| `EnabledIsReady` | `SignReadyWhenEnabled` |
| `EmptyIsExplained` | `EmptyFileExplained` |
| `EnrolmentsAreTheSession` | `EnrolsTheSession`, as on the certificates screen; no run states it |
| `EnrolledForGood` | `[](onDisk = c => [](onDisk = c))`, as on the certificates screen |
| `SavedByImported` | the certificate behind a saved signature passed the import, if the store holds imported credentials |

**Assumptions.** `AuthAssumption` (of KeystoreAuth: null is no array, a wiped
array no password, an empty preference no content), `FilesAssumption` (the contents of the store have the
shape that `Pkcs12Store` gives them), `NothingAssumption`.

**Argument.** `IInv` is `SessionInv` (password, prompts, dialogs), `FormInv`
(selection, signature, pickers) and `ReadyInv` (how they depend on each other).
`PasswordOfSession` is not inductive: a prompt that is open now will put a
password into an array later. `PromptsServe` says what such a prompt may hold:
a decrypt prompt is open only while there is no password, an encrypt prompt of
this instance holds the array of the session, and one that outlived its
instance an array that was wiped. `DialogsServe` does the same for the
dialogs. `ReadyInv` has what `SignReadyWhenEnabled` needs of callbacks that a
re-created screen never receives: a certificate is selected only under a
password. `ByStoredKey`, part of `SignatureMatchesSelection`, says that the key
that signed is the one the certificate was stored with. It cannot be said of
the selection alone, as `saved` outlives it, so it is kept for the file as
well. `SavedIsAccepted` follows: with the certificate of its alias
`verifyDataWithCertificate` accepts what was written exactly when the key that
was imported is the key of that certificate.

`SavedByImported` joins the two screens. Its hypothesis on `Files` is what
`OnlyVetted` proves of every file the store can hold; its conclusion is what a
receiver may conclude from a saved signature: the certificate may sign, was
current when it was imported, and names the algorithm of the key. That the key
is the key of the certificate is not among it, nor that it is still current.
`EnrolInv`, for the two theorems on enrolment, is explained with the
certificates screen.

### CertificatesProofs

| Theorem | Property |
|---|---|
| `TypeCorrect` | `TypeOK` |
| `OnePassword` | `SessionAgrees` |
| `PasswordSafe` | `PasswordOfSession` |
| `PromptsServeTheirs` | `PromptServesSession` |
| `ImportsAreWhole` | `ImportOfOneFlow` |
| `ListIsCurrent` | `ListedIsReadable` |
| `StoreRunsUnchanged` | `Spec => Store!Spec` |
| `OnlyVetted` | `Store!EntriesVetted` |
| `AckedStays` | `Store!AckedIsReadable` |
| `ScreenIsAVault` | `Store!VaultSpec` |
| `LossesExplained` | `Store!LossNeedsInterruptionOrOtherPassword` |
| `EnrolmentsAreTheSession` | `EnrolsTheSession`, stated by no run |
| `EnrolledForGood` | `[](onDisk = c => [](onDisk = c))`, for every `c` |
| `FingerprintLostForGood` | `[](aesKey = "invalidated" => [](aesKey = "invalidated" /\ prompt = {}))` |
| `TypedUnlessOutlived` | `StoredWasTyped`, if no prompt outlives its screen |

**Assumptions.** `AuthAssumption`, `TimeAssumption` and `StoreAssumption`: the certificates are certificates of the store, and no entry
of a key store is the mark for none.

**Argument.** `IInv` is `SessionInv` (as for the signing screen, with
`SessionAgrees`), `ImportInv` and `ListInv`. `ImportOfOneFlow` speaks of
the import that is made; `FlowServes` says which parts the picker that is open
implies were chosen since the alias was, unless the screen was re-created
behind it, and then there is no alias.

`StoreRunsUnchanged` is the composition: each step of the screen is a step of
`Pkcs12Store` or leaves the store alone, a death of the process during an import
being an interrupted write. What `Pkcs12StoreProofs` shows of every
behaviour of the store thus holds of the store behind this screen, the refinement of
`CredentialVault` included. tlapm cannot cite a theorem of an instantiated
module, so those that speak of this screen are proved again here. `OnlyVetted`
and `AckedStays` rest on `StoreInv == Store!WriteAddsOneEntry /\
Store!EntriesVetted /\ Store!AckedIsReadable`: with `StoreSteps`, which takes a
step of the screen to the steps of the store, each of them is a lemma.
`ScreenIsAVault` and `LossesExplained` say what each of those steps does to
`Store!Opens` (`StoreStartOpens`, `StoreFinishOpens`, `StoreInterruptedOpens`,
`StoreQuietOpens`), so that a step of the screen is a step of the vault or
invisible to it. `ListIsCurrent` joins the two
invariants: what is on the screen is what the password of the session opens
(`IInv`), and what that password opens was vetted under it (`StoreInv`).

The theorems on enrolment rest on `EnrolInv`: under a prompt whose screen was
destroyed there is no session, so the array that it holds was wiped; a prompt
needs a valid key; and what is on the disk is what the process sees, or nothing
yet. `EnrolmentsAreTheSession` is then exact about what a fingerprint stores,
read from the array only when the finger is recognised: the password of the
session, or zeros. `EnrolledForGood` and `FingerprintLostForGood` are the two
dead ends of the manager, `[](P => []Q)` from one step each: no callback of
either screen removes a password from the disk (a mistyped or a wiped one
included), and none replaces an invalidated key. `TypedUnlessOutlived` is the
other side of finding `enrolled_password_was_typed`: `PromptsOfThisScreen`, which
no code ensures, is all it takes for what is stored to have been typed.

### VerifySignatureProofs

| Theorem | Property |
|---|---|
| `TypeCorrect` | `TypeOK` |
| `ButtonsCorrect` | `ButtonsMatchSelection` |
| `VerdictIsCurrent` | `VerdictMatchesSelection` |
| `ValidWasVerified` | `ValidIsSound` |
| `AnswersAreExact` | `AnswerIsExact`: what each of the three answers means; no run states it |

**Assumptions.** Those of CertValidation and `NothingAssumption`.

**Argument.** The conjunction of the four is inductive, and none of the last
three is by itself: a verification needs that an enabled button implies a
complete selection, and an answer stays true because every handler that changes
the selection runs `updateVerifyButtonState`, which takes the answer away.
`AnswersAreExact` is the converse of `ValidWasVerified`: a signature that was
read and fits, with a certificate of an algorithm the provider verifies with, is
never called invalid or an error, and every error has one of its three reasons
(the two catch clauses of `performVerification`). It rests on
`ButtonsMatchSelection`, without which the branch for missing data could answer.

### OqsObjectsProofs, OqsSignatureProofs, OqsKemProofs

| Theorem | Property |
|---|---|
| `OqsSignatureProofs!TypeCorrect` | `TypeOK` |
| `OqsSignatureProofs!HandlesValid` | `HandleValid` |
| `OqsSignatureProofs!NoneWild` | `NoWildAccess` |
| `OqsSignatureProofs!SignedIsVerifiable` | `SignedVerifies` |
| `OqsSignatureProofs!OnlyGenerationLeavesKeys` | `SecretsReleased` |
| `OqsSignatureProofs!Refinement` | `ContractSpec` |
| `OqsKemProofs!TypeCorrect` | `TypeOK`, stated by no run |
| `OqsKemProofs!HandlesValid` | `HandleValid`, of the shared module |
| `OqsKemProofs!NoneWild` | `NoWildAccess` |
| `OqsKemProofs!BothSidesAgree` | `SecretsCoincide` |
| `OqsKemProofs!OnlyGenerationLeavesKeys` | `KeysLeftByGeneration`: a key enters native memory only in a call of `generate_keypair`; no run states it |
| `OqsKemProofs!Refinement` | `ContractSpec` |

**Assumptions.** Of OqsObjects: `LengthsAssumption`, `KeyLengthsAssumption`
(lengths are natural numbers), `AddressAssumption`, `KeysAssumption`,
`ObjectAssumption`; of each wrapper: `AnswerAssumption`, `PairAssumption`.

**Argument.** `ObjectsInv` is `ObjectsTypeOK /\ HandleValid /\ NoWildAccess /\
PairInBoth`; its preservation by each operation is a lemma of OqsObjectsProofs
that both wrappers cite. `HandleValid` holds because an allocation only returns
a free address: it must speak of the native object and of the other handles at
once, as one object's `Dispose` is another's dangling handle otherwise.
`PairInBoth` says that a pair that was generated is in both arrays and that the
lengths are then those of the algorithm, which is what `SignedVerifies` and
`SecretsCoincide` come down to: the receiver uses one array, the property speaks
of the other. The refinements map construction and generation to `Obtain` or
`Lose`, disposal and dropping to `Lose`, each call that returns to its abstract
counterpart, the first step that breaks a rule of `Kept` to `LoseAll`, and all
steps after it to stutters or `LoseAll`. `OnlyGenerationLeavesKeys`
comes down to the mode of each release: `generate_keypair` commits the array of
the secret key and so may leave its copy, `sign` and `decap_secret` abort it, and
encapsulation and decapsulation can only leave the array they fill
(`EncapKeeps`, `DecapKeeps`).

### OqsRand and OqsMechanisms (in OqsKemProofs)

| Theorem | Property |
|---|---|
| `ReturnedDrawn` | `ReturnedIsDrawn` |
| `ThrowingIsHarmless` | `ThrowsUnchanged` |
| `ListsAreComplete` | `ListsComplete` |
| `OutcomeIsTold` | `ListsTellOutcome` |
| `FamiliesAreTold` | `GuardsTellFamilies` |

**Assumptions.** `WidthAssumption` (a `jsize` has a width), `RequestAssumption`
(a request is an integer), `NullAssumption`; `TableAssumption`, which is what
`sig.h` and `kem.h` say of the tables. TLC evaluates it for the names
and the two counts of the headers: a name too many, or a count that was not
raised with a new name, fails there.

**Argument.** For the generator, all is in what the cast from `long` to `jsize`
does (`JsizeType`, `JsizeFits`, `JsizeCuts`): a length that fits is itself, and
no cast makes a length that is not negative longer, so the array is never
longer than what was asked for. For the loops, `MechInv` says that the first list
is the table up to `i` and (`EnabledSoFar`) that the second has the enabled
names among the first `j` of it, each of them once. That it has none twice is not
inductive by itself: the next name must differ from all before it, which is
where the table having no name twice is used. When both are done, each list has as many
elements as its set (`OnceEach`, from the library's `FS_CountingElements`).
`OutcomeIsTold` needs besides that what is enabled is supported, `DEFAULT`
included (`EnabledIsSupported`).

`FamiliesAreTold` goes through the lengths of the headers once instead of
comparing every two. `KemBySecret` is a function from the length of a secret key
to the family and parameter set, `SigByPublic` one from that of a public key to
the family; every row of every table agrees with it (`KemTable`, `SigTable`, a
lemma for each header), so two rows that agree in that length agree in what it
tells. That the function exists is the theorem: the guards of
`decap_secret` and `verify` could not tell families apart if it did not.
`KemsListed` and `SigsListed` have that what the build enables has a row. It
holds for any order of the names, while TLC uses one. The operators `:>` and `@@`
that build the tables are defined in OqsMechanisms: those of the module TLC are
built in and the provers cannot expand them.

### What is only model-checked

- `EnrolmentIsForGood`: liveness under fairness is out of this prover's reach, as
  is ENABLED. What is proved is its other half, `EnrolledForGood`: the password
  that is on the disk stays there.
- Proofs by induction over data, and RECURSIVE operators, cannot be checked by
  this prover; no module that is proved about needs either.

## 5. What is assumed of code outside the repository

- `KeyStore.load` of Bouncy Castle throws an `IOException` for a missing, torn
  or differently protected file; `setKeyEntry` keeps the certificate of each
  alias apart; a null alias throws before anything is stored.
- `KeyStore.PrivateKeyEntry` compares the names of the algorithms of key and
  certificate, never the keys.
- The provider (Bouncy Castle) has a `Signature` for the names in `SignatureAlgs`
  only; `getInstance` throws for another. On bytes that are no signature
  of the algorithm of the key, `verify` returns false or throws.
- `openFileOutput(MODE_PRIVATE)` truncates at once. The content reaches the file
  as a whole when `store` returns; before, it is torn.
- `SharedPreferences.apply` is visible to the process at once and on disk later.
- A change of the enrolled biometrics invalidates the key for good. It needs the
  settings, so it never happens with a prompt on the screen.
- `androidx.biometric` 1.1.0 shows one prompt at a time; on a rotation the prompt
  survives with its callback, or is cancelled. A new
  `BiometricPrompt` on the same activity takes the callbacks over.
- Dialogs and prompts are modal. A dialog is gone after a rotation (it is
  not a `DialogFragment`), a picker is not, and its result is delivered to the
  new instance.
- The algorithms themselves are correct: a signature verifies with its own key
  and data only; a ciphertext opens to its secret with the secret key of the pair
  it was made under, and to a secret that nobody has, or an error, with
  any other.
- liboqs allocates at an address that is free, or returns NULL; freeing NULL does
  nothing; the calls that take an object refuse NULL. When `*_keypair` fails,
  each array is as it was or written in part. When `OQS_SIG_sign` fails the
  length is not set.
- JNI hands out an array as a copy or in place, independently for each array and
  call. The virtual machine ends the process when a further call is made with an
  exception pending only where JNI is checked, so both ways are taken.

### Not modelled

- Texts, logs and layouts, and the `print_*` methods.
- PEM and DER parsing: a document is a certificate, a key or unreadable.
- The certificate of the CA: it is parsed and stored in the chain, and no check
  reads it (`validateCertificate` ignores its second argument).
- Navigation (`MainActivity`, `CertificatesMenuActivity`): menus without state.
  `MyApp` registers the security provider, `CertAliasAdapter` lays out a list.
- liboqs itself. Its headers are modelled as contracts and names; `aes.h`,
  `sha2.h` and `sha3.h` are internal to it and called by no wrapper. The binary
  in the repository is newer than the headers: the lists of
  OqsMechanisms are those of the headers, which the wrappers are compiled with.
- `KEMExample.java`, a demonstration that calls KeyEncapsulation in order.
- The generated build outputs.
- Unsynchronised use of one liboqs object from several threads: the application
  uses the wrapper on the main thread only.

## 6. What could come next

1. The two screens that use the store and the preferences, one after the
   other with navigation between them: `StoreRunsUnchanged` and the `Files`
   constant of the signing screen are the two ends that such a module would
   join. `SavedByImported` and the two theorems `EnrolledForGood` are what
   is known of the pair so far.
2. A table of lengths for the binary instead of the headers.
3. A key pair screen over OqsSignature instead of LiboqsSignature, so that its
   native objects are allocated, replaced and lost as the wrapper does it.
