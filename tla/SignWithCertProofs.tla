------------------------- MODULE SignWithCertProofs -------------------------
(***************************************************************************)
(* Proofs about SignWithCertActivity, and through it about KeystoreAuth:   *)
(* for any arrays, passwords, credentials and documents.                   *)
(***************************************************************************)
EXTENDS SignWithCertActivity, TLAPS

(* What a prompt may rely on when it answers.  A decrypt prompt is only    *)
(* ever open before there is a password, and the settings cannot change    *)
(* under it; an encrypt prompt of this instance holds the array of the     *)
(* session, an older one an array that was wiped.                          *)
PromptsServe ==
    \A p \in prompt :
        /\ screen = "open"
        /\ p.mode = "decrypt" =>
            /\ keystorePassword = NoArray /\ dialog = "none"
            /\ stored # NoPassword /\ biometrics /\ aesKey = "valid"
        /\ p.mode = "encrypt" =>
            /\ p.array # NoArray
            /\ p.ours => p.array = keystorePassword

(* A dialog asks for a password while there is none, and offers to store   *)
(* one while there is one.                                                 *)
DialogsServe ==
    /\ dialog \in {"none", "password", "offer", "certificates"}
    /\ dialog = "password" => keystorePassword = NoArray
    /\ dialog = "offer" => keystorePassword # NoArray
    /\ screen = "closed" => keystorePassword = NoArray

(* The session. *)
SessionInv ==
    /\ AuthTypeOK
    /\ screen \in {"closed", "open"}
    /\ ksAuth \in BOOLEAN
    /\ keystorePassword \in Arrays \cup {NoArray}
    /\ given \in Contents \cup {NoPassword}
    /\ PasswordOfSession
    /\ PromptsServe
    /\ DialogsServe

(* The selection, the signature in memory and the pickers. *)
FormInv ==
    /\ file \in Files
    /\ content \in [Documents -> Data \cup {Unreadable}]
    /\ aliasList \in SUBSET Aliases
    /\ selectedAlias \in Aliases \cup {Nothing}
    /\ selectedFile \in Documents \cup {Nothing}
    /\ lastSignature \in SignatureRecord \cup {Nothing}
    /\ enabled \in BOOLEAN
    /\ picker \in {"none", "file", "save"}
    /\ created \in {"none", "empty", "partial", "saved"}
    /\ saved \in SignatureRecord \cup {Nothing}
    /\ recreated \in BOOLEAN
    /\ SignatureMatchesSelection

(* A certificate is listed or selected only under a password, and the      *)
(* signature that a picker is open for is lost by a re-creation only.      *)
ReadyInv ==
    /\ aliasList # {} => keystorePassword # NoArray
    /\ selectedAlias # Nothing => keystorePassword # NoArray
    /\ enabled => selectedAlias # Nothing /\ selectedFile # Nothing
    /\ picker = "save" /\ lastSignature = Nothing => recreated
    /\ screen = "closed" => picker = "none"

IInv == SessionInv /\ FormInv /\ ReadyInv

-----------------------------------------------------------------------------
(* The session. *)

(* A callback that leaves the session alone. *)
LEMMA SessionKept ==
    ASSUME SessionInv,
           UNCHANGED <<authVars, screen, ksAuth, keystorePassword, given>>,
           \/ dialog' = dialog
           \/ dialog' \in {"none", "certificates"} /\ prompt = {}
    PROVE  SessionInv'
BY DEF SessionInv, AuthTypeOK, PasswordOfSession, PromptsServe, DialogsServe,
       authVars

(* Nothing is left of the session after onDestroy. *)
LEMMA Destroyed ==
    ASSUME SessionInv, onDestroy
    PROVE  /\ heap' = [r \in Arrays |-> Zeroed]
           /\ cached' = NoArray /\ keystorePassword' = NoArray
           /\ given' = NoPassword
<1>1. \A r \in Arrays : r \notin Wiped => heap[r] = Zeroed
  BY DEF SessionInv, AuthTypeOK, PasswordOfSession, Contents, Wiped
<1>2. heap' = [r \in Arrays |-> IF r \in Wiped THEN Zeroed ELSE heap[r]]
  BY DEF onDestroy, Wipe
<1>3. heap' = [r \in Arrays |-> Zeroed]
  BY <1>1, <1>2
<1> QED
  BY <1>3 DEF onDestroy

(* A state in which no array holds a password. *)
LEMMA SessionEmpty ==
    ASSUME heap' = [r \in Arrays |-> Zeroed], cached' = NoArray,
           keystorePassword' = NoArray, given' \in Contents \cup {NoPassword},
           stored' \in Contents \cup {NoPassword},
           onDisk' \in Contents \cup {NoPassword},
           aesKey' \in {"absent", "valid", "invalidated"},
           biometrics' \in BOOLEAN, ksAuth' \in BOOLEAN,
           screen' \in {"closed", "open"},
           prompt' \in SUBSET Prompt, \A p, q \in prompt' : p = q,
           PromptsServe', dialog' \in {"none", "password", "certificates"}
    PROVE  SessionInv'
<1>1. AuthTypeOK'
  BY DEF AuthTypeOK, Contents
<1>2. PasswordOfSession'
  BY AuthAssumption DEF PasswordOfSession, Contents
<1>3. DialogsServe'
  BY DEF DialogsServe
<1> QED
  BY <1>1, <1>2, <1>3 DEF SessionInv

(* onCreate opens a decrypt prompt, or leaves an encrypt prompt of the     *)
(* instance before it.  It cannot find a decrypt prompt and leave it, as   *)
(* nothing that onCreate looks at changes under one.                       *)
LEMMA Created ==
    ASSUME SessionInv, NEW kept \in {prompt, {}}, onCreate(kept),
           UNCHANGED <<stored, onDisk, biometrics>>,
           heap' = [r \in Arrays |-> Zeroed], cached' = NoArray,
           keystorePassword' = NoArray, given' \in Contents \cup {NoPassword}
    PROVE  SessionInv'
<1>1. /\ screen' = "open" /\ ksAuth' \in BOOLEAN
      /\ aesKey' \in {"absent", "valid", "invalidated"}
      /\ aesKey = "valid" => aesKey' = "valid" /\ ~ ensureKeyExistsThrows
  BY DEF onCreate, ensureKeyExists, ensureKeyExistsThrows, SessionInv,
         AuthTypeOK
<1>2. /\ stored' \in Contents \cup {NoPassword}
      /\ onDisk' \in Contents \cup {NoPassword} /\ biometrics' \in BOOLEAN
  BY DEF SessionInv, AuthTypeOK
<1>3. CASE /\ ~ ensureKeyExistsThrows
           /\ hasStoredPassword /\ canUseBiometrics /\ aesKey' = "valid"
  <2>1. prompt' = DecryptPrompt /\ dialog' = "none"
    BY <1>3 DEF onCreate
  <2>2. prompt' \in SUBSET Prompt /\ \A p, q \in prompt' : p = q
    BY <2>1 DEF DecryptPrompt, Prompt
  <2>3. PromptsServe'
    BY <1>1, <1>3, <2>1
       DEF PromptsServe, DecryptPrompt, hasStoredPassword, canUseBiometrics
  <2> QED
    BY <1>1, <1>2, <2>1, <2>2, <2>3, SessionEmpty
<1>4. CASE ~ (/\ ~ ensureKeyExistsThrows
              /\ hasStoredPassword /\ canUseBiometrics /\ aesKey' = "valid")
  <2>1. /\ prompt' = {[p EXCEPT !.ours = FALSE] : p \in kept}
        /\ dialog' = "password"
    BY <1>4 DEF onCreate
  <2>2. prompt \in SUBSET Prompt /\ \A p, q \in prompt : p = q
    BY DEF SessionInv, AuthTypeOK
  <2>3. ASSUME NEW p \in prompt
        PROVE  /\ p.mode = "encrypt" /\ p.array # NoArray
               /\ [p EXCEPT !.ours = FALSE] \in Prompt
               /\ [p EXCEPT !.ours = FALSE].mode = "encrypt"
               /\ [p EXCEPT !.ours = FALSE].array = p.array
               /\ [p EXCEPT !.ours = FALSE].ours = FALSE
    <3>1. p \in Prompt
      BY <2>2
    <3>2. p.mode # "decrypt"
      BY <1>1, <1>4 DEF SessionInv, PromptsServe, hasStoredPassword,
                        canUseBiometrics
    <3>3. p.mode = "encrypt" /\ p.array # NoArray
      BY <3>1, <3>2 DEF Prompt, SessionInv, PromptsServe
    <3> QED
      BY <3>1, <3>3 DEF Prompt
  <2>4. prompt' \in SUBSET Prompt /\ \A p, q \in prompt' : p = q
    BY <2>1, <2>2, <2>3
  <2>5. PromptsServe'
    BY <1>1, <2>1, <2>3 DEF PromptsServe
  <2> QED
    BY <1>1, <1>2, <2>1, <2>4, <2>5, SessionEmpty
<1> QED
  BY <1>3, <1>4

(* There was no password, and array r gets one: typed or decrypted. *)
LEMMA SessionOpens ==
    ASSUME SessionInv, NEW r \in Unused(Referenced), NEW pwd \in Contents,
           keystorePassword = NoArray, screen = "open",
           heap' = [heap EXCEPT ![r] = pwd], cached' \in {NoArray, r},
           OpenWith(r, pwd), prompt' = {},
           UNCHANGED <<stored, onDisk, aesKey, biometrics, screen, ksAuth>>,
           dialog' \in {"none", "offer"}
    PROVE  SessionInv'
<1>1. r \in Arrays /\ r # NoArray
  BY AuthAssumption DEF Unused
<1>2. keystorePassword' = r /\ given' = pwd
  BY DEF OpenWith
<1>3. heap \in [Arrays -> Contents]
  BY DEF SessionInv, AuthTypeOK
<1>4. /\ heap' \in [Arrays -> Contents] /\ heap'[r] = pwd
      /\ \A q \in Arrays : q # r => heap'[q] = heap[q]
  BY <1>1, <1>3
<1>5. AuthTypeOK'
  BY <1>1, <1>4 DEF AuthTypeOK, SessionInv
<1>6. PasswordOfSession'
  BY <1>1, <1>2, <1>4, AuthAssumption DEF PasswordOfSession, SessionInv
<1>7. PromptsServe' /\ DialogsServe'
  BY <1>1, <1>2 DEF PromptsServe, DialogsServe
<1> QED
  BY <1>1, <1>2, <1>5, <1>6, <1>7 DEF SessionInv

LEMMA NewIsUnused ==
    ASSUME Unused(Referenced) # {} PROVE NewArray \in Unused(Referenced)
BY DEF NewArray

-----------------------------------------------------------------------------
(* The selection. *)

(* A callback of the session that changes no selection; what is listed is  *)
(* listed under a password.                                                *)
LEMMA FormKept ==
    ASSUME FormInv, ReadyInv,
           keystorePassword' # NoArray \/ UNCHANGED keystorePassword,
           UNCHANGED <<world, formVars, picker, output, recreated>>,
           screen' = screen
    PROVE  FormInv' /\ ReadyInv'
BY DEF FormInv, ReadyInv, SignatureMatchesSelection, ByStoredKey, world,
       formVars, selection, output

LEMMA ListTyped ==
    ASSUME NEW pwd
    PROVE  Store!listCertificates(pwd) \in SUBSET Aliases
BY DEF Store!listCertificates

(* After onDestroy nothing is selected. *)
LEMMA FormEmpty ==
    ASSUME FormInv, UNCHANGED <<world, output>>,
           aliasList' = {}, selectedAlias' = Nothing, selectedFile' = Nothing,
           lastSignature' = Nothing, enabled' = FALSE,
           picker' \in {"none", "file", "save"}, recreated' \in BOOLEAN,
           picker' = "save" => recreated',
           screen' = "closed" => picker' = "none"
    PROVE  FormInv' /\ ReadyInv'
BY DEF FormInv, ReadyInv, SignatureMatchesSelection, ByStoredKey, world, output

(* What btnSign makes: a signature record, by the stored key of the        *)
(* selected alias.                                                         *)
LEMMA SignatureMade ==
    ASSUME IInv, enabled, SignReady, SignSucceeds,
           NEW s, s = [sig |-> Store!signDataWithAlias(selectedAlias,
                                heap[keystorePassword], content[selectedFile]),
                       alias |-> selectedAlias, document |-> selectedFile,
                       data |-> content[selectedFile]]
    PROVE  s \in SignatureRecord /\ ByStoredKey(s)
<1> DEFINE e == Store!getKeyAndCertificate(selectedAlias,
                                           heap[keystorePassword])
<1>1. /\ selectedAlias \in Aliases /\ selectedFile \in Documents
      /\ content[selectedFile] \in Data
  BY DEF IInv, FormInv, SignReady, SignSucceeds
<1>2. file \in Store!File
  BY FilesAssumption DEF IInv, FormInv
<1>3. file.entries \in [Aliases -> Store!Entry \cup {NoEntry}]
  BY <1>2 DEF Store!File, Store!KeyStore
<1>4. e = file.entries[selectedAlias] /\ e # NoEntry
  BY <1>1 DEF SignSucceeds, Store!listCertificates,
     Store!getKeyAndCertificate, Store!loadOrCreateKeyStore, Store!Loaded,
     Store!Empty
<1>5. e.key \in Keys
  BY <1>1, <1>3, <1>4 DEF Store!Entry
<1>6. Store!signDataWithAlias(selectedAlias, heap[keystorePassword],
                              content[selectedFile])
        = Store!Signature(e.key, content[selectedFile])
  BY DEF Store!signDataWithAlias
<1>7. s \in SignatureRecord
  BY <1>1, <1>5, <1>6 DEF SignatureRecord
<1>8. ByStoredKey(s)
  BY <1>4, <1>6 DEF ByStoredKey, SignSucceeds
<1> QED
  BY <1>7, <1>8

-----------------------------------------------------------------------------
(* The invariant. *)

LEMMA InitInv == Init => IInv
<1> SUFFICES ASSUME Init PROVE IInv
  OBVIOUS
<1>1. AuthTypeOK
  BY DEF Init, AuthInit, AuthTypeOK, Contents
<1>2. SessionInv
  BY <1>1, AuthAssumption DEF Init, AuthInit, SessionInv, PasswordOfSession,
     PromptsServe, DialogsServe, Contents
<1>3. FormInv /\ ReadyInv
  BY DEF Init, FormInv, ReadyInv, SignatureMatchesSelection, ByStoredKey
<1> QED
  BY <1>2, <1>3 DEF IInv

(* Entering, leaving and re-creating the screen. *)
LEMMA ScreenKeeps ==
    ASSUME IInv, Open \/ Close \/ Recreate \/ CancelPassword \/ Crash
    PROVE  IInv'
<1>1. CASE Open
  <2>1. keystorePassword = NoArray /\ prompt = {}
    BY <1>1 DEF Open, IInv, SessionInv, DialogsServe, PromptsServe
  <2>2. /\ heap = [r \in Arrays |-> Zeroed] /\ cached = NoArray
        /\ given \in Contents \cup {NoPassword}
    BY <1>1, <2>1 DEF Open, IInv, SessionInv, PasswordOfSession, AuthTypeOK,
       Contents
  <2>3. SessionInv'
    BY <1>1, <2>1, <2>2, Created DEF Open, IInv
  <2>4. FormInv' /\ ReadyInv'
    BY <1>1, <2>1 DEF Open, onCreate, IInv, FormInv, ReadyInv,
       SignatureMatchesSelection, ByStoredKey, world, formVars, selection,
       output
  <2> QED
    BY <2>3, <2>4 DEF IInv
<1>2. CASE Close \/ CancelPassword
  <2>1. /\ onDestroy /\ prompt = {} /\ picker = "none"
        /\ screen' = "closed" /\ ksAuth' = FALSE /\ dialog' = "none"
        /\ UNCHANGED <<stored, onDisk, aesKey, biometrics, prompt, world,
                       picker, output, recreated>>
    BY <1>2 DEF Close, CancelPassword, Idle, Foreground
  <2>2. /\ heap' = [r \in Arrays |-> Zeroed] /\ cached' = NoArray
        /\ keystorePassword' = NoArray /\ given' = NoPassword
    BY <2>1, Destroyed DEF IInv
  <2>3. prompt' \in SUBSET Prompt /\ PromptsServe'
    BY <2>1 DEF PromptsServe
  <2>4. SessionInv'
    BY <2>1, <2>2, <2>3, SessionEmpty DEF IInv, SessionInv, AuthTypeOK
  <2>5. FormInv' /\ ReadyInv'
    BY <2>1, FormEmpty DEF onDestroy, IInv, FormInv
  <2> QED
    BY <2>4, <2>5 DEF IInv
<1>3. CASE Recreate
  <2>1. PICK kept \in {prompt, {}} : onCreate(kept)
    BY <1>3 DEF Recreate
  <2>2. /\ heap' = [r \in Arrays |-> Zeroed] /\ cached' = NoArray
        /\ keystorePassword' = NoArray /\ given' = NoPassword
    BY <1>3, Destroyed DEF Recreate, IInv
  <2>3. SessionInv'
    BY <1>3, <2>1, <2>2, Created DEF Recreate, IInv
  <2>4. FormInv' /\ ReadyInv'
    BY <1>3, <2>1, FormEmpty DEF Recreate, onDestroy, onCreate, IInv, FormInv
  <2> QED
    BY <2>3, <2>4 DEF IInv
<1>4. CASE Crash
  <2>1. SessionInv'
    BY <1>4, SessionEmpty
       DEF Crash, ProcessDies, IInv, SessionInv, AuthTypeOK, PromptsServe
  <2>2. FormInv' /\ ReadyInv'
    BY <1>4, FormEmpty DEF Crash, IInv, FormInv
  <2> QED
    BY <2>1, <2>2 DEF IInv
<1> QED
  BY <1>1, <1>2, <1>3, <1>4

(* The password dialog, the offer and the prompts. *)
LEMMA PasswordKeeps ==
    ASSUME IInv,
           \/ \E pwd \in Passwords : TypePassword(pwd)
           \/ DismissDialog \/ AcceptOffer
           \/ FingerprintOpens \/ FingerprintEnrols \/ FingerprintError
           \/ Flush \/ ChangeSettings
    PROVE  IInv'
<1>1. ASSUME NEW pwd \in Passwords, TypePassword(pwd)
      PROVE  IInv'
  <2>1. NewArray \in Unused(Referenced)
    BY <1>1, NewIsUnused DEF TypePassword
  <2>2. /\ keystorePassword = NoArray /\ screen = "open" /\ cached = NoArray
        /\ prompt = {}
    BY <1>1 DEF TypePassword, Foreground, IInv, SessionInv, DialogsServe,
       PasswordOfSession
  <2>3. pwd \in Contents /\ dialog' \in {"none", "offer"}
    BY <1>1 DEF TypePassword, offerEnableBiometricsIfPossible, Contents
  <2>4. SessionInv'
    BY <1>1, <2>1, <2>2, <2>3, SessionOpens DEF TypePassword, IInv
  <2>5. keystorePassword' # NoArray /\ aliasList' \in SUBSET Aliases
    BY <1>1, <2>1, AuthAssumption, ListTyped
       DEF TypePassword, OpenWith, Unused
  <2>6. FormInv' /\ ReadyInv'
    BY <1>1, <2>5 DEF TypePassword, IInv, FormInv, ReadyInv,
       SignatureMatchesSelection, ByStoredKey, world, selection, output
  <2> QED
    BY <2>4, <2>6 DEF IInv
<1>2. CASE DismissDialog
  <2>1. SessionInv'
    BY <1>2, SessionKept DEF DismissDialog, Foreground, IInv
  <2>2. FormInv' /\ ReadyInv'
    BY <1>2, FormKept DEF DismissDialog, IInv
  <2> QED
    BY <2>1, <2>2 DEF IInv
<1>3. CASE AcceptOffer
  <2>1. keystorePassword \in Arrays /\ screen = "open"
    BY <1>3 DEF AcceptOffer, Foreground, IInv, SessionInv, DialogsServe
  <2>2. /\ prompt' \in SUBSET Prompt /\ \A p, q \in prompt' : p = q
        /\ \A p \in prompt' :
                p.mode = "encrypt" /\ p.array = keystorePassword
    <3> DEFINE new == [mode |-> "encrypt", array |-> keystorePassword,
                       ours |-> TRUE]
    <3>1. new \in Prompt
      BY <2>1 DEF Prompt
    <3>2. prompt' = {new} \/ prompt' = {}
      BY <1>3 DEF AcceptOffer, EncryptPrompt
    <3>3. new.mode = "encrypt" /\ new.array = keystorePassword
      OBVIOUS
    <3> HIDE DEF new
    <3> QED
      BY <3>1, <3>2, <3>3
  <2>3. UNCHANGED <<heap, stored, onDisk, aesKey, biometrics, cached, screen,
                    ksAuth, keystorePassword, given>> /\ dialog' = "none"
    BY <1>3 DEF AcceptOffer
  <2>4. AuthTypeOK' /\ PasswordOfSession'
    BY <2>2, <2>3 DEF AuthTypeOK, PasswordOfSession, IInv, SessionInv
  <2>5. PromptsServe'
    BY <2>1, <2>2, <2>3, AuthAssumption DEF PromptsServe
  <2>6. DialogsServe'
    BY <2>1, <2>3 DEF DialogsServe
  <2>7. FormInv' /\ ReadyInv'
    BY <1>3, FormKept DEF AcceptOffer, IInv
  <2> QED
    BY <2>3, <2>4, <2>5, <2>6, <2>7 DEF IInv, SessionInv
<1>4. CASE FingerprintOpens
  <2>1. NewArray \in Unused(Referenced)
    BY <1>4, NewIsUnused DEF FingerprintOpens
  <2>2. /\ keystorePassword = NoArray /\ screen = "open" /\ cached = NoArray
        /\ stored \in Contents /\ dialog = "none"
    BY <1>4 DEF FingerprintOpens, DecryptSucceeds, IInv, SessionInv,
       PromptsServe, PasswordOfSession, AuthTypeOK
  <2>3. SessionInv'
    BY <1>4, <2>1, <2>2, SessionOpens
       DEF FingerprintOpens, DecryptSucceeds, IInv
  <2>4. keystorePassword' # NoArray /\ aliasList' \in SUBSET Aliases
    BY <1>4, <2>1, AuthAssumption, ListTyped
       DEF FingerprintOpens, OpenWith, Unused
  <2>5. FormInv' /\ ReadyInv'
    BY <1>4, <2>4 DEF FingerprintOpens, IInv, FormInv, ReadyInv,
       SignatureMatchesSelection, ByStoredKey, world, selection, output
  <2> QED
    BY <2>3, <2>5 DEF IInv
<1>5. CASE FingerprintEnrols
  <2>1. PICK p \in prompt :
            /\ p.mode = "encrypt"
            /\ stored' = heap[p.array]
            /\ cached' = IF p.ours THEN p.array ELSE cached
            /\ prompt' = {}
            /\ UNCHANGED <<heap, onDisk, aesKey, biometrics>>
    BY <1>5 DEF FingerprintEnrols, EncryptSucceeds
  <2>2. p \in Prompt
    BY DEF IInv, SessionInv, AuthTypeOK
  <2>3. /\ p.array \in Arrays
        /\ p.ours => p.array = keystorePassword
    BY <2>1, <2>2 DEF Prompt, IInv, SessionInv, PromptsServe
  <2>4. stored' \in Contents /\ cached' \in Arrays \cup {NoArray}
    BY <2>1, <2>3 DEF IInv, SessionInv, AuthTypeOK
  <2>5. UNCHANGED <<screen, ksAuth, keystorePassword, given, dialog>>
    BY <1>5 DEF FingerprintEnrols
  <2>6. AuthTypeOK'
    BY <2>1, <2>4 DEF IInv, SessionInv, AuthTypeOK
  <2>7. PasswordOfSession' /\ PromptsServe' /\ DialogsServe'
    BY <2>1, <2>3, <2>5 DEF IInv, SessionInv, PasswordOfSession, PromptsServe,
       DialogsServe
  <2>8. FormInv' /\ ReadyInv'
    BY <1>5, FormKept DEF FingerprintEnrols, IInv
  <2> QED
    BY <2>5, <2>6, <2>7, <2>8 DEF IInv, SessionInv
<1>6. CASE FingerprintError
  <2>1. /\ prompt' = {} /\ prompt # {}
        /\ UNCHANGED <<heap, stored, onDisk, aesKey, biometrics, cached, screen,
                       ksAuth, keystorePassword, given>>
    BY <1>6 DEF FingerprintError, PromptError
  <2>2. dialog' = IF \E p \in prompt : p.mode = "decrypt" THEN "password"
                  ELSE dialog
    BY <1>6 DEF FingerprintError
  <2>3. AuthTypeOK' /\ PasswordOfSession' /\ PromptsServe'
    BY <2>1 DEF IInv, SessionInv, AuthTypeOK, PasswordOfSession, PromptsServe
  <2>4. DialogsServe'
    BY <2>1, <2>2 DEF IInv, SessionInv, DialogsServe, PromptsServe
  <2>5. FormInv' /\ ReadyInv'
    BY <1>6, FormKept DEF FingerprintError, IInv
  <2> QED
    BY <2>1, <2>3, <2>4, <2>5 DEF IInv, SessionInv
<1>7. CASE Flush \/ ChangeSettings
  <2>1. /\ UNCHANGED <<heap, stored, cached, prompt, screen, ksAuth,
                       keystorePassword, given, dialog>>
        /\ onDisk' \in {onDisk, stored} /\ biometrics' \in BOOLEAN
        /\ aesKey' \in {aesKey, "invalidated"}
        /\ prompt = {} \/ UNCHANGED <<biometrics, aesKey>>
    BY <1>7 DEF Flush, ChangeSettings, FlushPreferences, ChangeBiometrics,
       IInv, SessionInv, AuthTypeOK
  <2>2. AuthTypeOK'
    BY <2>1 DEF IInv, SessionInv, AuthTypeOK
  <2>3. PasswordOfSession' /\ PromptsServe' /\ DialogsServe'
    BY <2>1 DEF IInv, SessionInv, PasswordOfSession, PromptsServe, DialogsServe
  <2>4. FormInv' /\ ReadyInv'
    BY <1>7, FormKept DEF Flush, ChangeSettings, IInv
  <2> QED
    BY <2>1, <2>2, <2>3, <2>4 DEF IInv, SessionInv
<1> QED
  BY <1>1, <1>2, <1>3, <1>4, <1>5, <1>6, <1>7

(* Selecting, signing and saving. *)
LEMMA SelectionKeeps ==
    ASSUME IInv,
           \/ ChooseCert \/ ChooseFile \/ PickCancelled
           \/ \E a \in Aliases : SelectCert(a)
           \/ \E d \in Documents : SelectFile(d)
           \/ Sign \/ SaveNothing \/ SaveSucceeds \/ SaveCloseFails \/ SaveFails
           \/ DocumentChanges
    PROVE  IInv'
<1>1. SessionInv'
  <2>1. /\ UNCHANGED <<authVars, screen, ksAuth, keystorePassword, given>>
        /\ \/ dialog' = dialog
           \/ dialog' \in {"none", "certificates"} /\ prompt = {}
    BY DEF ChooseCert, ChooseFile, PickCancelled, SelectCert, SelectFile, Sign,
       SaveNothing, SaveSucceeds, SaveCloseFails, SaveFails, DocumentChanges,
       Foreground, Idle
  <2> QED
    BY <2>1, SessionKept DEF IInv
<1>2. CASE ChooseCert \/ ChooseFile \/ PickCancelled \/ SaveNothing \/ SaveFails
  <2>1. /\ UNCHANGED <<world, screen, keystorePassword, formVars, saved>>
        /\ created' \in {created, "empty", "partial"}
        /\ \/ UNCHANGED <<picker, recreated>>
           \/ picker' = "none" /\ UNCHANGED recreated
           \/ picker' = "file" /\ recreated' = FALSE /\ screen = "open"
    BY <1>2 DEF ChooseCert, ChooseFile, PickCancelled, SaveNothing, SaveFails,
       Foreground, Idle, output
  <2>2. FormInv'
    <3>1. SignatureMatchesSelection'
      BY <2>1 DEF IInv, FormInv, SignatureMatchesSelection, ByStoredKey,
         world, formVars, selection
    <3>2. /\ picker' \in {"none", "file", "save"} /\ recreated' \in BOOLEAN
          /\ created' \in {"none", "empty", "partial", "saved"}
      BY <2>1 DEF IInv, FormInv
    <3> QED
      BY <2>1, <3>1, <3>2 DEF IInv, FormInv, world, formVars, selection
  <2>3. ReadyInv'
    BY <2>1 DEF IInv, ReadyInv, formVars, selection
  <2> QED
    BY <1>1, <2>2, <2>3 DEF IInv
<1>3. ASSUME NEW a \in Aliases, SelectCert(a)
      PROVE  IInv'
  <2>1. keystorePassword # NoArray
    BY <1>3 DEF SelectCert, IInv, ReadyInv
  <2>2. /\ selectedAlias' = a /\ lastSignature' = Nothing
        /\ enabled' = (selectedAlias' # Nothing /\ selectedFile' # Nothing)
        /\ picker = "none"
        /\ UNCHANGED <<world, screen, keystorePassword, aliasList,
                       selectedFile, picker, output, recreated>>
    BY <1>3 DEF SelectCert, Foreground, updateSignButtonState
  <2> QED
    BY <1>1, <2>1, <2>2 DEF IInv, FormInv, ReadyInv,
       SignatureMatchesSelection, ByStoredKey, world, output
<1>4. ASSUME NEW d \in Documents, SelectFile(d)
      PROVE  IInv'
  <2>1. /\ selectedFile' = d /\ lastSignature' = Nothing
        /\ enabled' = (selectedAlias' # Nothing /\ selectedFile' # Nothing)
        /\ picker' = "none"
        /\ UNCHANGED <<world, screen, keystorePassword, aliasList,
                       selectedAlias, output, recreated>>
    BY <1>4 DEF SelectFile, updateSignButtonState, authVars
  <2> QED
    BY <1>1, <2>1 DEF IInv, FormInv, ReadyInv, SignatureMatchesSelection,
       ByStoredKey, world, output
<1>5. CASE Sign
  <2> DEFINE s == [sig |-> Store!signDataWithAlias(selectedAlias,
                        heap[keystorePassword], content[selectedFile]),
                   alias |-> selectedAlias, document |-> selectedFile,
                   data |-> content[selectedFile]]
  <2>1. s \in SignatureRecord /\ s # Nothing /\ ByStoredKey(s)
    BY <1>5, SignatureMade, NothingAssumption DEF Sign
  <2>2. s.alias = selectedAlias /\ s.document = selectedFile
    OBVIOUS
  <2> HIDE DEF s
  <2>3. /\ lastSignature' = s /\ picker' = "save" /\ recreated' = FALSE
        /\ created' = "none" /\ screen = "open"
        /\ UNCHANGED <<world, screen, keystorePassword, aliasList, selection,
                       enabled, saved>>
    BY <1>5 DEF Sign, s, Idle, Foreground
  <2> QED
    BY <1>1, <2>1, <2>2, <2>3 DEF IInv, FormInv, ReadyInv,
       SignatureMatchesSelection, ByStoredKey, world, selection
<1>6. CASE SaveSucceeds \/ SaveCloseFails
  <2>1. /\ selectedAlias' = Nothing /\ selectedFile' = Nothing
        /\ lastSignature' = Nothing /\ picker' = "none"
        /\ enabled' = FALSE /\ created' \in {"saved", "partial"}
        /\ saved' \in {saved, lastSignature}
        /\ UNCHANGED <<world, screen, keystorePassword, aliasList, recreated>>
    BY <1>6 DEF SaveSucceeds, SaveCloseFails, updateSignButtonState
  <2> QED
    BY <1>1, <2>1 DEF IInv, FormInv, ReadyInv, SignatureMatchesSelection,
       ByStoredKey, world
<1>7. CASE DocumentChanges
  <2>1. /\ content' \in [Documents -> Data \cup {Unreadable}]
        /\ UNCHANGED <<file, screen, keystorePassword, formVars, picker,
                       output, recreated>>
    BY <1>7 DEF DocumentChanges, IInv, FormInv
  <2> QED
    BY <1>1, <2>1 DEF IInv, FormInv, ReadyInv, SignatureMatchesSelection,
       ByStoredKey, formVars, selection, output
<1> QED
  BY <1>2, <1>3, <1>4, <1>5, <1>6, <1>7

LEMMA NextInv == IInv /\ [Next]_vars => IInv'
<1> SUFFICES ASSUME IInv, [Next]_vars PROVE IInv'
  OBVIOUS
<1>1. CASE Next
  BY <1>1, ScreenKeeps, PasswordKeeps, SelectionKeeps DEF Next
<1>2. CASE UNCHANGED vars
  <2>1. SessionInv'
    BY <1>2, SessionKept DEF vars, IInv
  <2>2. FormInv' /\ ReadyInv'
    BY <1>2, FormKept DEF vars, IInv
  <2> QED
    BY <2>1, <2>2 DEF IInv
<1> QED
  BY <1>1, <1>2

LEMMA Invariance == Spec => []IInv
BY InitInv, NextInv, PTL DEF Spec

-----------------------------------------------------------------------------

(* Type correctness. *)
THEOREM TypeCorrect == Spec => []TypeOK
<1>1. IInv => TypeOK
  BY DEF IInv, SessionInv, DialogsServe, FormInv, TypeOK
<1> QED
  BY <1>1, Invariance, PTL

(* The password in use is never wiped, and none is left when the screen is *)
(* gone, whatever arrays there are and whichever prompt outlives it.       *)
THEOREM PasswordSafe == Spec => []PasswordOfSession
<1>1. IInv => PasswordOfSession
  BY DEF IInv, SessionInv
<1> QED
  BY <1>1, Invariance, PTL

(* The signature in memory is of what is selected, by the selected key,    *)
(* and what was saved is a signature by a key of the store.                *)
THEOREM SignatureIsCurrent == Spec => []SignatureMatchesSelection
<1>1. IInv => SignatureMatchesSelection
  BY DEF IInv, FormInv
<1> QED
  BY <1>1, Invariance, PTL

(* A saved signature is accepted with the certificate of its alias exactly *)
(* when the key that was imported with it is its own: nothing between the  *)
(* signature and the file (another selection, a re-creation, a failed save *)
(* and a second one, a change of the document) can spoil it.               *)
THEOREM SavedIsAccepted == Spec => []SavedVerifies
<1>1. IInv => SavedVerifies
  BY DEF IInv, FormInv, SignatureMatchesSelection, ByStoredKey, SavedVerifies,
     Store!Signature, Store!verifyDataWithCertificate
<1> QED
  BY <1>1, Invariance, PTL

(* No guard of btnSign fails while it is enabled. *)
THEOREM EnabledIsReady == Spec => []SignReadyWhenEnabled
<1>1. IInv => SignReadyWhenEnabled
  BY DEF IInv, ReadyInv, SignReadyWhenEnabled, SignReady
<1> QED
  BY <1>1, Invariance, PTL

(* A file is left empty only with the signature still in memory, or by a   *)
(* re-creation.                                                            *)
THEOREM EmptyIsExplained == Spec => EmptyFileExplained
<1>1. IInv /\ [Next]_vars =>
        [created' = "empty" /\ created # "empty" =>
            recreated \/ lastSignature' # Nothing]_vars
  <2> SUFFICES ASSUME IInv, Next, created' = "empty", created # "empty"
               PROVE  recreated \/ lastSignature' # Nothing
    OBVIOUS
  <2>1. SaveNothing \/ SaveFails
    BY DEF Next, Open, Close, Recreate, TypePassword, CancelPassword,
       DismissDialog, AcceptOffer, FingerprintOpens, FingerprintEnrols,
       FingerprintError, ChooseCert, SelectCert, ChooseFile, SelectFile,
       PickCancelled, Sign, SaveSucceeds, SaveCloseFails, DocumentChanges,
       Crash, Flush, ChangeSettings, output
  <2>2. CASE SaveNothing
    BY <2>2 DEF SaveNothing, IInv, ReadyInv
  <2>3. CASE SaveFails
    BY <2>3 DEF SaveFails, formVars
  <2> QED
    BY <2>1, <2>2, <2>3
<1> QED
  BY <1>1, Invariance, PTL DEF Spec, EmptyFileExplained

-----------------------------------------------------------------------------
(* What is enrolled, and what is signed with.                              *)

(* An encrypt prompt is open, or offered, only while nothing is stored,    *)
(* and never both; under a prompt whose screen was destroyed there is no   *)
(* session; a prompt needs the key; and the preferences on the disk are    *)
(* those of the process, or none yet.                                      *)
EnrolInv ==
    /\ \A p \in prompt :
        /\ p.mode = "encrypt" => stored = NoPassword
        /\ ~ p.ours => keystorePassword = NoArray
    /\ dialog = "offer" => stored = NoPassword /\ prompt = {}
    /\ prompt # {} => aesKey = "valid"
    /\ onDisk = stored \/ onDisk = NoPassword

LEMMA EnrolInvariance == Spec => []EnrolInv
<1>1. Init => EnrolInv
  BY DEF Init, AuthInit, EnrolInv
<1>2. ASSUME IInv, EnrolInv, Next
      PROVE  EnrolInv'
  <2>1. CASE Open \/ Recreate
    <3>1. PICK kept \in {prompt, {}} : onCreate(kept)
      <4>1. Open => prompt = {}
        BY <1>2 DEF Open, IInv, SessionInv, PromptsServe
      <4> QED
        BY <2>1, <4>1 DEF Open, Recreate
    <3>2. keystorePassword' = NoArray /\ UNCHANGED <<stored, onDisk>>
      BY <1>2, <2>1 DEF Open, Recreate, onDestroy, IInv, SessionInv,
         DialogsServe
    <3>3. prompt' # {} => aesKey' = "valid"
      BY <3>1, <1>2 DEF onCreate, ensureKeyExists, EnrolInv
    <3>4. \A p \in prompt' : p.mode = "encrypt" => stored = NoPassword
      <4>1. ASSUME NEW p \in kept
            PROVE  [p EXCEPT !.ours = FALSE].mode = "encrypt"
                        => stored = NoPassword
        BY <1>2 DEF IInv, SessionInv, AuthTypeOK, Prompt, EnrolInv
      <4>2. \A p \in DecryptPrompt : p.mode # "encrypt"
        BY DEF DecryptPrompt
      <4> QED
        BY <3>1, <4>1, <4>2 DEF onCreate
    <3>5. dialog' # "offer"
      BY <3>1 DEF onCreate
    <3> QED
      BY <1>2, <3>2, <3>3, <3>4, <3>5 DEF EnrolInv
  <2>2. CASE Crash
    BY <2>2 DEF Crash, ProcessDies, EnrolInv
  <2>3. CASE AcceptOffer
    <3>1. prompt' = EncryptPrompt(keystorePassword) \/ prompt' = {}
      BY <2>3 DEF AcceptOffer
    <3>2. \A p \in EncryptPrompt(keystorePassword) : p.ours
      BY DEF EncryptPrompt
    <3>3. prompt' # {} => aesKey' = "valid"
      BY <2>3 DEF AcceptOffer, CanEnrol
    <3>4. /\ UNCHANGED <<stored, onDisk>> /\ dialog' = "none"
          /\ stored = NoPassword
      BY <1>2, <2>3 DEF AcceptOffer, EnrolInv
    <3> QED
      BY <1>2, <3>1, <3>2, <3>3, <3>4 DEF EnrolInv
  <2>4. ASSUME NEW pwd \in Passwords, TypePassword(pwd)
        PROVE  EnrolInv'
    <3>1. prompt' = {} /\ UNCHANGED <<stored, onDisk>>
      BY <2>4 DEF TypePassword, Foreground
    <3>2. dialog' = "offer" => stored = NoPassword
      BY <2>4 DEF TypePassword, offerEnableBiometricsIfPossible,
         hasStoredPassword
    <3> QED
      BY <1>2, <3>1, <3>2 DEF EnrolInv
  <2>5. CASE FingerprintEnrols
    <3>1. stored = NoPassword /\ prompt' = {} /\ UNCHANGED onDisk
      BY <1>2, <2>5 DEF FingerprintEnrols, EncryptSucceeds, EnrolInv
    <3>2. dialog' # "offer"
      BY <1>2, <2>5 DEF FingerprintEnrols, EncryptSucceeds, EnrolInv
    <3> QED
      BY <1>2, <3>1, <3>2 DEF EnrolInv
  <2>6. CASE FingerprintOpens \/ FingerprintError \/ Flush \/ ChangeSettings
    BY <1>2, <2>6 DEF FingerprintOpens, DecryptSucceeds, FingerprintError,
       PromptError, Flush, FlushPreferences, ChangeSettings, ChangeBiometrics,
       EnrolInv
  <2>7. CASE Close \/ CancelPassword
    BY <1>2, <2>7 DEF Close, CancelPassword, Idle, Foreground, EnrolInv
  <2>8. CASE \/ DismissDialog \/ ChooseCert \/ ChooseFile \/ PickCancelled
             \/ Sign \/ SaveNothing \/ SaveSucceeds \/ SaveCloseFails
             \/ SaveFails \/ DocumentChanges
             \/ \E a \in Aliases : SelectCert(a)
             \/ \E d \in Documents : SelectFile(d)
    <3>1. /\ UNCHANGED <<stored, onDisk, aesKey, prompt, keystorePassword>>
          /\ dialog' \in {dialog, "none", "certificates"}
      BY <2>8 DEF DismissDialog, ChooseCert, ChooseFile, PickCancelled, Sign,
         SaveNothing, SaveSucceeds, SaveCloseFails, SaveFails,
         DocumentChanges, SelectCert, SelectFile, authVars
    <3> QED
      BY <1>2, <3>1 DEF EnrolInv
  <2> QED
    BY <1>2, <2>1, <2>2, <2>3, <2>4, <2>5, <2>6, <2>7, <2>8 DEF Next
<1>3. ASSUME EnrolInv, UNCHANGED vars PROVE EnrolInv'
  BY <1>3 DEF EnrolInv, vars, authVars
<1> QED
  BY <1>1, <1>2, <1>3, Invariance, PTL DEF Spec

(* What an enrolment stores on this screen: the password of the session    *)
(* whose prompt it is, and zeros, always, when the screen of the prompt    *)
(* was destroyed under it; and nothing else changes what is stored but the *)
(* death of the process before the preferences reached the disk.           *)
EnrolsTheSession ==
    [][stored' # stored =>
        \/ /\ stored = NoPassword
           /\ \E p \in prompt :
                /\ p.mode = "encrypt"
                /\ stored' = IF p.ours THEN given ELSE Zeroed
        \/ stored' = NoPassword /\ onDisk = NoPassword /\ screen' = "closed"
      ]_vars

THEOREM EnrolmentsAreTheSession == Spec => EnrolsTheSession
<1> DEFINE Change ==
        \/ /\ stored = NoPassword
           /\ \E p \in prompt :
                /\ p.mode = "encrypt"
                /\ stored' = IF p.ours THEN given ELSE Zeroed
        \/ stored' = NoPassword /\ onDisk = NoPassword /\ screen' = "closed"
<1>1. ASSUME IInv, EnrolInv, FingerprintEnrols
      PROVE  Change
  <2>1. PICK p \in prompt : p.mode = "encrypt" /\ stored' = heap[p.array]
    BY <1>1 DEF FingerprintEnrols, EncryptSucceeds
  <2>2. /\ p \in Prompt /\ p.array # NoArray /\ stored = NoPassword
        /\ p.ours => p.array = keystorePassword
        /\ ~ p.ours => keystorePassword = NoArray
    BY <1>1, <2>1 DEF IInv, SessionInv, AuthTypeOK, PromptsServe, EnrolInv
  <2>3. p.array \in Arrays
    BY <2>2 DEF Prompt
  <2>4. p.ours => heap[p.array] = given
    BY <1>1, <2>2 DEF IInv, SessionInv, PasswordOfSession
  <2>5. ~ p.ours => heap[p.array] = Zeroed
    BY <1>1, <2>2, <2>3
       DEF IInv, SessionInv, AuthTypeOK, PasswordOfSession, Contents
  <2> QED
    BY <2>1, <2>2, <2>4, <2>5
<1>2. ASSUME EnrolInv, Crash, stored' # stored
      PROVE  Change
  BY <1>2 DEF Crash, ProcessDies, EnrolInv
<1>3. ASSUME [Next]_vars, stored' # stored, ~ FingerprintEnrols, ~ Crash
      PROVE  FALSE
  BY <1>3 DEF Next, vars, authVars, Open, Close, Recreate, TypePassword,
     CancelPassword, DismissDialog, AcceptOffer, FingerprintOpens,
     DecryptSucceeds, FingerprintError, PromptError, ChooseCert, SelectCert,
     ChooseFile, SelectFile, PickCancelled, Sign, SaveNothing, SaveSucceeds,
     SaveCloseFails, SaveFails, DocumentChanges, Flush, FlushPreferences,
     ChangeSettings, ChangeBiometrics
<1>4. IInv /\ EnrolInv /\ [Next]_vars => [stored' # stored => Change]_vars
  BY <1>1, <1>2, <1>3
<1> QED
  BY <1>4, Invariance, EnrolInvariance, PTL DEF Spec, EnrolsTheSession

(* The first password to reach the disk stays there for good on this       *)
(* screen too: a password that opens nothing is never forgotten.           *)
THEOREM EnrolledForGood ==
    ASSUME NEW c \in Contents
    PROVE  Spec => [](onDisk = c => [](onDisk = c))
<1>1. ASSUME [Next]_vars
      PROVE  onDisk' = onDisk \/ (onDisk # stored /\ onDisk' = stored)
  BY <1>1 DEF Next, vars, authVars, Open, Close, Recreate, TypePassword,
     CancelPassword, DismissDialog, AcceptOffer, FingerprintOpens,
     DecryptSucceeds, FingerprintEnrols, EncryptSucceeds, FingerprintError,
     PromptError, ChooseCert, SelectCert, ChooseFile, SelectFile,
     PickCancelled, Sign, SaveNothing, SaveSucceeds, SaveCloseFails,
     SaveFails, DocumentChanges, Crash, ProcessDies, Flush,
     FlushPreferences, ChangeSettings, ChangeBiometrics
<1>2. ASSUME EnrolInv, [Next]_vars, onDisk = c
      PROVE  (onDisk = c)'
  <2>1. c # NoPassword
    BY AuthAssumption
  <2> QED
    BY <1>1, <1>2, <2>1 DEF EnrolInv
<1> QED
  BY <1>2, EnrolInvariance, PTL DEF Spec

(* What a file of the store holds (Pkcs12Store!EntriesVetted): a           *)
(* certificate that may sign documents, current when it was imported, and  *)
(* a key of its algorithm.                                                 *)
Imported(e) ==
    /\ Store!SigningCert(e.cert)
    /\ Store!isCurrentlyValid(e.cert, e.at)
    /\ AlgOf[e.key] = AlgOf[e.cert.key]

(* The checks of the import reach every signature this screen saves: when  *)
(* the store holds imported credentials only, each is by a key of the      *)
(* algorithm of a certificate that may sign and was current when it was    *)
(* imported; no alias of an absent, torn or otherwise protected store, and *)
(* none left from an earlier session, is ever signed with.                 *)
THEOREM SavedByImported ==
    ASSUME \A f \in Files, a \in Aliases :
                f.entries[a] # NoEntry => Imported(f.entries[a])
    PROVE  Spec => [](saved # Nothing =>
                        LET e == file.entries[saved.alias] IN
                        /\ Imported(e)
                        /\ AlgOf[saved.sig.signer] = AlgOf[e.cert.key])
<1>1. ASSUME IInv, saved # Nothing
      PROVE  LET e == file.entries[saved.alias] IN
             /\ Imported(e)
             /\ AlgOf[saved.sig.signer] = AlgOf[e.cert.key]
  <2>1. /\ ByStoredKey(saved)
        /\ saved.alias \in Aliases /\ file \in Files
    BY <1>1 DEF IInv, FormInv, SignatureMatchesSelection, SignatureRecord
  <2>2. Imported(file.entries[saved.alias])
    BY <2>1 DEF ByStoredKey
  <2>3. saved.sig.signer = file.entries[saved.alias].key
    BY <2>1 DEF ByStoredKey, Store!Signature
  <2> QED
    BY <2>2, <2>3 DEF Imported
<1> QED
  BY <1>1, Invariance, PTL
=============================================================================
