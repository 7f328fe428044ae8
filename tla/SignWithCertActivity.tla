------------------------ MODULE SignWithCertActivity ------------------------
(***************************************************************************)
(* The screen "Firmar con certificado": it opens the key store with the    *)
(* fingerprint or a typed password, lets the user select a certificate and *)
(* a document, signs, and saves the signature in a file the user creates.  *)
(* It is composed with KeystoreAuth (by EXTENDS) and reads the PKCS#12     *)
(* store (the instance Store); nothing writes the store while this screen  *)
(* is open.                                                                *)
(*                                                                         *)
(* The conventions on prompts, dialogs, pickers and re-creation are those  *)
(* of CertificatesActivity.                                                *)
(***************************************************************************)
EXTENDS KeystoreAuth, Integers

CONSTANTS
    Keys, AlgOf, PqcAlgs, SignatureAlgs, Certs, MaxTime, Aliases,
    NoEntry,
    Files,          \* the contents the store may have
    Documents,      \* the documents, by Uri
    Data,           \* what a document may contain
    Unreadable,     \* the content of a document that cannot be read
    Nothing         \* null

VARIABLES
    file,                   \* of Store
    content,                \* what each document contains
    screen,                 \* "closed" or "open"
    ksAuth,                 \* whether the screen has a manager
    keystorePassword,
    given,                  \* history: the password last typed or decrypted
    aliasList, selectedAlias, selectedFile,
    lastSignature,          \* lastSignatureBytes, with what they sign
    enabled,                \* whether btnSign is enabled
    dialog, picker,
    created,                \* the file of the last "save as"
    saved,                  \* the signature last written to such a file
    recreated               \* history: the screen was re-created behind the
                            \*   picker that is open

Store == INSTANCE Pkcs12Store
            WITH Passwords <- Contents, writing <- {}, now <- 0, acked <- {}

ASSUME FilesAssumption == Files \subseteq Store!File

(* A signature with what was signed, by which credential. *)
SignatureRecord ==
    [sig : {Store!Signature(k, x) : k \in Keys, x \in Data},
     alias : Aliases, document : Documents, data : Data]

ASSUME NothingAssumption ==
    Nothing \notin Aliases \cup Documents \cup SignatureRecord

selection == <<selectedAlias, selectedFile>>

formVars == <<aliasList, selection, lastSignature, enabled>>

world == <<file, content>>

output == <<created, saved>>

vars == <<authVars, world, screen, ksAuth, keystorePassword, given, formVars,
          dialog, picker, output, recreated>>

-----------------------------------------------------------------------------

Init ==
    /\ AuthInit
    /\ file \in Files
    /\ content \in [Documents -> Data]
    /\ screen = "closed"
    /\ ksAuth = FALSE
    /\ keystorePassword = NoArray
    /\ given = NoPassword
    /\ aliasList = {}
    /\ selectedAlias = Nothing
    /\ selectedFile = Nothing
    /\ lastSignature = Nothing
    /\ enabled = FALSE
    /\ dialog = "none"
    /\ picker = "none"
    /\ created = "none"
    /\ saved = Nothing
    /\ recreated = FALSE

Referenced ==
    {cached, keystorePassword} \cup {p.array : p \in prompt}

(* Some array for a new password: the first unused one. *)
NewArray == CHOOSE r \in Unused(Referenced) : TRUE

(* Nothing covers the dialog or the screen. *)
Foreground == screen = "open" /\ prompt = {} /\ picker = "none"

Idle == Foreground /\ dialog = "none"

(* Slip: one selection is enough. *)
updateSignButtonState_either ==
    enabled' = (selectedAlias' # Nothing \/ selectedFile' # Nothing)

updateSignButtonState ==
    enabled' = (selectedAlias' # Nothing /\ selectedFile' # Nothing)

(* loadCertificatesFromStore, after the password became array r. *)
OpenWith(r, pwd) ==
    /\ keystorePassword' = r
    /\ given' = pwd
    /\ aliasList' = Store!listCertificates(pwd)

(* Slip: only the cache of the manager is wiped. *)
Wiped_cacheOnly == {cached}

(* The arrays onDestroy fills. *)
Wiped == {cached, keystorePassword}

(* onDestroy and the end of the instance. *)
onDestroy ==
    /\ heap' = Wipe(heap, Wiped)
    /\ cached' = NoArray
    /\ keystorePassword' = NoArray
    /\ given' = NoPassword
    /\ aliasList' = {}
    /\ selectedAlias' = Nothing
    /\ selectedFile' = Nothing
    /\ lastSignature' = Nothing
    /\ enabled' = FALSE

(* offerEnableBiometricsIfPossible, with a password in the field. *)
offerEnableBiometricsIfPossible ==
    IF ksAuth /\ ~ hasStoredPassword THEN "offer" ELSE "none"

(* onCreate, with openKeystoreAndLoadCertificates. *)
onCreate(kept) ==
    /\ screen' = "open"
    /\ ksAuth' = ~ ensureKeyExistsThrows
    /\ ensureKeyExists
    /\ IF /\ ~ ensureKeyExistsThrows
          /\ hasStoredPassword /\ canUseBiometrics /\ aesKey' = "valid"
       THEN prompt' = DecryptPrompt /\ dialog' = "none"
       ELSE /\ prompt' = {[p EXCEPT !.ours = FALSE] : p \in kept}
            /\ dialog' = "password"

-----------------------------------------------------------------------------

(* Entering the screen. *)
Open ==
    /\ screen = "closed"
    /\ onCreate({})
    /\ UNCHANGED <<heap, stored, onDisk, biometrics, cached, world,
                   keystorePassword, given, formVars, picker, output,
                   recreated>>

(* Leaving it with the back button. *)
Close ==
    /\ Idle
    /\ onDestroy
    /\ screen' = "closed"
    /\ ksAuth' = FALSE
    /\ UNCHANGED <<stored, onDisk, aesKey, biometrics, prompt, world, dialog,
                   picker, output, recreated>>

(* A rotation, or the system reclaiming the screen behind a picker. *)
Recreate ==
    /\ screen = "open"
    /\ onDestroy
    /\ \E kept \in {prompt, {}} : onCreate(kept)
    /\ recreated' = (picker # "none")
    /\ UNCHANGED <<stored, onDisk, biometrics, world, picker, output>>

(* "Aceptar" in the password dialog; an empty text shows it again. *)
TypePassword(pwd) ==
    /\ Foreground /\ dialog = "password"
    /\ Unused(Referenced) # {}
    /\ heap' = [heap EXCEPT ![NewArray] = pwd]
    /\ OpenWith(NewArray, pwd)
    /\ dialog' = offerEnableBiometricsIfPossible
    /\ UNCHANGED <<stored, onDisk, aesKey, biometrics, cached, prompt, world,
                   screen, ksAuth, selection, lastSignature, enabled, picker,
                   output, recreated>>

(* "Cancelar" in the password dialog finishes the screen. *)
CancelPassword ==
    /\ Foreground /\ dialog = "password"
    /\ onDestroy
    /\ screen' = "closed"
    /\ ksAuth' = FALSE
    /\ dialog' = "none"
    /\ UNCHANGED <<stored, onDisk, aesKey, biometrics, prompt, world, picker,
                   output, recreated>>

(* "No" in the offer, or the list of certificates is dismissed. *)
DismissDialog ==
    /\ Foreground /\ dialog \in {"offer", "certificates"}
    /\ dialog' = "none"
    /\ UNCHANGED <<authVars, world, screen, ksAuth, keystorePassword, given,
                   formVars, picker, output, recreated>>

(* "Sí" in the offer. *)
AcceptOffer ==
    /\ Foreground /\ dialog = "offer"
    /\ dialog' = "none"
    /\ prompt' = IF CanEnrol THEN EncryptPrompt(keystorePassword) ELSE {}
    /\ UNCHANGED <<heap, stored, onDisk, aesKey, biometrics, cached, world,
                   screen, ksAuth, keystorePassword, given, formVars, picker,
                   output, recreated>>

FingerprintOpens ==
    /\ Unused(Referenced) # {}
    /\ DecryptSucceeds(NewArray)
    /\ OpenWith(NewArray, stored)
    /\ UNCHANGED <<world, screen, ksAuth, selection, lastSignature, enabled,
                   dialog, picker, output, recreated>>

FingerprintEnrols ==
    /\ EncryptSucceeds
    /\ UNCHANGED <<world, screen, ksAuth, keystorePassword, given, formVars,
                   dialog, picker, output, recreated>>

FingerprintError ==
    /\ PromptError
    /\ dialog' = IF \E p \in prompt : p.mode = "decrypt" THEN "password"
                 ELSE dialog
    /\ UNCHANGED <<world, screen, ksAuth, keystorePassword, given, formVars,
                   picker, output, recreated>>

-----------------------------------------------------------------------------

(* "Seleccionar certificado": with an empty list, only a message. *)
ChooseCert ==
    /\ Idle
    /\ aliasList # {}
    /\ dialog' = "certificates"
    /\ UNCHANGED <<authVars, world, screen, ksAuth, keystorePassword, given,
                   formVars, picker, output, recreated>>

SelectCert(a) ==
    /\ Foreground /\ dialog = "certificates"
    /\ a \in aliasList
    /\ dialog' = "none"
    /\ selectedAlias' = a
    /\ lastSignature' = Nothing
    /\ UNCHANGED selectedFile
    /\ updateSignButtonState
    /\ UNCHANGED <<authVars, world, screen, ksAuth, keystorePassword, given,
                   aliasList, picker, output, recreated>>

(* "Seleccionar documento". *)
ChooseFile ==
    /\ Idle
    /\ picker' = "file"
    /\ recreated' = FALSE
    /\ UNCHANGED <<authVars, world, screen, ksAuth, keystorePassword, given,
                   formVars, dialog, output>>

(* Slip: the signature of the document selected before is kept. *)
SelectFile_keepsSignature(d) ==
    /\ screen = "open" /\ picker = "file"
    /\ picker' = "none"
    /\ selectedFile' = d
    /\ UNCHANGED <<selectedAlias, lastSignature>>
    /\ updateSignButtonState
    /\ UNCHANGED <<authVars, world, screen, ksAuth, keystorePassword, given,
                   aliasList, dialog, output, recreated>>

SelectFile(d) ==
    /\ screen = "open" /\ picker = "file"
    /\ picker' = "none"
    /\ selectedFile' = d
    /\ lastSignature' = Nothing
    /\ UNCHANGED selectedAlias
    /\ updateSignButtonState
    /\ UNCHANGED <<authVars, world, screen, ksAuth, keystorePassword, given,
                   aliasList, dialog, output, recreated>>

(* Either picker is cancelled; a signature made is kept in memory. *)
PickCancelled ==
    /\ screen = "open" /\ picker # "none"
    /\ picker' = "none"
    /\ UNCHANGED <<authVars, world, screen, ksAuth, keystorePassword, given,
                   formVars, dialog, output, recreated>>

(* The three guards of btnSign. *)
SignReady ==
    selectedAlias # Nothing /\ selectedFile # Nothing
        /\ keystorePassword # NoArray

(* The document can be read, signDataWithAlias finds the key and the       *)
(* provider can sign with it: the import accepts a key of any algorithm.   *)
SignSucceeds ==
    /\ content[selectedFile] # Unreadable
    /\ selectedAlias \in Store!listCertificates(heap[keystorePassword])
    /\ Store!Usable(Store!getKeyAndCertificate(selectedAlias,
                        heap[keystorePassword]).key)

(* "Firmar": the signature replaces the last one, whose bytes are wiped,   *)
(* and the user is asked where to save it.  A failed guard or an exception *)
(* only shows a message.                                                   *)
Sign ==
    /\ Idle /\ enabled
    /\ SignReady /\ SignSucceeds
    /\ lastSignature' =
            [sig |-> Store!signDataWithAlias(selectedAlias,
                        heap[keystorePassword], content[selectedFile]),
             alias |-> selectedAlias, document |-> selectedFile,
             data |-> content[selectedFile]]
    /\ picker' = "save"
    /\ recreated' = FALSE
    /\ created' = "none"
    /\ UNCHANGED <<authVars, world, screen, ksAuth, keystorePassword, given,
                   aliasList, selection, enabled, dialog, saved>>

(* The file exists when the result arrives; there may be no signature any  *)
(* more to write to it.                                                    *)
SaveNothing ==
    /\ screen = "open" /\ picker = "save"
    /\ lastSignature = Nothing
    /\ picker' = "none"
    /\ created' = "empty"
    /\ UNCHANGED <<authVars, world, screen, ksAuth, keystorePassword, given,
                   formVars, dialog, saved, recreated>>

(* It is written: the signature is wiped and the selection cleared. *)
SaveSucceeds ==
    /\ screen = "open" /\ picker = "save"
    /\ lastSignature # Nothing
    /\ picker' = "none"
    /\ created' = "saved"
    /\ saved' = lastSignature
    /\ lastSignature' = Nothing
    /\ selectedAlias' = Nothing
    /\ selectedFile' = Nothing
    /\ updateSignButtonState
    /\ UNCHANGED <<authVars, world, screen, ksAuth, keystorePassword, given,
                   aliasList, dialog, recreated>>

(* The write and the flush went well, and closing the stream throws: the   *)
(* signature and the selection are gone already, and what the file holds   *)
(* is up to the application that owns it.                                  *)
SaveCloseFails ==
    /\ screen = "open" /\ picker = "save"
    /\ lastSignature # Nothing
    /\ picker' = "none"
    /\ created' = "partial"
    /\ lastSignature' = Nothing
    /\ selectedAlias' = Nothing
    /\ selectedFile' = Nothing
    /\ updateSignButtonState
    /\ UNCHANGED <<authVars, world, screen, ksAuth, keystorePassword, given,
                   aliasList, dialog, saved, recreated>>

(* Slip: the signature is wiped in a finally block. *)
SaveFails_wipes ==
    /\ screen = "open" /\ picker = "save"
    /\ lastSignature # Nothing
    /\ picker' = "none"
    /\ created' \in {"empty", "partial"}
    /\ lastSignature' = Nothing
    /\ UNCHANGED <<authVars, world, screen, ksAuth, keystorePassword, given,
                   aliasList, selection, enabled, dialog, saved, recreated>>

(* The destination cannot be opened, or the write throws: everything stays *)
(* for another attempt.                                                    *)
SaveFails ==
    /\ screen = "open" /\ picker = "save"
    /\ lastSignature # Nothing
    /\ picker' = "none"
    /\ created' \in {"empty", "partial"}
    /\ UNCHANGED <<authVars, world, screen, ksAuth, keystorePassword, given,
                   formVars, dialog, saved, recreated>>

-----------------------------------------------------------------------------

(* Other applications change, delete or restore a document. *)
DocumentChanges ==
    /\ \E d \in Documents, x \in Data \cup {Unreadable} :
            content' = [content EXCEPT ![d] = x]
    /\ UNCHANGED <<authVars, file, screen, ksAuth, keystorePassword, given,
                   formVars, dialog, picker, output, recreated>>

Crash ==
    /\ screen = "open"
    /\ ProcessDies
    /\ screen' = "closed"
    /\ ksAuth' = FALSE
    /\ keystorePassword' = NoArray
    /\ given' = NoPassword
    /\ aliasList' = {}
    /\ selectedAlias' = Nothing
    /\ selectedFile' = Nothing
    /\ lastSignature' = Nothing
    /\ enabled' = FALSE
    /\ dialog' = "none"
    /\ picker' = "none"
    /\ UNCHANGED <<world, output, recreated>>

Flush ==
    /\ FlushPreferences
    /\ UNCHANGED <<world, screen, ksAuth, keystorePassword, given, formVars,
                   dialog, picker, output, recreated>>

ChangeSettings ==
    /\ ChangeBiometrics
    /\ UNCHANGED <<world, screen, ksAuth, keystorePassword, given, formVars,
                   dialog, picker, output, recreated>>

Next ==
    \/ Open
    \/ Close
    \/ Recreate
    \/ \E pwd \in Passwords : TypePassword(pwd)
    \/ CancelPassword
    \/ DismissDialog
    \/ AcceptOffer
    \/ FingerprintOpens
    \/ FingerprintEnrols
    \/ FingerprintError
    \/ ChooseCert
    \/ \E a \in Aliases : SelectCert(a)
    \/ ChooseFile
    \/ \E d \in Documents : SelectFile(d)
    \/ PickCancelled
    \/ Sign
    \/ SaveNothing
    \/ SaveSucceeds
    \/ SaveCloseFails
    \/ SaveFails
    \/ DocumentChanges
    \/ Crash
    \/ Flush
    \/ ChangeSettings

Spec == Init /\ [][Next]_vars

-----------------------------------------------------------------------------
(* Type invariant. *)
TypeOK ==
    /\ AuthTypeOK
    /\ file \in Files
    /\ content \in [Documents -> Data \cup {Unreadable}]
    /\ screen \in {"closed", "open"}
    /\ ksAuth \in BOOLEAN
    /\ keystorePassword \in Arrays \cup {NoArray}
    /\ given \in Contents \cup {NoPassword}
    /\ aliasList \in SUBSET Aliases
    /\ selectedAlias \in Aliases \cup {Nothing}
    /\ selectedFile \in Documents \cup {Nothing}
    /\ lastSignature \in SignatureRecord \cup {Nothing}
    /\ enabled \in BOOLEAN
    /\ dialog \in {"none", "password", "offer", "certificates"}
    /\ picker \in {"none", "file", "save"}
    /\ created \in {"none", "empty", "partial", "saved"}
    /\ saved \in SignatureRecord \cup {Nothing}
    /\ recreated \in BOOLEAN

(* The array of the session is never wiped under it, by onDestroy of the   *)
(* instance a rotation replaced or through the cache that aliases it; and  *)
(* every way out of the screen (back, "Cancelar", re-creation, process     *)
(* death) leaves no array with a password in it.                           *)
PasswordOfSession ==
    /\ keystorePassword # NoArray => heap[keystorePassword] = given
    /\ cached # NoArray => cached = keystorePassword
    /\ \A r \in Arrays : heap[r] \in Passwords =>
            screen = "open" /\ r = keystorePassword

(* A signature is by the key stored under the alias it was made for, over  *)
(* what it is said to cover, and the provider can verify with such a key.  *)
ByStoredKey(r) ==
    /\ file.entries[r.alias] # NoEntry
    /\ Store!Usable(file.entries[r.alias].key)
    /\ r.sig = Store!Signature(file.entries[r.alias].key, r.data)

(* The signature in memory is by the key of the selected certificate on    *)
(* the selected document: each selection that changes either drops it      *)
(* first, so that a save never writes the signature of something else.     *)
(* What the last save wrote is a whole signature by a key of the store.    *)
SignatureMatchesSelection ==
    /\ lastSignature # Nothing =>
        /\ lastSignature.alias = selectedAlias
        /\ lastSignature.document = selectedFile
        /\ ByStoredKey(lastSignature)
    /\ saved # Nothing => ByStoredKey(saved)

(* Whether a saved signature passes the verification screen is decided by  *)
(* the import alone: it does with the certificate of its alias exactly     *)
(* when the key that was imported is the key of that certificate, which    *)
(* PrivateKeyEntry never compares.                                         *)
SavedVerifies ==
    saved # Nothing =>
        LET e == file.entries[saved.alias] IN
        Store!verifyDataWithCertificate(e.cert, saved.data, saved.sig)
            <=> e.key = e.cert.key

(* When the sign button is enabled, none of the guards of its handler can  *)
(* fail: a selected certificate came from a store that a password opened.  *)
SignReadyWhenEnabled == enabled => SignReady

(* A file that the user created and that stays without a signature has a   *)
(* reason the user can act on: the signature is still in memory for the    *)
(* next attempt.  The exception is a screen that was re-created while the  *)
(* user was choosing the file, which has lost it.                          *)
EmptyFileExplained ==
    [][created' = "empty" /\ created # "empty" =>
            recreated \/ lastSignature' # Nothing]_vars
=============================================================================
