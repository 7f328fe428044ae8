------------------------ MODULE CertificatesActivity ------------------------
(***************************************************************************)
(* The screen "Gestionar certificados": it opens the key store with the    *)
(* fingerprint or a typed password, offers to enrol the password, lists    *)
(* the certificates and imports one through three document pickers.  It is *)
(* composed with KeystoreAuth (by EXTENDS) and with the PKCS#12 store (the *)
(* instance Store).                                                        *)
(*                                                                         *)
(* Every action is one callback on the main thread.  Dialogs and the       *)
(* prompt are modal: only the topmost one (prompt, picker, dialog, screen, *)
(* in this order) takes the user's taps.  While a picker is open the       *)
(* screen may be destroyed and created again; its result then goes to the  *)
(* new instance.                                                           *)
(***************************************************************************)
EXTENDS KeystoreAuth, Integers

CONSTANTS Keys, AlgOf, PqcAlgs, SignatureAlgs, Certs, MaxTime, Aliases,
          NoEntry,
          Nothing   \* null, for an alias or a document

ASSUME TimeAssumption == MaxTime \in Nat

VARIABLES
    file, writing, now, acked,                          \* of Store
    screen,                 \* "closed" or "open"
    ksAuth,                 \* whether the screen has a manager
    keystorePassword, lastKeystorePassword,
    pendingAlias, pendingUserCert, pendingUserKey,
    dialog,                 \* the dialog on the screen
    picker,                 \* the document picker on top of it
    listed,                 \* the aliases shown, or Nothing: a message
    fresh,                  \* history: the parts chosen since the last
                            \*   "Continuar" in this instance
    given                   \* history: the password last typed or decrypted

Store == INSTANCE Pkcs12Store WITH Passwords <- Contents

ASSUME StoreAssumption ==
    Certs \subseteq Store!Certificate /\ NoEntry \notin Store!Entry

storeVars == <<file, writing, now, acked>>

formVars == <<pendingAlias, pendingUserCert, pendingUserKey, fresh>>

fieldVars == <<keystorePassword, lastKeystorePassword, given, listed>>

vars == <<authVars, storeVars, screen, ksAuth, fieldVars, formVars,
          dialog, picker>>

-----------------------------------------------------------------------------

Init ==
    /\ AuthInit
    /\ Store!Init
    /\ screen = "closed"
    /\ ksAuth = FALSE
    /\ keystorePassword = NoArray
    /\ lastKeystorePassword = NoArray
    /\ pendingAlias = Nothing
    /\ pendingUserCert = Nothing
    /\ pendingUserKey = Nothing
    /\ dialog = "none"
    /\ picker = "none"
    /\ listed = Nothing
    /\ fresh = {}
    /\ given = NoPassword

(* What the manager, the prompt and the screen refer to. *)
Referenced ==
    {cached, keystorePassword, lastKeystorePassword}
        \cup {p.array : p \in prompt}

(* Some array for a new password: the first unused one. *)
NewArray == CHOOSE r \in Unused(Referenced) : TRUE

(* The main thread is free and nothing covers the dialog or the screen. *)
Foreground ==
    screen = "open" /\ prompt = {} /\ picker = "none" /\ writing = {}

Idle == Foreground /\ dialog = "none"

(* refreshCertList, after the password fields became array r with content  *)
(* pwd in the same callback.                                               *)
OpenWith(r, pwd) ==
    /\ keystorePassword' = r
    /\ lastKeystorePassword' = r
    /\ given' = pwd
    /\ listed' = Store!listCertificates(pwd)

(* The arrays onDestroy fills: those of the manager and of both fields. *)
Wiped == {cached, keystorePassword, lastKeystorePassword}

(* onDestroy followed by the end of the instance: both fields and the cache *)
(* are wiped, whichever arrays they are, and the pending parts are lost.    *)
onDestroy ==
    /\ heap' = Wipe(heap, Wiped)
    /\ cached' = NoArray
    /\ keystorePassword' = NoArray
    /\ lastKeystorePassword' = NoArray
    /\ given' = NoPassword
    /\ listed' = Nothing
    /\ pendingAlias' = Nothing
    /\ pendingUserCert' = Nothing
    /\ pendingUserKey' = Nothing
    /\ fresh' = {}

(* Slip: the fingerprint is offered although it is already enrolled. *)
offerEnableBiometricsIfPossible_always == IF ksAuth THEN "offer" ELSE "none"

(* offerEnableBiometricsIfPossible, with a password in the fields: the     *)
(* dialog it leaves on the screen.                                         *)
offerEnableBiometricsIfPossible ==
    IF ksAuth /\ ~ hasStoredPassword THEN "offer" ELSE "none"

(* onCreate: a new manager, then requestKeystoreAccessThenRefreshList.  The *)
(* prompt may have been kept by androidx; asking for a decrypt prompt then  *)
(* gives it the callbacks of this instance.                                 *)
onCreate(kept) ==
    /\ screen' = "open"
    /\ ksAuth' = ~ ensureKeyExistsThrows
    /\ ensureKeyExists
    /\ IF /\ ~ ensureKeyExistsThrows
          /\ hasStoredPassword /\ canUseBiometrics /\ aesKey' = "valid"
       THEN prompt' = DecryptPrompt /\ dialog' = "none"
       ELSE /\ prompt' = {[p EXCEPT !.ours = FALSE] : p \in kept}
            /\ dialog' = "password"

-----------------------------------------------------------------------------

(* Entering the screen from the menu. *)
Open ==
    /\ screen = "closed"
    /\ onCreate({})
    /\ UNCHANGED <<heap, stored, onDisk, biometrics, cached, fieldVars,
                   formVars, picker, storeVars>>

(* Leaving it with the back button. *)
Close ==
    /\ Idle
    /\ onDestroy
    /\ screen' = "closed"
    /\ ksAuth' = FALSE
    /\ UNCHANGED <<stored, onDisk, aesKey, biometrics, prompt, dialog, picker,
                   storeVars>>

(* A rotation, or the system reclaiming the screen behind a picker. *)
Recreate ==
    /\ screen = "open" /\ writing = {}
    /\ onDestroy
    /\ \E kept \in {prompt, {}} : onCreate(kept)
    /\ UNCHANGED <<stored, onDisk, biometrics, picker, storeVars>>

(* "Aceptar" in the password dialog with a text; without one the dialog is *)
(* shown again.  onOk refreshes the list and offers the fingerprint.       *)
TypePassword(pwd) ==
    /\ Foreground /\ dialog = "password"
    /\ Unused(Referenced) # {}
    /\ heap' = [heap EXCEPT ![NewArray] = pwd]
    /\ OpenWith(NewArray, pwd)
    /\ dialog' = offerEnableBiometricsIfPossible
    /\ UNCHANGED <<stored, onDisk, aesKey, biometrics, cached, prompt, screen,
                   ksAuth, formVars, picker, storeVars>>

(* "Cancelar" in any dialog, "No" in the offer: the password dialog leaves *)
(* the screen without a password.                                          *)
CancelDialog ==
    /\ Foreground /\ dialog # "none"
    /\ dialog' = "none"
    /\ listed' = IF dialog = "password" THEN Nothing ELSE listed
    /\ UNCHANGED <<authVars, storeVars, screen, ksAuth,
                   keystorePassword, lastKeystorePassword, given, formVars,
                   picker>>

(* "Sí" in the offer. *)
AcceptOffer ==
    /\ Foreground /\ dialog = "offer"
    /\ dialog' = "none"
    /\ prompt' = IF CanEnrol THEN EncryptPrompt(keystorePassword) ELSE {}
    /\ UNCHANGED <<heap, stored, onDisk, aesKey, biometrics, cached, screen,
                   ksAuth, fieldVars, formVars, picker, storeVars>>

(* The decrypt prompt succeeds: onPassword. *)
FingerprintOpens ==
    /\ Unused(Referenced) # {} /\ writing = {}
    /\ DecryptSucceeds(NewArray)
    /\ OpenWith(NewArray, stored)
    /\ UNCHANGED <<screen, ksAuth, formVars, dialog, picker,
                   storeVars>>

(* The encrypt prompt succeeds: onStored shows a message. *)
FingerprintEnrols ==
    /\ writing = {}
    /\ EncryptSucceeds
    /\ UNCHANGED <<screen, ksAuth, fieldVars, formVars, dialog, picker,
                   storeVars>>

(* A prompt ends with an error: a decrypt prompt asks for the password, an *)
(* encrypt prompt shows a message.                                         *)
FingerprintError ==
    /\ writing = {}
    /\ PromptError
    /\ dialog' = IF \E p \in prompt : p.mode = "decrypt" THEN "password"
                 ELSE dialog
    /\ UNCHANGED <<screen, ksAuth, fieldVars, formVars, picker,
                   storeVars>>

-----------------------------------------------------------------------------

(* "Añadir": showAddCredentialDialog.  Without a password it asks for      *)
(* access again.                                                           *)
ShowAddCredential ==
    /\ Idle
    /\ IF keystorePassword # NoArray
       THEN dialog' = "alias" /\ UNCHANGED <<prompt, fieldVars>>
       ELSE IF ~ ksAuth \/ requestKeystorePassword = "error"
       THEN dialog' = "password" /\ UNCHANGED <<prompt, fieldVars>>
       ELSE IF requestKeystorePassword = "prompt"
       THEN prompt' = DecryptPrompt /\ UNCHANGED <<dialog, fieldVars>>
       ELSE OpenWith(cached, heap[cached]) /\ UNCHANGED <<dialog, prompt>>
    /\ UNCHANGED <<heap, stored, onDisk, aesKey, biometrics, cached, screen,
                   ksAuth, formVars, picker, storeVars>>

(* Slip: a certificate left pending by an earlier flow is used again. *)
ContinueWithAlias_resumes(a) ==
    /\ Foreground /\ dialog = "alias"
    /\ dialog' = "none"
    /\ pendingAlias' = a
    /\ fresh' = {"alias"}
    /\ picker' = IF pendingUserCert = Nothing THEN "cert" ELSE "key"
    /\ UNCHANGED <<authVars, storeVars, screen, ksAuth, fieldVars,
                   pendingUserCert, pendingUserKey>>

(* "Continuar" with an alias; with none, a message and the dialog closes. *)
ContinueWithAlias(a) ==
    /\ Foreground /\ dialog = "alias"
    /\ dialog' = "none"
    /\ pendingAlias' = a
    /\ fresh' = {"alias"}
    /\ picker' = "cert"
    /\ UNCHANGED <<authVars, storeVars, screen, ksAuth, fieldVars,
                   pendingUserCert, pendingUserKey>>

(* A picker is cancelled: its callback does nothing. *)
PickCancelled ==
    /\ screen = "open" /\ picker # "none"
    /\ picker' = "none"
    /\ UNCHANGED <<authVars, storeVars, screen, ksAuth, fieldVars,
                   formVars, dialog>>

(* The user certificate is chosen: next, the key. *)
PickUserCert(c) ==
    /\ screen = "open" /\ picker = "cert"
    /\ pendingUserCert' = c
    /\ fresh' = fresh \cup {"cert"}
    /\ picker' = "key"
    /\ UNCHANGED <<authVars, storeVars, screen, ksAuth, fieldVars,
                   pendingAlias, pendingUserKey, dialog>>

(* The private key is chosen: next, the certificate of the CA. *)
PickUserKey(k) ==
    /\ screen = "open" /\ picker = "key"
    /\ pendingUserKey' = k
    /\ fresh' = fresh \cup {"key"}
    /\ picker' = "ca"
    /\ UNCHANGED <<authVars, storeVars, screen, ksAuth, fieldVars,
                   pendingAlias, pendingUserCert, dialog>>

(* importCredentialWithCa finds every part and the password.  A null alias *)
(* passes these guards: setEntry throws on it, before anything is stored.  *)
ImportReady ==
    /\ pendingUserCert # Nothing
    /\ pendingUserKey # Nothing
    /\ keystorePassword # NoArray

ImportAccepted ==
    /\ ImportReady
    /\ pendingAlias # Nothing
    /\ Store!Importable(pendingUserCert, pendingUserKey)

(* The CA certificate is chosen: the import runs. *)
PickCaCertAccepted ==
    /\ screen = "open" /\ picker = "ca"
    /\ ImportAccepted
    /\ Store!ImportStart(heap[keystorePassword], pendingAlias,
                         pendingUserCert, pendingUserKey)
    /\ picker' = "none"
    /\ UNCHANGED <<authVars, screen, ksAuth, fieldVars, formVars, dialog>>

(* Or it is refused, with a message: the pending parts stay. *)
PickCaCertRefused ==
    /\ screen = "open" /\ picker = "ca"
    /\ ~ ImportAccepted
    /\ picker' = "none"
    /\ UNCHANGED <<authVars, storeVars, screen, ksAuth, fieldVars,
                   formVars, dialog>>

(* Slip: the list is not refreshed. *)
ImportReturns_noRefresh ==
    /\ screen = "open"
    /\ Store!StoreFinish
    /\ pendingAlias' = Nothing
    /\ pendingUserCert' = Nothing
    /\ pendingUserKey' = Nothing
    /\ UNCHANGED <<authVars, screen, ksAuth, fieldVars, fresh, dialog, picker>>

(* The import returns: the pending parts are cleared, the list refreshed. *)
ImportReturns ==
    /\ screen = "open"
    /\ Store!StoreFinish
    /\ pendingAlias' = Nothing
    /\ pendingUserCert' = Nothing
    /\ pendingUserKey' = Nothing
    /\ UNCHANGED <<authVars, screen, ksAuth, keystorePassword,
                   lastKeystorePassword, given, fresh, dialog, picker>>
    /\ listed' = Store!listCertificates(heap[lastKeystorePassword])'

(* The import throws while storing: a message, nothing is refreshed. *)
ImportThrows ==
    /\ screen = "open"
    /\ Store!StoreInterrupted
    /\ UNCHANGED <<authVars, screen, ksAuth, fieldVars, formVars, dialog,
                   picker>>

-----------------------------------------------------------------------------

(* The process dies, in a write or not; no callback runs. *)
Crash ==
    /\ screen = "open"
    /\ ProcessDies
    /\ writing' = {}
    /\ screen' = "closed"
    /\ ksAuth' = FALSE
    /\ keystorePassword' = NoArray /\ lastKeystorePassword' = NoArray
    /\ given' = NoPassword
    /\ listed' = Nothing
    /\ pendingAlias' = Nothing
    /\ pendingUserCert' = Nothing /\ pendingUserKey' = Nothing
    /\ fresh' = {}
    /\ dialog' = "none" /\ picker' = "none"
    /\ UNCHANGED <<file, now, acked>>

(* The preferences reach the disk. *)
Flush ==
    /\ FlushPreferences
    /\ UNCHANGED <<storeVars, screen, ksAuth, fieldVars, formVars,
                   dialog, picker>>

(* The settings are changed while the screen is closed or behind them. *)
ChangeSettings ==
    /\ writing = {}
    /\ ChangeBiometrics
    /\ UNCHANGED <<storeVars, screen, ksAuth, fieldVars, formVars,
                   dialog, picker>>

(* The clock advances. *)
Tick ==
    /\ Store!Tick
    /\ UNCHANGED <<authVars, screen, ksAuth, fieldVars, formVars, dialog,
                   picker>>

Next ==
    \/ Open
    \/ Close
    \/ Recreate
    \/ \E pwd \in Passwords : TypePassword(pwd)
    \/ CancelDialog
    \/ AcceptOffer
    \/ FingerprintOpens
    \/ FingerprintEnrols
    \/ FingerprintError
    \/ ShowAddCredential
    \/ \E a \in Aliases : ContinueWithAlias(a)
    \/ PickCancelled
    \/ \E c \in Certs : PickUserCert(c)
    \/ \E k \in Keys : PickUserKey(k)
    \/ PickCaCertAccepted
    \/ PickCaCertRefused
    \/ ImportReturns
    \/ ImportThrows
    \/ Crash
    \/ Flush
    \/ ChangeSettings
    \/ Tick

Spec == Init /\ [][Next]_vars

(* What the scheduling promises: the thread that writes the preferences    *)
(* runs while the process lives.  Nothing is promised of the user.         *)
FairSpec == Spec /\ WF_vars(Flush)

-----------------------------------------------------------------------------
(* Type invariant. *)
TypeOK ==
    /\ AuthTypeOK
    /\ Store!TypeOK
    /\ screen \in {"closed", "open"}
    /\ ksAuth \in BOOLEAN
    /\ keystorePassword \in Arrays \cup {NoArray}
    /\ lastKeystorePassword \in Arrays \cup {NoArray}
    /\ pendingAlias \in Aliases \cup {Nothing}
    /\ pendingUserCert \in Certs \cup {Nothing}
    /\ pendingUserKey \in Keys \cup {Nothing}
    /\ dialog \in {"none", "password", "offer", "alias"}
    /\ picker \in {"none", "cert", "key", "ca"}
    /\ listed \in (SUBSET Aliases) \cup {Nothing}
    /\ fresh \in SUBSET {"alias", "cert", "key"}
    /\ given \in Contents \cup {NoPassword}

(* The three references to the password of the session never diverge: the  *)
(* list is read, credentials are imported and later requests are answered  *)
(* with one password, whichever of the prompt, the dialog and the          *)
(* enrolment set it.                                                       *)
SessionAgrees ==
    /\ keystorePassword = lastKeystorePassword
    /\ cached # NoArray => cached = keystorePassword

(* onDestroy, of this instance or of one that a rotation replaced while    *)
(* its prompt was on the screen, wipes arrays that others alias: it never  *)
(* wipes the password of the session that is open, and it leaves no other  *)
(* array with a password in it, under whichever field it was known.        *)
PasswordOfSession ==
    /\ keystorePassword # NoArray => heap[keystorePassword] = given
    /\ \A r \in Arrays : heap[r] \in Passwords =>
            screen = "open" /\ r = keystorePassword

(* A prompt acts on the session it was opened for: a decrypt prompt when   *)
(* the screen has no password and one is stored, an encrypt prompt on the  *)
(* array of the session, unwiped, unless its screen was destroyed.         *)
PromptServesSession ==
    \A p \in prompt :
        IF p.mode = "decrypt"
        THEN hasStoredPassword /\ aesKey = "valid"
             /\ keystorePassword = NoArray
        ELSE ~ hasStoredPassword /\
             (p.ours => p.array = keystorePassword /\ heap[p.array] = given)

(* What is imported was chosen in one pass through the alias dialog and    *)
(* the pickers, in one instance of the screen: parts that a cancelled or   *)
(* refused flow left pending are never mixed with those of another, and a  *)
(* picker that outlives its screen never gets its document imported.       *)
ImportOfOneFlow ==
    \A w \in writing :
        /\ fresh = {"alias", "cert", "key"}
        /\ w.alias = pendingAlias
        /\ w.entry.cert = pendingUserCert
        /\ w.entry.key = pendingUserKey

(* The list on the screen is what the password of the session opens, also  *)
(* after imports, and each line of it is a certificate that could sign when *)
(* it was imported, under this very password, with a key of its algorithm; *)
(* the exception is an import that failed while storing, after which the   *)
(* old list stays although the file is torn.                               *)
ListedIsReadable ==
    listed # Nothing /\ writing = {} /\ file.state # "torn" =>
        /\ keystorePassword # NoArray
        /\ listed = Store!listCertificates(heap[keystorePassword])
        /\ \A a \in listed :
                Store!Vetted(file.entries[a], heap[keystorePassword])

(* "La contraseña se guardará cifrada y protegida por biometría": what is  *)
(* enrolled is a password the user typed.  It is not when the screen is    *)
(* destroyed under the prompt: onDestroy has wiped the array by the time   *)
(* the prompt stores it.                                                   *)
StoredWasTyped == hasStoredPassword => stored \in Passwords

(* The preferences hold one password and nothing takes an enrolment back:  *)
(* an enrolled password is on the disk for good from some time on, or the  *)
(* process died before the write and none is enrolled at all.  No other    *)
(* password ever replaces it, through all the sessions, prompts that       *)
(* outlive their screen and crashes of an application that offers to enrol *)
(* each password typed; a replacement could be lost as well, and the one   *)
(* before it would be back.  (FairSpec)                                    *)
EnrolmentIsForGood ==
    \A c \in Contents :
        stored = c ~> ([](onDisk = c) \/ stored = NoPassword)
=============================================================================
