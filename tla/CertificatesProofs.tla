------------------------- MODULE CertificatesProofs -------------------------
(***************************************************************************)
(* Proofs about CertificatesActivity, which composes the screen with       *)
(* KeystoreAuth and the store: for any arrays, passwords, credentials and  *)
(* bound on the clock.                                                     *)
(***************************************************************************)
EXTENDS CertificatesActivity, TLAPS

(* What PromptServesSession needs to be kept: a prompt comes with no other *)
(* dialog than the one its screen put there, an encrypt prompt always has  *)
(* an array, and the settings cannot change under a decrypt prompt.        *)
PromptsServe ==
    \A p \in prompt :
        /\ p.mode = "decrypt" =>
            /\ keystorePassword = NoArray /\ dialog = "none"
            /\ stored # NoPassword /\ biometrics /\ aesKey = "valid"
        /\ p.mode = "encrypt" =>
            /\ p.array # NoArray /\ stored = NoPassword
            /\ p.ours => p.array = keystorePassword
            /\ dialog # "offer"

(* A dialog asks for a password while there is none, and offers to store   *)
(* one while there is one and none is stored.                              *)
DialogsServe ==
    /\ dialog \in {"none", "password", "offer", "alias"}
    /\ dialog = "password" => keystorePassword = NoArray
    /\ dialog = "offer" => keystorePassword # NoArray /\ stored = NoPassword
    /\ screen = "closed" => keystorePassword = NoArray /\ prompt = {}

(* The session. *)
SessionInv ==
    /\ AuthTypeOK
    /\ screen \in {"closed", "open"}
    /\ ksAuth \in BOOLEAN
    /\ keystorePassword \in Arrays \cup {NoArray}
    /\ given \in Contents \cup {NoPassword}
    /\ SessionAgrees
    /\ PasswordOfSession
    /\ PromptsServe
    /\ DialogsServe

(* The import.  The parts chosen since "Continuar" are those the pickers   *)
(* have passed, unless the screen was re-created behind one of them: then  *)
(* there is no alias.                                                      *)
FlowServes ==
    /\ pendingAlias # Nothing =>
        /\ "alias" \in fresh
        /\ picker \in {"key", "ca"} => "cert" \in fresh
        /\ picker = "ca" => "key" \in fresh
    /\ writing # {} =>
        /\ picker = "none" /\ keystorePassword # NoArray /\ screen = "open"
        /\ file.state = "torn"

ImportInv ==
    /\ Store!TypeOK
    /\ pendingAlias \in Aliases \cup {Nothing}
    /\ pendingUserCert \in Certs \cup {Nothing}
    /\ pendingUserKey \in Keys \cup {Nothing}
    /\ picker \in {"none", "cert", "key", "ca"}
    /\ fresh \in SUBSET {"alias", "cert", "key"}
    /\ FlowServes
    /\ ImportOfOneFlow

(* The list, as far as the screen decides it. *)
ListedIsCurrent ==
    listed # Nothing /\ writing = {} /\ file.state # "torn" =>
        /\ keystorePassword # NoArray
        /\ listed = Store!listCertificates(heap[keystorePassword])

ListInv == listed \in (SUBSET Aliases) \cup {Nothing} /\ ListedIsCurrent

IInv == SessionInv /\ ImportInv /\ ListInv

-----------------------------------------------------------------------------
(* The session. *)

(* A callback that leaves the session alone; a dialog may close, or the    *)
(* one that asks for an alias open.                                        *)
LEMMA SessionKept ==
    ASSUME SessionInv,
           UNCHANGED <<authVars, screen, ksAuth, keystorePassword,
                       lastKeystorePassword, given>>,
           \/ dialog' = dialog
           \/ dialog' \in {"none", "alias"} /\ prompt = {}
    PROVE  SessionInv'
BY DEF SessionInv, AuthTypeOK, SessionAgrees, PasswordOfSession, PromptsServe,
       DialogsServe, authVars

(* Nothing is left of the session after onDestroy, which wipes every       *)
(* array that may hold a password: that of the session.                    *)
LEMMA Destroyed ==
    ASSUME SessionInv, onDestroy
    PROVE  /\ heap' = [r \in Arrays |-> Zeroed]
           /\ cached' = NoArray /\ keystorePassword' = NoArray
           /\ lastKeystorePassword' = NoArray /\ given' = NoPassword
<1>1. \A r \in Arrays : r \notin Wiped => heap[r] = Zeroed
  BY DEF SessionInv, AuthTypeOK, PasswordOfSession, Contents, Wiped
<1>2. heap' = [r \in Arrays |-> IF r \in Wiped THEN Zeroed ELSE heap[r]]
  BY DEF onDestroy, Wipe
<1>3. heap' = [r \in Arrays |-> Zeroed]
  BY <1>1, <1>2
<1> QED
  BY <1>3 DEF onDestroy

(* A state in which no array holds a password. *)
LEMMA SessionEmpty ==
    ASSUME heap' = [r \in Arrays |-> Zeroed], cached' = NoArray,
           keystorePassword' = NoArray, lastKeystorePassword' = NoArray,
           given' \in Contents \cup {NoPassword},
           stored' \in Contents \cup {NoPassword},
           onDisk' \in Contents \cup {NoPassword},
           aesKey' \in {"absent", "valid", "invalidated"},
           biometrics' \in BOOLEAN, ksAuth' \in BOOLEAN,
           screen' \in {"closed", "open"}, screen' = "closed" => prompt' = {},
           prompt' \in SUBSET Prompt, \A p, q \in prompt' : p = q,
           PromptsServe', dialog' \in {"none", "password", "alias"}
    PROVE  SessionInv'
<1>1. AuthTypeOK'
  BY DEF AuthTypeOK, Contents
<1>2. PasswordOfSession' /\ SessionAgrees'
  BY AuthAssumption DEF PasswordOfSession, SessionAgrees, Contents
<1>3. DialogsServe'
  BY DEF DialogsServe
<1> QED
  BY <1>1, <1>2, <1>3 DEF SessionInv

(* onCreate opens a decrypt prompt, or leaves an encrypt prompt of the     *)
(* instance before it.  It cannot find a decrypt prompt and leave it, as   *)
(* nothing that onCreate looks at changes under one.                       *)
LEMMA Created ==
    ASSUME SessionInv, NEW kept \in {prompt, {}}, onCreate(kept),
           UNCHANGED <<stored, onDisk, biometrics>>,
           heap' = [r \in Arrays |-> Zeroed], cached' = NoArray,
           keystorePassword' = NoArray, lastKeystorePassword' = NoArray,
           given' \in Contents \cup {NoPassword}
    PROVE  SessionInv'
<1>1. /\ screen' = "open" /\ ksAuth' \in BOOLEAN
      /\ aesKey' \in {"absent", "valid", "invalidated"}
      /\ aesKey = "valid" => aesKey' = "valid" /\ ~ ensureKeyExistsThrows
  BY DEF onCreate, ensureKeyExists, ensureKeyExistsThrows, SessionInv,
         AuthTypeOK
<1>2. /\ stored' \in Contents \cup {NoPassword}
      /\ onDisk' \in Contents \cup {NoPassword} /\ biometrics' \in BOOLEAN
  BY DEF SessionInv, AuthTypeOK
<1>3. CASE /\ ~ ensureKeyExistsThrows
           /\ hasStoredPassword /\ canUseBiometrics /\ aesKey' = "valid"
  <2>1. prompt' = DecryptPrompt /\ dialog' = "none"
    BY <1>3 DEF onCreate
  <2>2. prompt' \in SUBSET Prompt /\ \A p, q \in prompt' : p = q
    BY <2>1 DEF DecryptPrompt, Prompt
  <2>3. PromptsServe'
    BY <1>3, <2>1
       DEF PromptsServe, DecryptPrompt, hasStoredPassword, canUseBiometrics
  <2> QED
    BY <1>1, <1>2, <2>1, <2>2, <2>3, SessionEmpty
<1>4. CASE ~ (/\ ~ ensureKeyExistsThrows
              /\ hasStoredPassword /\ canUseBiometrics /\ aesKey' = "valid")
  <2>1. /\ prompt' = {[p EXCEPT !.ours = FALSE] : p \in kept}
        /\ dialog' = "password"
    BY <1>4 DEF onCreate
  <2>2. prompt \in SUBSET Prompt /\ \A p, q \in prompt : p = q
    BY DEF SessionInv, AuthTypeOK
  <2>3. ASSUME NEW p \in prompt
        PROVE  /\ p.array # NoArray /\ stored = NoPassword
               /\ [p EXCEPT !.ours = FALSE] \in Prompt
               /\ [p EXCEPT !.ours = FALSE].mode = "encrypt"
               /\ [p EXCEPT !.ours = FALSE].array = p.array
               /\ [p EXCEPT !.ours = FALSE].ours = FALSE
    <3>1. p \in Prompt
      BY <2>2
    <3>2. p.mode # "decrypt"
      BY <1>1, <1>4 DEF SessionInv, PromptsServe, hasStoredPassword,
                        canUseBiometrics
    <3>3. p.mode = "encrypt" /\ p.array # NoArray /\ stored = NoPassword
      BY <3>1, <3>2 DEF Prompt, SessionInv, PromptsServe
    <3> QED
      BY <3>1, <3>3 DEF Prompt
  <2>4. prompt' \in SUBSET Prompt /\ \A p, q \in prompt' : p = q
    BY <2>1, <2>2, <2>3
  <2>5. PromptsServe'
    BY <2>1, <2>3 DEF PromptsServe
  <2> QED
    BY <1>1, <1>2, <2>1, <2>4, <2>5, SessionEmpty
<1> QED
  BY <1>3, <1>4

LEMMA NewIsUnused ==
    ASSUME Unused(Referenced) # {} PROVE NewArray \in Unused(Referenced)
BY DEF NewArray

(* There was no password, and array r gets one: typed or decrypted. *)
LEMMA SessionOpens ==
    ASSUME SessionInv, NEW r \in Unused(Referenced), NEW pwd \in Contents,
           keystorePassword = NoArray, screen = "open",
           heap' = [heap EXCEPT ![r] = pwd], cached' \in {NoArray, r},
           OpenWith(r, pwd), prompt' = {},
           UNCHANGED <<stored, onDisk, aesKey, biometrics, screen, ksAuth>>,
           dialog' = "none" \/ (dialog' = "offer" /\ stored = NoPassword)
    PROVE  SessionInv'
<1>1. r \in Arrays /\ r # NoArray
  BY AuthAssumption DEF Unused
<1>2. keystorePassword' = r /\ lastKeystorePassword' = r /\ given' = pwd
  BY DEF OpenWith
<1>3. heap \in [Arrays -> Contents]
  BY DEF SessionInv, AuthTypeOK
<1>4. /\ heap' \in [Arrays -> Contents] /\ heap'[r] = pwd
      /\ \A q \in Arrays : q # r => heap'[q] = heap[q]
  BY <1>1, <1>3
<1>5. AuthTypeOK'
  BY <1>1, <1>4 DEF AuthTypeOK, SessionInv
<1>6. PasswordOfSession' /\ SessionAgrees'
  BY <1>1, <1>2, <1>4, AuthAssumption
     DEF PasswordOfSession, SessionAgrees, SessionInv
<1>7. PromptsServe' /\ DialogsServe'
  BY <1>1, <1>2 DEF PromptsServe, DialogsServe
<1> QED
  BY <1>1, <1>2, <1>5, <1>6, <1>7 DEF SessionInv

-----------------------------------------------------------------------------
(* The import and the list. *)

(* A callback that leaves the import alone; it ends no session during one. *)
LEMMA ImportKept ==
    ASSUME ImportInv, UNCHANGED <<storeVars, formVars, picker>>,
           writing = {} \/ UNCHANGED <<screen, keystorePassword>>
    PROVE  ImportInv'
<1>1. Store!TypeOK'
  BY DEF ImportInv, Store!TypeOK, storeVars
<1>2. FlowServes' /\ ImportOfOneFlow'
  BY DEF ImportInv, FlowServes, ImportOfOneFlow, storeVars, formVars
<1> QED
  BY <1>1, <1>2 DEF ImportInv, formVars

(* After onDestroy there is no flow, whatever picker is still open. *)
LEMMA ImportEmpty ==
    ASSUME ImportInv, UNCHANGED <<file, now, acked>>, writing' = {},
           pendingAlias' = Nothing, pendingUserCert' = Nothing,
           pendingUserKey' = Nothing, fresh' = {},
           picker' \in {"none", "cert", "key", "ca"}
    PROVE  ImportInv'
<1>1. Store!TypeOK'
  BY DEF ImportInv, Store!TypeOK
<1>2. FlowServes' /\ ImportOfOneFlow'
  BY DEF FlowServes, ImportOfOneFlow
<1> QED
  BY <1>1, <1>2 DEF ImportInv

LEMMA ListKept ==
    ASSUME ListInv, UNCHANGED <<heap, keystorePassword, listed, file, writing>>
    PROVE  ListInv'
BY DEF ListInv, ListedIsCurrent, Store!listCertificates,
       Store!loadOrCreateKeyStore

(* What OpenWith lists is what the new password opens. *)
LEMMA ListOpened ==
    ASSUME NEW r, NEW pwd, OpenWith(r, pwd), r # NoArray, heap'[r] = pwd,
           UNCHANGED file
    PROVE  ListInv'
<1>1. /\ keystorePassword' = r
      /\ listed' = {a \in Aliases : Store!Loaded(file, pwd)[a] # NoEntry}
  BY DEF OpenWith, Store!listCertificates, Store!loadOrCreateKeyStore
<1> QED
  BY <1>1 DEF ListInv, ListedIsCurrent, Store!listCertificates,
     Store!loadOrCreateKeyStore

LEMMA ListNone == ASSUME listed' = Nothing PROVE ListInv'
BY DEF ListInv, ListedIsCurrent

-----------------------------------------------------------------------------
(* The invariant. *)

LEMMA InitInv == Init => IInv
<1> SUFFICES ASSUME Init PROVE IInv
  OBVIOUS
<1>1. AuthTypeOK
  BY DEF Init, AuthInit, AuthTypeOK, Contents
<1>2. SessionInv
  BY <1>1, AuthAssumption DEF Init, AuthInit, SessionInv, SessionAgrees,
     PasswordOfSession, PromptsServe, DialogsServe, Contents
<1>3. Store!TypeOK
  BY TimeAssumption DEF Init, Store!Init, Store!TypeOK, Store!File,
     Store!KeyStore, Store!Empty, Store!Times
<1>4. ImportInv
  BY <1>3 DEF Init, Store!Init, ImportInv, FlowServes, ImportOfOneFlow
<1>5. ListInv
  BY DEF Init, ListInv, ListedIsCurrent
<1> QED
  BY <1>2, <1>4, <1>5 DEF IInv

(* Entering, leaving and re-creating the screen. *)
LEMMA ScreenKeeps ==
    ASSUME IInv, Open \/ Close \/ Recreate \/ Crash
    PROVE  IInv'
<1>1. CASE Open
  <2>1. keystorePassword = NoArray /\ prompt = {} /\ writing = {}
    BY <1>1 DEF Open, IInv, SessionInv, DialogsServe, ImportInv, FlowServes
  <2>2. /\ heap = [r \in Arrays |-> Zeroed] /\ cached = NoArray
        /\ lastKeystorePassword = NoArray
        /\ given \in Contents \cup {NoPassword}
    BY <1>1, <2>1 DEF Open, IInv, SessionInv, SessionAgrees,
       PasswordOfSession, AuthTypeOK, Contents
  <2>3. SessionInv'
    BY <1>1, <2>1, <2>2, Created DEF Open, IInv, fieldVars
  <2>4. ImportInv'
    BY <1>1, <2>1, ImportKept DEF Open, IInv
  <2>5. ListInv'
    BY <1>1, ListKept DEF Open, IInv, fieldVars, storeVars
  <2> QED
    BY <2>3, <2>4, <2>5 DEF IInv
<1>2. CASE Close
  <2>1. /\ onDestroy /\ prompt = {} /\ writing = {} /\ picker = "none"
        /\ screen' = "closed" /\ ksAuth' = FALSE /\ dialog' = "none"
        /\ UNCHANGED <<stored, onDisk, aesKey, biometrics, prompt, picker,
                       storeVars>>
    BY <1>2 DEF Close, Idle, Foreground
  <2>2. /\ heap' = [r \in Arrays |-> Zeroed] /\ cached' = NoArray
        /\ keystorePassword' = NoArray /\ lastKeystorePassword' = NoArray
        /\ given' = NoPassword
    BY <2>1, Destroyed DEF IInv
  <2>3. prompt' \in SUBSET Prompt /\ PromptsServe'
    BY <2>1 DEF PromptsServe
  <2>4. SessionInv'
    BY <2>1, <2>2, <2>3, SessionEmpty DEF IInv, SessionInv, AuthTypeOK
  <2>5. ImportInv'
    BY <2>1, ImportEmpty DEF onDestroy, storeVars, IInv, ImportInv
  <2>6. ListInv'
    BY <2>1, ListNone DEF onDestroy
  <2> QED
    BY <2>4, <2>5, <2>6 DEF IInv
<1>3. CASE Recreate
  <2>1. PICK kept \in {prompt, {}} : onCreate(kept)
    BY <1>3 DEF Recreate
  <2>2. /\ heap' = [r \in Arrays |-> Zeroed] /\ cached' = NoArray
        /\ keystorePassword' = NoArray /\ lastKeystorePassword' = NoArray
        /\ given' = NoPassword
    BY <1>3, Destroyed DEF Recreate, IInv
  <2>3. SessionInv'
    BY <1>3, <2>1, <2>2, Created DEF Recreate, IInv
  <2>4. ImportInv'
    BY <1>3, ImportEmpty DEF Recreate, onDestroy, storeVars, IInv, ImportInv
  <2>5. ListInv'
    BY <1>3, ListNone DEF Recreate, onDestroy
  <2> QED
    BY <2>3, <2>4, <2>5 DEF IInv
<1>4. CASE Crash
  <2>1. SessionInv'
    BY <1>4, SessionEmpty
       DEF Crash, ProcessDies, IInv, SessionInv, AuthTypeOK, PromptsServe
  <2>2. ImportInv'
    BY <1>4, ImportEmpty DEF Crash, IInv, ImportInv
  <2>3. ListInv'
    BY <1>4, ListNone DEF Crash
  <2> QED
    BY <2>1, <2>2, <2>3 DEF IInv
<1> QED
  BY <1>1, <1>2, <1>3, <1>4

(* A callback that gives the session its password. *)
LEMMA OpeningKeeps ==
    ASSUME IInv, NEW pwd \in Contents, Unused(Referenced) # {},
           keystorePassword = NoArray, screen = "open", writing = {},
           heap' = [heap EXCEPT ![NewArray] = pwd],
           cached' \in {NoArray, NewArray},
           OpenWith(NewArray, pwd), prompt' = {},
           UNCHANGED <<stored, onDisk, aesKey, biometrics, screen, ksAuth,
                       formVars, picker, storeVars>>,
           dialog' = "none" \/ (dialog' = "offer" /\ stored = NoPassword)
    PROVE  IInv'
<1>1. NewArray \in Unused(Referenced)
  BY NewIsUnused
<1>2. SessionInv'
  BY <1>1, SessionOpens DEF IInv
<1>3. ImportInv'
  BY ImportKept DEF IInv
<1>4. NewArray \in Arrays /\ NewArray # NoArray
  BY <1>1, AuthAssumption DEF Unused
<1>5. heap'[NewArray] = pwd
  BY <1>4 DEF IInv, SessionInv, AuthTypeOK
<1>6. ListInv'
  BY <1>4, <1>5, ListOpened DEF storeVars
<1> QED
  BY <1>2, <1>3, <1>6 DEF IInv

(* The array of the session goes into an encrypt prompt. *)
LEMMA EnrolmentKeeps ==
    ASSUME IInv, AcceptOffer
    PROVE  SessionInv'
<1>1. keystorePassword \in Arrays /\ stored = NoPassword /\ screen = "open"
  BY DEF AcceptOffer, Foreground, IInv, SessionInv, DialogsServe
<1>2. /\ prompt' \in SUBSET Prompt /\ \A p, q \in prompt' : p = q
      /\ \A p \in prompt' :
              p.mode = "encrypt" /\ p.array = keystorePassword
  <2> DEFINE new == [mode |-> "encrypt", array |-> keystorePassword,
                     ours |-> TRUE]
  <2>1. new \in Prompt
    BY <1>1 DEF Prompt
  <2>2. prompt' = {new} \/ prompt' = {}
    BY DEF AcceptOffer, EncryptPrompt
  <2>3. new.mode = "encrypt" /\ new.array = keystorePassword
    OBVIOUS
  <2> HIDE DEF new
  <2> QED
    BY <2>1, <2>2, <2>3
<1>3. /\ UNCHANGED <<heap, stored, onDisk, aesKey, biometrics, cached, screen,
                     ksAuth, keystorePassword, lastKeystorePassword, given>>
      /\ dialog' = "none"
  BY DEF AcceptOffer, fieldVars
<1>4. AuthTypeOK' /\ PasswordOfSession' /\ SessionAgrees'
  BY <1>2, <1>3 DEF AuthTypeOK, PasswordOfSession, SessionAgrees, IInv,
     SessionInv
<1>5. PromptsServe'
  BY <1>1, <1>2, <1>3, AuthAssumption DEF PromptsServe
<1>6. DialogsServe'
  BY <1>1, <1>3 DEF DialogsServe
<1> QED
  BY <1>3, <1>4, <1>5, <1>6 DEF IInv, SessionInv

(* The password is encrypted and stored: what the array holds by then. *)
LEMMA EnrolsKeeps ==
    ASSUME IInv, FingerprintEnrols
    PROVE  SessionInv'
<1>1. PICK p \in prompt :
          /\ p.mode = "encrypt"
          /\ stored' = heap[p.array]
          /\ cached' = IF p.ours THEN p.array ELSE cached
          /\ prompt' = {}
          /\ UNCHANGED <<heap, onDisk, aesKey, biometrics>>
  BY DEF FingerprintEnrols, EncryptSucceeds
<1>2. p \in Prompt
  BY DEF IInv, SessionInv, AuthTypeOK
<1>3. /\ p.array \in Arrays /\ dialog # "offer" /\ screen = "open"
      /\ p.ours => p.array = keystorePassword
  BY <1>1, <1>2 DEF Prompt, IInv, SessionInv, PromptsServe, DialogsServe
<1>4. stored' \in Contents /\ cached' \in Arrays \cup {NoArray}
  BY <1>1, <1>3 DEF IInv, SessionInv, AuthTypeOK
<1>5. UNCHANGED <<screen, ksAuth, keystorePassword, lastKeystorePassword,
                  given, dialog>>
  BY DEF FingerprintEnrols, fieldVars
<1>6. AuthTypeOK'
  BY <1>1, <1>4 DEF IInv, SessionInv, AuthTypeOK
<1>7. PasswordOfSession' /\ SessionAgrees'
  BY <1>1, <1>3, <1>5
     DEF IInv, SessionInv, PasswordOfSession, SessionAgrees
<1>8. PromptsServe' /\ DialogsServe'
  BY <1>1, <1>3, <1>5 DEF IInv, SessionInv, PromptsServe, DialogsServe
<1> QED
  BY <1>5, <1>6, <1>7, <1>8 DEF IInv, SessionInv

(* "Añadir".  There is no cached password to answer with when the session  *)
(* has none.                                                               *)
LEMMA AddKeeps ==
    ASSUME IInv, ShowAddCredential
    PROVE  SessionInv' /\ ListInv'
<1>1. /\ UNCHANGED <<heap, stored, onDisk, aesKey, biometrics, cached, screen,
                     ksAuth, storeVars>>
      /\ screen = "open" /\ prompt = {} /\ dialog = "none"
  BY DEF ShowAddCredential, Idle, Foreground
<1>2. CASE keystorePassword # NoArray
  <2>1. dialog' = "alias" /\ UNCHANGED <<prompt, fieldVars>>
    BY <1>2 DEF ShowAddCredential
  <2> QED
    BY <1>1, <2>1, SessionKept, ListKept DEF IInv, fieldVars, authVars,
       storeVars
<1>3. CASE keystorePassword = NoArray
  <2>1. cached = NoArray
    BY <1>3 DEF IInv, SessionInv, SessionAgrees
  <2>2. /\ requestKeystorePassword \in {"error", "prompt"}
        /\ requestKeystorePassword = "prompt" =>
            stored # NoPassword /\ biometrics /\ aesKey = "valid"
    BY <2>1 DEF requestKeystorePassword, hasCachedPassword, hasStoredPassword,
       canUseBiometrics
  <2>3. /\ UNCHANGED fieldVars
        /\ \/ dialog' = "password" /\ UNCHANGED prompt
           \/ /\ dialog' = "none" /\ prompt' = DecryptPrompt
              /\ stored # NoPassword /\ biometrics /\ aesKey = "valid"
    BY <1>1, <1>3, <2>2 DEF ShowAddCredential
  <2>4. prompt' \in SUBSET Prompt /\ \A p, q \in prompt' : p = q
    <3>1. DecryptPrompt \in SUBSET Prompt /\ \A p, q \in DecryptPrompt : p = q
      BY DEF DecryptPrompt, Prompt
    <3> QED
      BY <1>1, <2>3, <3>1
  <2>5. AuthTypeOK'
    BY <1>1, <2>4 DEF IInv, SessionInv, AuthTypeOK
  <2>6. PasswordOfSession' /\ SessionAgrees'
    BY <1>1, <2>3
       DEF IInv, SessionInv, PasswordOfSession, SessionAgrees, fieldVars
  <2>7. PromptsServe' /\ DialogsServe'
    BY <1>1, <1>3, <2>3 DEF PromptsServe, DialogsServe, DecryptPrompt,
       fieldVars
  <2>8. SessionInv'
    BY <1>1, <2>3, <2>5, <2>6, <2>7 DEF IInv, SessionInv, fieldVars
  <2> QED
    BY <1>1, <2>3, <2>8, ListKept DEF IInv, fieldVars, storeVars
<1> QED
  BY <1>2, <1>3

(* The dialogs and the prompts. *)
LEMMA PasswordKeeps ==
    ASSUME IInv,
           \/ \E pwd \in Passwords : TypePassword(pwd)
           \/ CancelDialog \/ AcceptOffer
           \/ FingerprintOpens \/ FingerprintEnrols \/ FingerprintError
           \/ ShowAddCredential \/ Flush \/ ChangeSettings
    PROVE  IInv'
<1>1. ASSUME NEW pwd \in Passwords, TypePassword(pwd)
      PROVE  IInv'
  <2>1. /\ keystorePassword = NoArray /\ screen = "open" /\ cached = NoArray
        /\ prompt = {} /\ writing = {}
    BY <1>1 DEF TypePassword, Foreground, IInv, SessionInv, DialogsServe,
       SessionAgrees
  <2>2. /\ pwd \in Contents
        /\ dialog' = "none" \/ (dialog' = "offer" /\ stored = NoPassword)
    BY <1>1 DEF TypePassword, offerEnableBiometricsIfPossible, Contents,
       hasStoredPassword
  <2> QED
    BY <1>1, <2>1, <2>2, OpeningKeeps DEF TypePassword
<1>2. CASE FingerprintOpens
  <2>1. /\ keystorePassword = NoArray /\ dialog = "none" /\ screen = "open"
        /\ stored \in Contents
    BY <1>2 DEF FingerprintOpens, DecryptSucceeds, IInv, SessionInv,
       PromptsServe, DialogsServe, AuthTypeOK
  <2> QED
    BY <1>2, <2>1, OpeningKeeps DEF FingerprintOpens, DecryptSucceeds
<1>3. CASE CancelDialog
  <2>1. SessionInv'
    BY <1>3, SessionKept DEF CancelDialog, Foreground, IInv
  <2>2. ImportInv'
    BY <1>3, ImportKept DEF CancelDialog, IInv
  <2>3. ListInv'
    BY <1>3, ListKept, ListNone DEF CancelDialog, IInv, authVars, storeVars
  <2> QED
    BY <2>1, <2>2, <2>3 DEF IInv
<1>4. CASE AcceptOffer
  <2>1. ImportInv' /\ ListInv'
    BY <1>4, ImportKept, ListKept DEF AcceptOffer, IInv, fieldVars, storeVars
  <2> QED
    BY <1>4, <2>1, EnrolmentKeeps DEF IInv
<1>5. CASE FingerprintEnrols
  <2>1. ImportInv' /\ ListInv'
    BY <1>5, ImportKept, ListKept
       DEF FingerprintEnrols, EncryptSucceeds, IInv, fieldVars, storeVars
  <2> QED
    BY <1>5, <2>1, EnrolsKeeps DEF IInv
<1>6. CASE FingerprintError
  <2>1. /\ prompt' = {} /\ prompt # {}
        /\ dialog' = IF \E p \in prompt : p.mode = "decrypt" THEN "password"
                     ELSE dialog
        /\ UNCHANGED <<heap, stored, onDisk, aesKey, biometrics, cached, screen,
                       ksAuth, keystorePassword, lastKeystorePassword, given>>
    BY <1>6 DEF FingerprintError, PromptError, fieldVars
  <2>2. AuthTypeOK'
    BY <2>1 DEF IInv, SessionInv, AuthTypeOK
  <2>3. PasswordOfSession' /\ SessionAgrees' /\ PromptsServe'
    BY <2>1
       DEF IInv, SessionInv, PasswordOfSession, SessionAgrees, PromptsServe
  <2>4. DialogsServe'
    BY <2>1 DEF IInv, SessionInv, DialogsServe, PromptsServe
  <2>5. ImportInv' /\ ListInv'
    BY <1>6, ImportKept, ListKept
       DEF FingerprintError, PromptError, IInv, fieldVars, storeVars
  <2> QED
    BY <2>1, <2>2, <2>3, <2>4, <2>5 DEF IInv, SessionInv
<1>7. CASE ShowAddCredential
  <2>1. ImportInv'
    <3>1. writing = {}
      BY <1>7 DEF ShowAddCredential, Idle, Foreground
    <3> QED
      BY <1>7, <3>1, ImportKept DEF ShowAddCredential, IInv
  <2> QED
    BY <1>7, <2>1, AddKeeps DEF IInv
<1>8. CASE Flush \/ ChangeSettings
  <2>1. /\ UNCHANGED <<heap, stored, cached, prompt, screen, ksAuth,
                       keystorePassword, lastKeystorePassword, given, dialog>>
        /\ onDisk' \in {onDisk, stored} /\ biometrics' \in BOOLEAN
        /\ aesKey' \in {aesKey, "invalidated"}
        /\ prompt = {} \/ UNCHANGED <<biometrics, aesKey>>
    BY <1>8 DEF Flush, ChangeSettings, FlushPreferences, ChangeBiometrics,
       IInv, SessionInv, AuthTypeOK, fieldVars
  <2>2. AuthTypeOK'
    BY <2>1 DEF IInv, SessionInv, AuthTypeOK
  <2>3. PasswordOfSession' /\ SessionAgrees' /\ PromptsServe' /\ DialogsServe'
    BY <2>1 DEF IInv, SessionInv, PasswordOfSession, SessionAgrees,
       PromptsServe, DialogsServe
  <2>4. ImportInv' /\ ListInv'
    BY <1>8, <2>1, ImportKept, ListKept
       DEF Flush, ChangeSettings, IInv, fieldVars, storeVars
  <2> QED
    BY <2>1, <2>2, <2>3, <2>4 DEF IInv, SessionInv
<1> QED
  BY <1>1, <1>2, <1>3, <1>4, <1>5, <1>6, <1>7, <1>8

(* The store starts to write what the caller chose, and the file is torn.  *)
LEMMA StoreStarts ==
    ASSUME Store!TypeOK, NEW p \in Contents, NEW a \in Aliases,
           NEW c \in Certs, NEW k \in Keys, Store!ImportStart(p, a, c, k)
    PROVE  /\ Store!TypeOK'
           /\ (file').state = "torn"
           /\ \A w \in writing' :
                w.alias = a /\ w.entry.cert = c /\ w.entry.key = k
<1> DEFINE e == [key |-> k, cert |-> c, at |-> now, under |-> p]
           ks == [Store!Loaded(file, p) EXCEPT ![a] = e]
           w  == [pwd |-> p, alias |-> a, entry |-> e, ks |-> ks,
                  before |-> file]
<1>1. /\ writing' = {w}
      /\ file' = [file EXCEPT !.state = "torn", !.entries = Store!Empty]
      /\ acked' = {} /\ now' = now
  BY DEF Store!ImportStart, Store!PrivateKeyEntry, Store!setEntry,
     Store!loadOrCreateKeyStore
<1>2. file \in Store!File /\ now \in Store!Times /\ e \in Store!Entry
  BY DEF Store!TypeOK, Store!Entry
<1>3. Store!Loaded(file, p) \in Store!KeyStore
  BY <1>2 DEF Store!Loaded, Store!File, Store!KeyStore, Store!Empty
<1>4. e.cert = c /\ e.key = k
  OBVIOUS
<1> HIDE DEF e
<1>5. ks \in Store!KeyStore
  BY <1>2, <1>3 DEF Store!KeyStore
<1> HIDE DEF ks
<1>6. w \in Store!Write
  BY <1>2, <1>5 DEF Store!Write
<1>7. w.alias = a /\ w.entry = e
  OBVIOUS
<1> HIDE DEF w
<1>8. file' \in Store!File /\ (file').state = "torn"
  BY <1>1, <1>2 DEF Store!File, Store!KeyStore, Store!Empty
<1> QED
  BY <1>1, <1>2, <1>4, <1>6, <1>7, <1>8 DEF Store!TypeOK

(* The flow of an import. *)
LEMMA FlowKeeps ==
    ASSUME IInv,
           \/ \E a \in Aliases : ContinueWithAlias(a)
           \/ PickCancelled
           \/ \E c \in Certs : PickUserCert(c)
           \/ \E k \in Keys : PickUserKey(k)
           \/ PickCaCertAccepted \/ PickCaCertRefused
           \/ ImportReturns \/ ImportThrows \/ Tick
    PROVE  IInv'
<1>1. SessionInv'
  <2>1. /\ UNCHANGED <<authVars, screen, ksAuth, keystorePassword,
                       lastKeystorePassword, given>>
        /\ dialog' = dialog \/ (dialog' \in {"none", "alias"} /\ prompt = {})
    BY DEF ContinueWithAlias, PickCancelled, PickUserCert, PickUserKey,
       PickCaCertAccepted, PickCaCertRefused, ImportReturns, ImportThrows,
       Tick, Foreground, fieldVars
  <2> QED
    BY <2>1, SessionKept DEF IInv
<1>2. ASSUME \/ \E a \in Aliases : ContinueWithAlias(a)
             \/ PickCancelled \/ PickCaCertRefused
             \/ \E c \in Certs : PickUserCert(c)
             \/ \E k \in Keys : PickUserKey(k)
      PROVE  IInv'
  <2>1. UNCHANGED <<authVars, storeVars, screen, fieldVars>> /\ writing = {}
    BY <1>2 DEF ContinueWithAlias, PickCancelled, PickCaCertRefused,
       PickUserCert, PickUserKey, Foreground, IInv, ImportInv, FlowServes
  <2>2. Store!TypeOK' /\ ImportOfOneFlow'
    BY <2>1 DEF IInv, ImportInv, Store!TypeOK, ImportOfOneFlow, storeVars
  <2>3. /\ pendingAlias' \in Aliases \cup {Nothing}
        /\ pendingUserCert' \in Certs \cup {Nothing}
        /\ pendingUserKey' \in Keys \cup {Nothing}
        /\ picker' \in {"none", "cert", "key", "ca"}
        /\ fresh' \in SUBSET {"alias", "cert", "key"}
    BY <1>2 DEF ContinueWithAlias, PickCancelled, PickCaCertRefused,
       PickUserCert, PickUserKey, IInv, ImportInv, formVars
  <2>4. FlowServes'
    BY <1>2, <2>1 DEF ContinueWithAlias, PickCancelled, PickCaCertRefused,
       PickUserCert, PickUserKey, IInv, ImportInv, FlowServes, formVars,
       storeVars
  <2>5. ListInv'
    BY <2>1, ListKept DEF IInv, authVars, fieldVars, storeVars
  <2> QED
    BY <1>1, <2>2, <2>3, <2>4, <2>5 DEF IInv, ImportInv
<1>3. CASE PickCaCertAccepted
  <2> DEFINE p == heap[keystorePassword]
  <2>1. /\ pendingAlias \in Aliases /\ pendingUserCert \in Certs
        /\ pendingUserKey \in Keys /\ keystorePassword \in Arrays
        /\ keystorePassword # NoArray /\ pendingAlias # Nothing
        /\ picker = "ca" /\ screen = "open" /\ picker' = "none"
        /\ UNCHANGED <<authVars, screen, fieldVars, formVars>>
    BY <1>3 DEF PickCaCertAccepted, ImportAccepted, ImportReady, IInv,
       ImportInv, SessionInv
  <2>2. p \in Contents
    BY <2>1 DEF IInv, SessionInv, AuthTypeOK
  <2>3. Store!ImportStart(p, pendingAlias, pendingUserCert, pendingUserKey)
    BY <1>3 DEF PickCaCertAccepted
  <2>4. /\ Store!TypeOK' /\ (file').state = "torn"
        /\ \A w \in writing' :
            /\ w.alias = pendingAlias /\ w.entry.cert = pendingUserCert
            /\ w.entry.key = pendingUserKey
    BY <2>1, <2>2, <2>3, StoreStarts DEF IInv, ImportInv
  <2>5. fresh = {"alias", "cert", "key"}
    BY <2>1 DEF IInv, ImportInv, FlowServes
  <2>6. FlowServes' /\ ImportOfOneFlow'
    BY <2>1, <2>4, <2>5 DEF FlowServes, ImportOfOneFlow, formVars, fieldVars
  <2>7. ImportInv'
    BY <2>1, <2>4, <2>6 DEF IInv, ImportInv, formVars
  <2>8. ListInv'
    BY <2>1, <2>4 DEF IInv, ListInv, ListedIsCurrent, fieldVars
  <2> QED
    BY <1>1, <2>7, <2>8 DEF IInv
<1>4. CASE ImportReturns
  <2>1. PICK w \in writing :
            /\ file' = [state |-> "ok", pwd |-> w.pwd, entries |-> w.ks]
            /\ acked' = {[pwd |-> w.pwd, alias |-> w.alias,
                          entry |-> w.entry]}
            /\ writing' = {} /\ now' = now
    BY <1>4 DEF ImportReturns, Store!StoreFinish, Store!Stored
  <2>2. w \in Store!Write /\ now \in Store!Times
    BY DEF IInv, ImportInv, Store!TypeOK
  <2>3. Store!TypeOK'
    BY <2>1, <2>2
       DEF Store!TypeOK, Store!Write, Store!File, Store!Credential
  <2>4. /\ pendingAlias' = Nothing /\ pendingUserCert' = Nothing
        /\ pendingUserKey' = Nothing
        /\ UNCHANGED <<authVars, screen, keystorePassword,
                       lastKeystorePassword, fresh, picker>>
    BY <1>4 DEF ImportReturns
  <2>5. ImportInv'
    BY <2>1, <2>3, <2>4
       DEF IInv, ImportInv, FlowServes, ImportOfOneFlow
  <2>6. /\ keystorePassword # NoArray
        /\ lastKeystorePassword = keystorePassword
    BY DEF IInv, ImportInv, FlowServes, SessionInv, SessionAgrees
  <2>7. listed' = {a \in Aliases :
            Store!Loaded(file', heap'[lastKeystorePassword'])[a] # NoEntry}
    BY <1>4 DEF ImportReturns, Store!listCertificates,
       Store!loadOrCreateKeyStore
  <2>8. ListInv'
    BY <2>4, <2>6, <2>7 DEF ListInv, ListedIsCurrent,
       Store!listCertificates, Store!loadOrCreateKeyStore
  <2> QED
    BY <1>1, <2>5, <2>8 DEF IInv
<1>5. CASE ImportThrows
  <2>1. /\ writing # {} /\ writing' = {}
        /\ UNCHANGED <<file, now, acked, authVars, screen, fieldVars, formVars,
                       picker>>
    BY <1>5 DEF ImportThrows, Store!StoreInterrupted
  <2>2. (file').state = "torn"
    BY <2>1 DEF IInv, ImportInv, FlowServes
  <2>3. Store!TypeOK'
    BY <2>1 DEF IInv, ImportInv, Store!TypeOK
  <2>4. ImportInv'
    BY <2>1, <2>3
       DEF IInv, ImportInv, FlowServes, ImportOfOneFlow, formVars
  <2>5. ListInv'
    BY <2>1, <2>2 DEF IInv, ListInv, ListedIsCurrent, fieldVars
  <2> QED
    BY <1>1, <2>4, <2>5 DEF IInv
<1>6. CASE Tick
  <2>1. /\ now < MaxTime /\ now' = now + 1
        /\ UNCHANGED <<file, writing, acked, authVars, screen, fieldVars,
                       formVars, picker>>
    BY <1>6 DEF Tick, Store!Tick
  <2>2. now' \in Store!Times
    <3>1. now \in Store!Times /\ now < MaxTime /\ now' = now + 1
      BY <2>1 DEF IInv, ImportInv, Store!TypeOK
    <3> QED
      BY <3>1, TimeAssumption DEF Store!Times
  <2>3. Store!TypeOK'
    BY <2>1, <2>2 DEF IInv, ImportInv, Store!TypeOK
  <2>4. ImportInv'
    BY <2>1, <2>3 DEF IInv, ImportInv, FlowServes, ImportOfOneFlow, formVars,
       fieldVars
  <2>5. ListInv'
    BY <2>1, ListKept DEF IInv, authVars, fieldVars
  <2> QED
    BY <1>1, <2>4, <2>5 DEF IInv
<1> QED
  BY <1>2, <1>3, <1>4, <1>5, <1>6

LEMMA NextInv == IInv /\ [Next]_vars => IInv'
<1> SUFFICES ASSUME IInv, [Next]_vars PROVE IInv'
  OBVIOUS
<1>1. CASE Next
  BY <1>1, ScreenKeeps, PasswordKeeps, FlowKeeps DEF Next
<1>2. CASE UNCHANGED vars
  <2>1. SessionInv'
    BY <1>2, SessionKept DEF vars, IInv, fieldVars
  <2>2. ImportInv'
    BY <1>2, ImportKept DEF vars, IInv, fieldVars
  <2>3. ListInv'
    BY <1>2, ListKept DEF vars, IInv, authVars, fieldVars, storeVars
  <2> QED
    BY <2>1, <2>2, <2>3 DEF IInv
<1> QED
  BY <1>1, <1>2

LEMMA Invariance == Spec => []IInv
BY InitInv, NextInv, PTL DEF Spec

-----------------------------------------------------------------------------

(* Type correctness. *)
THEOREM TypeCorrect == Spec => []TypeOK
<1>1. IInv => TypeOK
  BY DEF IInv, SessionInv, SessionAgrees, DialogsServe, ImportInv, ListInv,
     TypeOK
<1> QED
  BY <1>1, Invariance, PTL

(* The references to the password of the session never diverge. *)
THEOREM OnePassword == Spec => []SessionAgrees
<1>1. IInv => SessionAgrees
  BY DEF IInv, SessionInv
<1> QED
  BY <1>1, Invariance, PTL

(* The password in use is never wiped, and none is left when the screen is *)
(* gone, whatever arrays there are and whichever prompt outlives it.       *)
THEOREM PasswordSafe == Spec => []PasswordOfSession
<1>1. IInv => PasswordOfSession
  BY DEF IInv, SessionInv
<1> QED
  BY <1>1, Invariance, PTL

(* A prompt acts on the session it was opened for. *)
THEOREM PromptsServeTheirs == Spec => []PromptServesSession
<1>1. ASSUME IInv, NEW p \in prompt
      PROVE  IF p.mode = "decrypt"
             THEN hasStoredPassword /\ aesKey = "valid"
                  /\ keystorePassword = NoArray
             ELSE ~ hasStoredPassword /\
                  (p.ours => /\ p.array = keystorePassword
                             /\ heap[p.array] = given)
  <2>1. p \in Prompt
    BY <1>1 DEF IInv, SessionInv, AuthTypeOK
  <2>2. CASE p.mode = "decrypt"
    BY <1>1, <2>2 DEF IInv, SessionInv, PromptsServe, hasStoredPassword
  <2>3. CASE p.mode = "encrypt"
    BY <1>1, <2>3 DEF IInv, SessionInv, PromptsServe, PasswordOfSession,
       hasStoredPassword
  <2> QED
    BY <2>1, <2>2, <2>3 DEF Prompt
<1>2. IInv => PromptServesSession
  BY <1>1 DEF PromptServesSession
<1> QED
  BY <1>2, Invariance, PTL

(* What is imported was chosen in one pass through the pickers. *)
THEOREM ImportsAreWhole == Spec => []ImportOfOneFlow
<1>1. IInv => ImportOfOneFlow
  BY DEF IInv, ImportInv
<1> QED
  BY <1>1, Invariance, PTL

-----------------------------------------------------------------------------
(* The store behind the screen. *)

(* A step of the screen is a step of the store, or the store stays.        *)
LEMMA StoreSteps == IInv /\ [Next]_vars => [Store!Next]_storeVars
<1> SUFFICES ASSUME IInv, Next PROVE Store!Next \/ UNCHANGED storeVars
  BY DEF vars
<1>1. CASE PickCaCertAccepted
  <2>1. /\ pendingAlias \in Aliases /\ pendingUserCert \in Certs
        /\ pendingUserKey \in Keys /\ keystorePassword \in Arrays
    BY <1>1 DEF PickCaCertAccepted, ImportAccepted, ImportReady, IInv,
       ImportInv, SessionInv
  <2>2. heap[keystorePassword] \in Contents
    BY <2>1 DEF IInv, SessionInv, AuthTypeOK
  <2>3. Store!ImportStart(heap[keystorePassword], pendingAlias,
                          pendingUserCert, pendingUserKey)
    BY <1>1 DEF PickCaCertAccepted
  <2> QED
    BY <2>1, <2>2, <2>3 DEF Store!Next
<1>2. CASE ImportReturns \/ ImportThrows \/ Tick
  BY <1>2 DEF ImportReturns, ImportThrows, Tick, Store!Next
<1>3. CASE Crash
  BY <1>3 DEF Crash, Store!Next, Store!StoreInterrupted, storeVars
<1>4. CASE ~ (PickCaCertAccepted \/ ImportReturns \/ ImportThrows \/ Tick
              \/ Crash)
  BY <1>4 DEF Next, Open, Close, Recreate, TypePassword, CancelDialog,
     AcceptOffer, FingerprintOpens, FingerprintEnrols, FingerprintError,
     ShowAddCredential, ContinueWithAlias, PickCancelled, PickUserCert,
     PickUserKey, PickCaCertRefused, Flush, ChangeSettings
<1> QED
  BY <1>1, <1>2, <1>3, <1>4

(* The screen uses the store by its operations only, so that what was      *)
(* proved of Pkcs12Store holds of the store behind this screen: a death of *)
(* the process during a write is an interrupted write.                     *)
THEOREM StoreRunsUnchanged == Spec => Store!Spec
<1>1. Init => Store!Init
  BY DEF Init
<1> QED
  BY <1>1, StoreSteps, Invariance, PTL DEF Spec, Store!Spec, storeVars,
     Store!storeVars

(* What the store keeps, whoever calls it.  The theorems about Pkcs12Store *)
(* are proved again here for the contents of the arrays as its passwords:  *)
(* the prover does not instantiate theorems.                               *)
StoreInv ==
    /\ Store!EntriesVetted
    /\ Store!WriteAddsOneEntry
    /\ Store!AckedIsReadable

(* A certificate that passes the import checks is vetted from then on.     *)
LEMMA ImportableIsVetted ==
    ASSUME NEW c \in Certs, NEW k, NEW p, now \in Store!Times,
           Store!Importable(c, k)
    PROVE  Store!Vetted([key |-> k, cert |-> c, at |-> now, under |-> p], p)
<1>1. c.keyUsage.present \in BOOLEAN
  BY StoreAssumption DEF Store!Certificate
<1>2. /\ Store!isOverallAcceptableForSigning(Store!validateCertificate(c, now))
      /\ AlgOf[k] = AlgOf[c.key]
  BY DEF Store!Importable, Store!PrivateKeyEntryFits
<1>3. Store!SigningCert(c) /\ Store!isCurrentlyValid(c, now)
  BY <1>1, <1>2
     DEF Store!isOverallAcceptableForSigning, Store!validateCertificate,
         Store!isEndEntity, Store!SigningCert, Store!isCurrentlyValid
<1>4. now <= now
  BY TimeAssumption DEF Store!Times
<1> QED
  BY <1>2, <1>3, <1>4 DEF Store!Vetted

LEMMA StoreStartInv ==
    ASSUME Store!TypeOK, StoreInv, NEW p \in Contents, NEW a \in Aliases,
           NEW c \in Certs, NEW k \in Keys, Store!ImportStart(p, a, c, k)
    PROVE  StoreInv'
<1> DEFINE e  == [key |-> k, cert |-> c, at |-> now, under |-> p]
           l  == Store!Loaded(file, p)
           ks == [l EXCEPT ![a] = e]
           w  == [pwd |-> p, alias |-> a, entry |-> e, ks |-> ks,
                  before |-> file]
<1>1. /\ writing' = {w}
      /\ file' = [file EXCEPT !.state = "torn", !.entries = Store!Empty]
      /\ acked' = {} /\ now' = now
      /\ Store!Importable(c, k)
  BY DEF Store!ImportStart, Store!PrivateKeyEntry, Store!setEntry,
     Store!loadOrCreateKeyStore
<1>2. file \in Store!File /\ now \in Store!Times
  BY DEF Store!TypeOK
<1>3. l \in Store!KeyStore
  BY <1>2 DEF Store!Loaded, Store!File, Store!KeyStore, Store!Empty
<1>4. Store!Vetted(e, p)
  BY <1>1, <1>2, ImportableIsVetted
<1>5. /\ w.ks = ks /\ w.pwd = p /\ w.alias = a /\ w.entry = e
      /\ w.before = file
  OBVIOUS
<1> HIDE DEF e, w
<1>6. ASSUME NEW x \in Aliases, l[x] # NoEntry
      PROVE  Store!Vetted(l[x], p)
  <2>1. file.pwd = p /\ l[x] = file.entries[x]
    BY <1>6 DEF Store!Loaded, Store!Empty
  <2> QED
    BY <1>6, <2>1 DEF StoreInv, Store!EntriesVetted
<1>7. ASSUME NEW x \in Aliases, ks[x] # NoEntry
      PROVE  Store!Vetted(ks[x], p)
  <2>1. CASE x = a
    BY <1>3, <1>4, <2>1 DEF Store!KeyStore
  <2>2. CASE x # a
    BY <1>3, <1>6, <1>7, <2>2 DEF Store!KeyStore
  <2> QED
    BY <2>1, <2>2
<1>8. ASSUME NEW x \in Aliases PROVE (file').entries[x] = NoEntry
  BY <1>1, <1>2 DEF Store!File, Store!Empty
<1>9. Store!WriteAddsOneEntry'
  <2>1. (file').state = "torn"
    BY <1>1, <1>2 DEF Store!File
  <2> QED
    BY <1>1, <1>5, <2>1 DEF Store!WriteAddsOneEntry, Store!Loaded
<1>10. Store!EntriesVetted'
  <2> HIDE DEF ks
  <2> QED
    BY <1>1, <1>5, <1>7, <1>8 DEF Store!EntriesVetted, Store!Vetted
<1>11. Store!AckedIsReadable'
  BY <1>1 DEF Store!AckedIsReadable
<1> QED
  BY <1>9, <1>10, <1>11 DEF StoreInv

LEMMA StoreFinishInv ==
    ASSUME Store!TypeOK, StoreInv, Store!StoreFinish
    PROVE  StoreInv'
<1>1. PICK w \in writing :
        /\ file' = [state |-> "ok", pwd |-> w.pwd, entries |-> w.ks]
        /\ acked' = {[pwd |-> w.pwd, alias |-> w.alias, entry |-> w.entry]}
        /\ writing' = {}
        /\ now' = now
  BY DEF Store!StoreFinish, Store!Stored
<1>2. w \in Store!Write
  BY DEF Store!TypeOK
<1>3. Store!EntriesVetted'
  BY <1>1 DEF StoreInv, Store!EntriesVetted, Store!Vetted
<1>4. Store!WriteAddsOneEntry'
  BY <1>1 DEF Store!WriteAddsOneEntry
<1>5. Store!AckedIsReadable'
  <2>1. w.ks = [Store!Loaded(w.before, w.pwd) EXCEPT ![w.alias] = w.entry]
    BY DEF StoreInv, Store!WriteAddsOneEntry
  <2>2. w.alias \in Aliases /\ w.ks \in Store!KeyStore
    BY <1>2 DEF Store!Write
  <2>3. Store!Loaded(w.before, w.pwd) \in Store!KeyStore
    BY <1>2 DEF Store!Write, Store!Loaded, Store!File, Store!KeyStore,
       Store!Empty
  <2>4. w.ks[w.alias] = w.entry
    BY <2>1, <2>2, <2>3 DEF Store!KeyStore
  <2> QED
    BY <1>1, <2>4 DEF Store!AckedIsReadable, Store!getKeyAndCertificate,
       Store!loadOrCreateKeyStore, Store!Loaded
<1> QED
  BY <1>3, <1>4, <1>5 DEF StoreInv

(* The clock, an interrupted write and a step of the screen alone: what    *)
(* was current when it was imported stays so.                              *)
LEMMA StoreQuietInv ==
    ASSUME Store!TypeOK, StoreInv,
           Store!StoreInterrupted \/ Store!Tick \/ UNCHANGED storeVars
    PROVE  StoreInv'
<1>1. /\ UNCHANGED <<file, acked>> /\ writing' \subseteq writing
      /\ now' = now \/ now' = now + 1
  BY DEF Store!StoreInterrupted, Store!Tick, storeVars
<1>2. ASSUME NEW e, NEW p, e.at \in Store!Times, Store!Vetted(e, p)
      PROVE  Store!Vetted(e, p)'
  BY <1>1, <1>2, TimeAssumption DEF Store!Vetted, Store!Times, Store!TypeOK
<1>3. ASSUME NEW a \in Aliases, file.entries[a] # NoEntry
      PROVE  Store!Vetted(file.entries[a], file.pwd)'
  <2>1. file.entries[a].at \in Store!Times
    BY <1>3 DEF Store!TypeOK, Store!File, Store!KeyStore, Store!Entry
  <2>2. Store!Vetted(file.entries[a], file.pwd)
    BY <1>3 DEF StoreInv, Store!EntriesVetted
  <2> QED
    BY <1>1, <1>2, <2>1, <2>2 DEF Store!Vetted
<1>4. ASSUME NEW w \in writing, NEW a \in Aliases, w.ks[a] # NoEntry
      PROVE  Store!Vetted(w.ks[a], w.pwd)'
  <2>1. w.ks[a].at \in Store!Times
    BY <1>4 DEF Store!TypeOK, Store!Write, Store!KeyStore, Store!Entry
  <2>2. Store!Vetted(w.ks[a], w.pwd)
    BY <1>4 DEF StoreInv, Store!EntriesVetted
  <2> QED
    BY <1>1, <1>2, <2>1, <2>2 DEF Store!Vetted
<1>5. Store!EntriesVetted'
  BY <1>1, <1>3, <1>4 DEF Store!EntriesVetted
<1>6. Store!WriteAddsOneEntry' /\ Store!AckedIsReadable'
  BY <1>1 DEF StoreInv, Store!WriteAddsOneEntry, Store!AckedIsReadable,
     Store!getKeyAndCertificate, Store!loadOrCreateKeyStore
<1> QED
  BY <1>5, <1>6 DEF StoreInv

LEMMA StoreInvariance == Spec => []StoreInv
<1>1. Init => StoreInv
  BY DEF Init, Store!Init, StoreInv, Store!EntriesVetted, Store!Empty,
     Store!WriteAddsOneEntry, Store!AckedIsReadable
<1>2. ASSUME IInv, StoreInv, [Next]_vars
      PROVE  StoreInv'
  <2>1. Store!TypeOK /\ [Store!Next]_storeVars
    BY <1>2, StoreSteps DEF IInv, ImportInv
  <2>2. ASSUME NEW p \in Contents, NEW a \in Aliases, NEW c \in Certs,
               NEW k \in Keys, Store!ImportStart(p, a, c, k)
        PROVE  StoreInv'
    BY <1>2, <2>1, <2>2, StoreStartInv
  <2>3. CASE Store!StoreFinish
    BY <1>2, <2>1, <2>3, StoreFinishInv
  <2>4. CASE Store!StoreInterrupted \/ Store!Tick \/ UNCHANGED storeVars
    BY <1>2, <2>1, <2>4, StoreQuietInv
  <2> QED
    BY <2>1, <2>2, <2>3, <2>4 DEF Store!Next
<1> QED
  BY <1>1, <1>2, Invariance, PTL DEF Spec

(* Behind this screen, too, the file holds vetted entries only, whichever  *)
(* array the password of an import came from.                              *)
THEOREM OnlyVetted == Spec => []Store!EntriesVetted
<1>1. StoreInv => Store!EntriesVetted
  BY DEF StoreInv
<1> QED
  BY <1>1, StoreInvariance, PTL

(* And an import that was acknowledged stays readable until the next one.  *)
THEOREM AckedStays == Spec => []Store!AckedIsReadable
<1>1. StoreInv => Store!AckedIsReadable
  BY DEF StoreInv
<1> QED
  BY <1>1, StoreInvariance, PTL

(* The list on the screen is what the password of the session opens, and   *)
(* every line of it may sign.                                              *)
THEOREM ListIsCurrent == Spec => []ListedIsReadable
<1>1. ASSUME IInv, StoreInv, listed # Nothing, writing = {},
             file.state # "torn", NEW a \in listed
      PROVE  Store!Vetted(file.entries[a], heap[keystorePassword])
  <2>1. /\ a \in Aliases
        /\ Store!Loaded(file, heap[keystorePassword])[a] # NoEntry
    BY <1>1 DEF IInv, ListInv, ListedIsCurrent, Store!listCertificates,
       Store!loadOrCreateKeyStore
  <2>2. file.pwd = heap[keystorePassword] /\ file.entries[a] # NoEntry
    BY <2>1 DEF Store!Loaded, Store!Empty
  <2> QED
    BY <1>1, <2>1, <2>2 DEF StoreInv, Store!EntriesVetted
<1>2. IInv /\ StoreInv => ListedIsReadable
  BY <1>1 DEF IInv, ListInv, ListedIsCurrent, ListedIsReadable
<1> QED
  BY <1>2, Invariance, StoreInvariance, PTL

-----------------------------------------------------------------------------
(* What the callers of the store see behind this screen: Opens, and the    *)
(* vault.  As above, what was proved of Pkcs12Store is proved again.       *)

(* Starting an import is invisible.                                        *)
LEMMA StoreStartOpens ==
    ASSUME Store!TypeOK', NEW p, NEW a, NEW c, NEW k,
           Store!ImportStart(p, a, c, k)
    PROVE  Store!Opens' = Store!Opens
<1>1. writing = {}
  BY DEF Store!ImportStart
<1>2. PICK w \in writing' : w.before = file
  BY DEF Store!ImportStart
<1>3. (CHOOSE v \in writing' : TRUE) = w
  BY <1>2 DEF Store!TypeOK
<1>4. writing' # {}
  BY <1>2
<1>5. Store!Opens' = [q \in Contents |-> Store!Loaded(file, q)]
  BY <1>2, <1>3, <1>4 DEF Store!Opens, Store!Loaded
<1> QED
  BY <1>1, <1>5 DEF Store!Opens

(* Finishing one is a Put, which drops nothing its password opened.        *)
LEMMA StoreFinishOpens ==
    ASSUME Store!TypeOK, StoreInv, Store!StoreFinish
    PROVE  \E w \in writing :
              /\ w \in Store!Write
              /\ Store!Vault!Put(w.pwd, w.alias, w.entry)
              /\ \A a \in Aliases :
                    Store!Opens[w.pwd][a] # NoEntry =>
                        Store!Opens'[w.pwd][a] # NoEntry
<1>1. PICK w \in writing :
        /\ file' = [state |-> "ok", pwd |-> w.pwd, entries |-> w.ks]
        /\ writing' = {}
  BY DEF Store!StoreFinish, Store!Stored
<1>2. w \in Store!Write
  BY DEF Store!TypeOK
<1>3. (CHOOSE v \in writing : TRUE) = w
  BY DEF Store!TypeOK
<1>4. Store!Opens = [p \in Contents |-> Store!Loaded(w.before, p)]
  BY <1>3 DEF Store!Opens
<1>5. Store!Opens' =
        [q \in Contents |-> IF q = w.pwd THEN w.ks ELSE Store!Empty]
  BY <1>1 DEF Store!Opens, Store!Loaded
<1>6. w.ks = [Store!Opens[w.pwd] EXCEPT ![w.alias] = w.entry]
  BY <1>2, <1>4 DEF StoreInv, Store!WriteAddsOneEntry, Store!Write
<1>7. Store!Vault!Put(w.pwd, w.alias, w.entry)
  BY <1>5, <1>6 DEF Store!Vault!Put, Store!Vault!Empty, Store!Empty
<1>8. Store!Opens[w.pwd] \in Store!KeyStore
  BY <1>2, <1>4 DEF Store!Write, Store!Loaded, Store!File, Store!KeyStore,
     Store!Empty
<1>9. w.entry # NoEntry
  BY <1>2, StoreAssumption DEF Store!Write
<1>10. ASSUME NEW a \in Aliases, Store!Opens[w.pwd][a] # NoEntry
       PROVE  Store!Opens'[w.pwd][a] # NoEntry
  <2>1. Store!Opens'[w.pwd] = w.ks
    BY <1>2, <1>5 DEF Store!Write
  <2> QED
    BY <1>6, <1>8, <1>9, <1>10, <2>1 DEF Store!KeyStore
<1> QED
  BY <1>2, <1>7, <1>10

(* An interrupted one, the death of the process included, forgets all.     *)
LEMMA StoreInterruptedOpens ==
    ASSUME StoreInv, Store!StoreInterrupted
    PROVE  Store!Vault!Forget /\ file'.state = "torn" /\ writing # {}
<1>1. /\ file.state = "torn" /\ writing' = {} /\ file' = file
      /\ writing # {}
  BY DEF Store!StoreInterrupted, StoreInv, Store!WriteAddsOneEntry
<1> QED
  BY <1>1 DEF Store!Opens, Store!Loaded, Store!Vault!Forget,
     Store!Vault!Empty, Store!Empty

LEMMA StoreQuietOpens ==
    ASSUME UNCHANGED <<file, writing>> PROVE Store!Opens' = Store!Opens
BY DEF Store!Opens, Store!Loaded

(* Every callback of the screen is a step of the vault or invisible to it. *)
LEMMA StepIsOfVault ==
    ASSUME IInv, IInv', StoreInv, [Next]_vars
    PROVE  [Store!Vault!Next]_(Store!Opens)
<1>1. Store!TypeOK /\ Store!TypeOK' /\ [Store!Next]_storeVars
  BY StoreSteps DEF IInv, ImportInv
<1>2. ASSUME NEW p \in Contents, NEW a \in Aliases, NEW c \in Certs,
             NEW k \in Keys, Store!ImportStart(p, a, c, k)
      PROVE  Store!Opens' = Store!Opens
  BY <1>1, <1>2, StoreStartOpens
<1>3. CASE Store!StoreFinish
  <2>1. PICK w \in writing : w \in Store!Write /\
                             Store!Vault!Put(w.pwd, w.alias, w.entry)
    BY <1>1, <1>3, StoreFinishOpens
  <2> QED
    BY <2>1 DEF Store!Vault!Next, Store!Write
<1>4. CASE Store!StoreInterrupted
  BY <1>4, StoreInterruptedOpens DEF Store!Vault!Next
<1>5. CASE Store!Tick \/ UNCHANGED storeVars
  BY <1>5, StoreQuietOpens DEF Store!Tick, storeVars
<1> QED
  BY <1>1, <1>2, <1>3, <1>4, <1>5 DEF Store!Next

(* The screen keeps the promise of the vault to its user: whatever prompts, *)
(* pickers, rotations and crashes there are, what a password opens changes *)
(* by whole imports and by being forgotten as a whole.                     *)
THEOREM ScreenIsAVault == Spec => Store!VaultSpec
<1>1. Init => Store!Vault!Init
  BY DEF Init, Store!Init, Store!Vault!Init, Store!Vault!Empty, Store!Empty,
     Store!Opens, Store!Loaded
<1>2. IInv /\ IInv' /\ StoreInv /\ [Next]_vars =>
        [Store!Vault!Next]_(Store!Opens)
  BY StepIsOfVault
<1> QED
  BY <1>1, <1>2, Invariance, StoreInvariance, PTL
     DEF Spec, Store!VaultSpec, Store!Vault!Spec

(* A credential that some password opened is lost only to an import that   *)
(* fails or dies while storing, or to one under another password: never to *)
(* a rotation, a cancelled flow, or an import that succeeds under the      *)
(* password of the session.                                                *)
THEOREM LossesExplained ==
    Spec => Store!LossNeedsInterruptionOrOtherPassword
<1> DEFINE Explained ==
        \A p \in Contents, a \in Aliases :
            Store!Opens[p][a] # NoEntry /\ Store!Opens'[p][a] = NoEntry =>
                \E w \in writing : w.pwd # p \/ file'.state = "torn"
<1>1. ASSUME IInv, IInv', StoreInv, [Next]_vars
      PROVE  [Explained]_storeVars
  <2>1. Store!TypeOK /\ Store!TypeOK' /\ [Store!Next]_storeVars
    BY <1>1, StoreSteps DEF IInv, ImportInv
  <2>2. ASSUME NEW p \in Contents, NEW a \in Aliases, NEW c \in Certs,
               NEW k \in Keys, Store!ImportStart(p, a, c, k)
        PROVE  Explained
    BY <2>1, <2>2, StoreStartOpens
  <2>3. CASE Store!StoreFinish
    BY <1>1, <2>1, <2>3, StoreFinishOpens
  <2>4. CASE Store!StoreInterrupted
    BY <1>1, <2>4, StoreInterruptedOpens
  <2>5. CASE Store!Tick
    BY <2>5, StoreQuietOpens DEF Store!Tick
  <2> QED
    BY <2>1, <2>2, <2>3, <2>4, <2>5 DEF Store!Next
<1> QED
  BY <1>1, Invariance, StoreInvariance, PTL
     DEF Spec, Store!LossNeedsInterruptionOrOtherPassword, storeVars,
         Store!storeVars

-----------------------------------------------------------------------------
(* The enrolment, and what becomes of it.                                  *)

(* Under a prompt whose screen was destroyed there is no session; a prompt *)
(* needs the key; and the preferences on the disk are those of the         *)
(* process, or none yet.                                                   *)
EnrolInv ==
    /\ \A p \in prompt : ~ p.ours => keystorePassword = NoArray
    /\ prompt # {} => aesKey = "valid"
    /\ onDisk = stored \/ onDisk = NoPassword

(* A new prompt is of this screen, and takes the key.                      *)
LEMMA PromptsAreOurs ==
    /\ \A p \in DecryptPrompt : p.ours
    /\ \A r : \A p \in EncryptPrompt(r) : p.ours
BY DEF DecryptPrompt, EncryptPrompt

LEMMA EnrolInvariance == Spec => []EnrolInv
<1>1. Init => EnrolInv
  BY DEF Init, AuthInit, EnrolInv
<1>2. ASSUME IInv, EnrolInv, Next
      PROVE  EnrolInv'
  <2>1. CASE Open \/ Recreate
    <3>1. PICK kept \in {prompt, {}} : onCreate(kept)
      <4>1. Open => prompt = {}
        BY <1>2 DEF Open, IInv, SessionInv, DialogsServe
      <4> QED
        BY <2>1, <4>1 DEF Open, Recreate
    <3>2. /\ keystorePassword' = NoArray
          /\ UNCHANGED <<stored, onDisk>>
      BY <1>2, <2>1 DEF Open, Recreate, onDestroy, fieldVars, IInv,
         SessionInv, DialogsServe
    <3>3. prompt' # {} => aesKey' = "valid"
      BY <3>1, <1>2 DEF onCreate, ensureKeyExists, EnrolInv
    <3> QED
      BY <1>2, <3>2, <3>3 DEF EnrolInv
  <2>2. CASE Crash
    BY <2>2 DEF Crash, ProcessDies, EnrolInv
  <2>3. CASE AcceptOffer
    <3>1. PromptsAreOurs!2
      BY PromptsAreOurs
    <3>2. prompt' = EncryptPrompt(keystorePassword) \/ prompt' = {}
      BY <2>3 DEF AcceptOffer
    <3>3. prompt' # {} => aesKey' = "valid"
      BY <2>3 DEF AcceptOffer, CanEnrol
    <3>4. UNCHANGED <<stored, onDisk>>
      BY <2>3 DEF AcceptOffer
    <3> QED
      BY <1>2, <3>1, <3>2, <3>3, <3>4 DEF EnrolInv
  <2>4. CASE ShowAddCredential
    <3>1. requestKeystorePassword = "prompt" => aesKey = "valid"
      BY DEF requestKeystorePassword
    <3>2. \/ prompt' = prompt
          \/ prompt' = DecryptPrompt /\ aesKey = "valid"
      BY <2>4, <3>1 DEF ShowAddCredential
    <3>3. UNCHANGED <<stored, onDisk, aesKey>> /\ prompt = {}
      BY <2>4 DEF ShowAddCredential, Idle, Foreground
    <3> QED
      BY <1>2, <3>2, <3>3, PromptsAreOurs DEF EnrolInv
  <2>5. CASE FingerprintEnrols
    <3>1. stored = NoPassword /\ prompt' = {} /\ UNCHANGED onDisk
      BY <1>2, <2>5 DEF FingerprintEnrols, EncryptSucceeds, IInv, SessionInv,
         PromptsServe
    <3> QED
      BY <1>2, <3>1 DEF EnrolInv
  <2>6. CASE FingerprintOpens \/ FingerprintError \/ Flush \/ ChangeSettings
    BY <1>2, <2>6 DEF FingerprintOpens, DecryptSucceeds, FingerprintError,
       PromptError, Flush, FlushPreferences, ChangeSettings, ChangeBiometrics,
       EnrolInv, fieldVars
  <2>7. CASE Close \/ \E pwd \in Passwords : TypePassword(pwd)
    BY <1>2, <2>7 DEF Close, Idle, TypePassword, Foreground, EnrolInv
  <2>8. CASE \/ CancelDialog \/ PickCancelled \/ PickCaCertAccepted
             \/ PickCaCertRefused \/ ImportReturns \/ ImportThrows \/ Tick
             \/ \E a \in Aliases : ContinueWithAlias(a)
             \/ \E c \in Certs : PickUserCert(c)
             \/ \E k \in Keys : PickUserKey(k)
    <3>1. UNCHANGED <<stored, onDisk, aesKey, prompt, keystorePassword>>
      BY <2>8 DEF CancelDialog, PickCancelled, PickCaCertAccepted,
         PickCaCertRefused, ImportReturns, ImportThrows, Tick,
         ContinueWithAlias, PickUserCert, PickUserKey, authVars, fieldVars
    <3> QED
      BY <1>2, <3>1 DEF EnrolInv
  <2> QED
    BY <1>2, <2>1, <2>2, <2>3, <2>4, <2>5, <2>6, <2>7, <2>8 DEF Next
<1>3. ASSUME EnrolInv, UNCHANGED vars PROVE EnrolInv'
  BY <1>3 DEF EnrolInv, vars, authVars, fieldVars
<1> QED
  BY <1>1, <1>2, <1>3, Invariance, PTL DEF Spec

(* What an enrolment stores: the password of the session whose prompt it   *)
(* is, whatever happened between "Sí" and the fingerprint; zeros, always,  *)
(* when the screen of the prompt was destroyed under it.  And only an      *)
(* enrolment, with none stored before, or the death of the process before  *)
(* the preferences reached the disk changes what is stored.                *)
EnrolsTheSession ==
    [][stored' # stored =>
        \/ /\ stored = NoPassword
           /\ \E p \in prompt :
                /\ p.mode = "encrypt"
                /\ stored' = IF p.ours THEN given ELSE Zeroed
        \/ stored' = NoPassword /\ onDisk = NoPassword /\ screen' = "closed"
      ]_vars

THEOREM EnrolmentsAreTheSession == Spec => EnrolsTheSession
<1> DEFINE Change ==
        \/ /\ stored = NoPassword
           /\ \E p \in prompt :
                /\ p.mode = "encrypt"
                /\ stored' = IF p.ours THEN given ELSE Zeroed
        \/ stored' = NoPassword /\ onDisk = NoPassword /\ screen' = "closed"
<1>1. ASSUME IInv, EnrolInv, FingerprintEnrols
      PROVE  Change
  <2>1. PICK p \in prompt : p.mode = "encrypt" /\ stored' = heap[p.array]
    BY <1>1 DEF FingerprintEnrols, EncryptSucceeds
  <2>2. /\ p \in Prompt /\ p.array # NoArray /\ stored = NoPassword
        /\ p.ours => p.array = keystorePassword
    BY <1>1, <2>1 DEF IInv, SessionInv, AuthTypeOK, PromptsServe
  <2>3. p.array \in Arrays
    BY <2>2 DEF Prompt
  <2>4. p.ours => heap[p.array] = given
    BY <1>1, <2>2 DEF IInv, SessionInv, PasswordOfSession
  <2>5. ~ p.ours => heap[p.array] = Zeroed
    <3>1. ~ p.ours => keystorePassword = NoArray
      BY <1>1 DEF EnrolInv
    <3> QED
      BY <1>1, <2>2, <2>3, <3>1
         DEF IInv, SessionInv, AuthTypeOK, PasswordOfSession, Contents
  <2> QED
    BY <2>1, <2>2, <2>4, <2>5
<1>2. ASSUME EnrolInv, Crash, stored' # stored
      PROVE  Change
  BY <1>2 DEF Crash, ProcessDies, EnrolInv
<1>3. ASSUME [Next]_vars, stored' # stored, ~ FingerprintEnrols, ~ Crash
      PROVE  FALSE
  BY <1>3 DEF Next, vars, authVars, Open, Close, Recreate, TypePassword,
     CancelDialog, AcceptOffer, FingerprintOpens, DecryptSucceeds,
     FingerprintError, PromptError, ShowAddCredential, ContinueWithAlias,
     PickCancelled, PickUserCert, PickUserKey, PickCaCertAccepted,
     PickCaCertRefused, ImportReturns, ImportThrows, Flush,
     FlushPreferences, ChangeSettings, ChangeBiometrics, Tick
<1>4. IInv /\ EnrolInv /\ [Next]_vars => [stored' # stored => Change]_vars
  BY <1>1, <1>2, <1>3
<1> QED
  BY <1>4, Invariance, EnrolInvariance, PTL DEF Spec, EnrolsTheSession

(* Only Flush writes the preferences to the disk.                          *)
LEMMA DiskSteps ==
    ASSUME [Next]_vars
    PROVE  onDisk' = onDisk \/ (onDisk # stored /\ onDisk' = stored)
BY DEF Next, vars, authVars, Open, Close, Recreate, TypePassword,
   CancelDialog, AcceptOffer, FingerprintOpens, DecryptSucceeds,
   FingerprintEnrols, EncryptSucceeds, FingerprintError, PromptError,
   ShowAddCredential, ContinueWithAlias, PickCancelled, PickUserCert,
   PickUserKey, PickCaCertAccepted, PickCaCertRefused, ImportReturns,
   ImportThrows, Crash, ProcessDies, Flush, FlushPreferences,
   ChangeSettings, ChangeBiometrics, Tick

(* The first password to reach the disk stays there for good: no callback  *)
(* of the application removes or replaces it, even when it was mistyped    *)
(* and opens nothing, or is the wiped one.                                 *)
THEOREM EnrolledForGood ==
    ASSUME NEW c \in Contents
    PROVE  Spec => [](onDisk = c => [](onDisk = c))
<1>1. ASSUME EnrolInv, [Next]_vars, onDisk = c
      PROVE  (onDisk = c)'
  <2>1. c # NoPassword
    BY AuthAssumption
  <2> QED
    BY <1>1, <2>1, DiskSteps DEF EnrolInv
<1> QED
  BY <1>1, EnrolInvariance, PTL DEF Spec

(* When the biometrics change, the fingerprint is lost to this application *)
(* for good: the invalidated key is never replaced, and no prompt is ever  *)
(* shown again, to open the store or to enrol a password.                  *)
THEOREM FingerprintLostForGood ==
    Spec => [](aesKey = "invalidated" =>
                [](aesKey = "invalidated" /\ prompt = {}))
<1>1. ASSUME [Next]_vars, aesKey = "invalidated"
      PROVE  (aesKey = "invalidated")'
  <2>1. \/ UNCHANGED aesKey \/ ensureKeyExists
        \/ aesKey' = IF aesKey = "valid" THEN "invalidated" ELSE aesKey
    BY <1>1 DEF Next, vars, authVars, Open, Close, Recreate, onCreate,
       TypePassword, CancelDialog, AcceptOffer, FingerprintOpens,
       DecryptSucceeds, FingerprintEnrols, EncryptSucceeds,
       FingerprintError, PromptError, ShowAddCredential, ContinueWithAlias,
       PickCancelled, PickUserCert, PickUserKey, PickCaCertAccepted,
       PickCaCertRefused, ImportReturns, ImportThrows, Crash, ProcessDies,
       Flush, FlushPreferences, ChangeSettings, ChangeBiometrics, Tick
  <2> QED
    BY <1>1, <2>1 DEF ensureKeyExists
<1>2. EnrolInv /\ aesKey = "invalidated" => prompt = {}
  BY DEF EnrolInv
<1> QED
  BY <1>1, <1>2, EnrolInvariance, PTL DEF Spec

(* No prompt outlives the screen that opened it.  Nothing in the code      *)
(* prevents that: a rotation keeps the prompt, and onDestroy does not      *)
(* cancel it.                                                              *)
PromptsOfThisScreen == \A p \in prompt : p.ours

(* What is stored, and the password of a session, was typed.               *)
TypedInv ==
    /\ stored \in Passwords \cup {NoPassword}
    /\ onDisk \in Passwords \cup {NoPassword}
    /\ keystorePassword # NoArray => given \in Passwords

(* A callback that neither stores a password nor opens a session.          *)
LEMMA TypedKept ==
    ASSUME TypedInv, UNCHANGED stored, onDisk' \in {onDisk, stored},
           keystorePassword' = NoArray \/ UNCHANGED <<keystorePassword, given>>
    PROVE  TypedInv'
BY DEF TypedInv

(* A prompt that outlives its screen is all that stands between the code   *)
(* and its promise: as long as there is none, what is enrolled, on the     *)
(* disk too, is a password the user typed.                                 *)
THEOREM TypedUnlessOutlived ==
    Spec /\ []PromptsOfThisScreen => []StoredWasTyped
<1>1. Init => TypedInv
  BY DEF Init, AuthInit, TypedInv
<1>2. ASSUME IInv, TypedInv, PromptsOfThisScreen, Next
      PROVE  TypedInv'
  <2>1. ASSUME NEW pwd \in Passwords, TypePassword(pwd)
        PROVE  TypedInv'
    BY <1>2, <2>1 DEF TypePassword, OpenWith, TypedInv
  <2>2. CASE FingerprintOpens
    <3>1. stored # NoPassword
      BY <1>2, <2>2 DEF FingerprintOpens, DecryptSucceeds, IInv, SessionInv,
         PromptsServe
    <3> QED
      BY <1>2, <2>2, <3>1 DEF FingerprintOpens, DecryptSucceeds, OpenWith,
         TypedInv
  <2>3. CASE FingerprintEnrols
    <3>1. PICK p \in prompt : p.mode = "encrypt" /\ stored' = heap[p.array]
      BY <2>3 DEF FingerprintEnrols, EncryptSucceeds
    <3>2. p.array # NoArray /\ p.array = keystorePassword
      BY <1>2, <3>1
         DEF PromptsOfThisScreen, IInv, SessionInv, PromptsServe
    <3>3. stored' \in Passwords
      BY <1>2, <3>1, <3>2
         DEF IInv, SessionInv, PasswordOfSession, TypedInv
    <3>4. UNCHANGED <<onDisk, keystorePassword, given>>
      BY <2>3 DEF FingerprintEnrols, EncryptSucceeds, fieldVars
    <3> QED
      BY <1>2, <3>3, <3>4 DEF TypedInv
  <2>4. CASE Crash
    BY <1>2, <2>4 DEF Crash, ProcessDies, TypedInv
  <2>5. CASE ShowAddCredential
    <3>1. UNCHANGED <<stored, onDisk>>
      BY <2>5 DEF ShowAddCredential
    <3>2. UNCHANGED fieldVars
      <4>1. CASE keystorePassword # NoArray
        BY <2>5, <4>1 DEF ShowAddCredential
      <4>2. CASE keystorePassword = NoArray
        <5>1. cached = NoArray
          BY <1>2, <4>2 DEF IInv, SessionInv, SessionAgrees
        <5>2. requestKeystorePassword \in {"error", "prompt"}
          BY <5>1 DEF requestKeystorePassword, hasCachedPassword
        <5> QED
          BY <2>5, <4>2, <5>2 DEF ShowAddCredential
      <4> QED
        BY <4>1, <4>2
    <3> QED
      BY <1>2, <3>1, <3>2, TypedKept DEF fieldVars
  <2>6. CASE \/ Open \/ Close \/ Recreate \/ CancelDialog \/ AcceptOffer
             \/ FingerprintError \/ PickCancelled \/ PickCaCertAccepted
             \/ PickCaCertRefused \/ ImportReturns \/ ImportThrows \/ Flush
             \/ ChangeSettings \/ Tick
             \/ \E a \in Aliases : ContinueWithAlias(a)
             \/ \E c \in Certs : PickUserCert(c)
             \/ \E k \in Keys : PickUserKey(k)
    <3>1. /\ UNCHANGED stored /\ onDisk' \in {onDisk, stored}
          /\ \/ keystorePassword' = NoArray
             \/ UNCHANGED <<keystorePassword, given>>
      BY <2>6 DEF Open, Close, Recreate, onDestroy, CancelDialog,
         AcceptOffer, FingerprintError, PromptError, PickCancelled,
         PickCaCertAccepted, PickCaCertRefused, ImportReturns, ImportThrows,
         Flush, FlushPreferences, ChangeSettings, ChangeBiometrics, Tick,
         ContinueWithAlias, PickUserCert, PickUserKey, authVars, fieldVars
    <3> QED
      BY <1>2, <3>1, TypedKept
  <2> QED
    BY <1>2, <2>1, <2>2, <2>3, <2>4, <2>5, <2>6 DEF Next
<1>3. ASSUME TypedInv, UNCHANGED vars PROVE TypedInv'
  BY <1>3 DEF TypedInv, vars, authVars, fieldVars
<1>4. TypedInv => StoredWasTyped
  BY DEF TypedInv, StoredWasTyped, hasStoredPassword
<1> QED
  BY <1>1, <1>2, <1>3, <1>4, Invariance, PTL DEF Spec
=============================================================================
