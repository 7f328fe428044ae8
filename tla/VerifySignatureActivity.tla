----------------------- MODULE VerifySignatureActivity -----------------------
(***************************************************************************)
(* The screen "Verificar firma": the user selects a certificate, a         *)
(* document and a signature file in any order, verifies, changes a         *)
(* selection, verifies again or resets.  The files belong to other         *)
(* applications: they can change or become unreadable at any time, also    *)
(* between their selection and the verification, which is when they are    *)
(* read (the certificate alone is read when it is selected).               *)
(*                                                                         *)
(* A rotation, or the system reclaiming the screen behind a picker,        *)
(* creates the screen again with nothing selected.                         *)
(***************************************************************************)
EXTENDS CertValidation

CONSTANTS
    Documents,  \* the documents, by Uri
    Contents,   \* what a document may contain
    SigFiles,   \* the signature files, by Uri
    Unreadable, \* the content of a file that cannot be read, or of one
                \*   for a certificate that cannot be parsed
    Nothing     \* null

Signatures == {Signature(k, d) : k \in Keys, d \in Contents}

(* What a verification ran on: the selection, and what was read then.      *)
Checks ==
    [cert : Certs, document : Documents, signature : SigFiles, at : Times,
     data : Contents \cup {Unreadable}, sig : Signatures \cup {Unreadable}]

ASSUME NothingAssumption ==
    Nothing \notin Certs \cup Documents \cup SigFiles \cup Checks

VARIABLES
    now,        \* the clock
    content,    \* what each document contains
    sigContent, \* what each signature file contains
    selectedCert, selectedDocument, selectedSignature,
    picker,     \* the picker that is open, or "none"
    enabled,    \* whether btnVerify is enabled
    reset,      \* whether btnResetVerification is visible
    summary,    \* the kind of message in tvSummary
    cv,         \* the checks the summary reports (Nothing: none)
    ok,         \* the result in the log of the last verification
    checked     \* history: what the last verification ran on

selection == <<selectedCert, selectedDocument, selectedSignature>>

files == <<content, sigContent>>

shown == <<enabled, reset, summary, cv, ok, checked>>

vars == <<now, files, selection, picker, shown>>

-----------------------------------------------------------------------------

(* updateStatusText: the guide for the selection made so far. *)
StatusText(c, d, s) ==
    CASE c = Nothing /\ d = Nothing /\ s = Nothing   -> "start"
      [] c = Nothing /\ (d # Nothing \/ s # Nothing) -> "select certificate"
      [] c # Nothing /\ d = Nothing /\ s = Nothing   -> "select both"
      [] c # Nothing /\ d = Nothing /\ s # Nothing   -> "select document"
      [] c # Nothing /\ d # Nothing /\ s = Nothing   -> "select signature"
      [] OTHER                                       -> "ready"

(* Slip: the checks of the last answer stay under the new message. *)
updateVerifyButtonState_keepsChecks ==
    /\ enabled' = (selectedCert' # Nothing /\ selectedDocument' # Nothing
                    /\ selectedSignature' # Nothing)
    /\ summary' = StatusText(selectedCert', selectedDocument',
                             selectedSignature')
    /\ cv' = cv

(* updateVerifyButtonState, called with the new selection in place.  It    *)
(* ends in updateStatusText, so it replaces whatever the summary said.     *)
updateVerifyButtonState ==
    /\ enabled' = (selectedCert' # Nothing /\ selectedDocument' # Nothing
                    /\ selectedSignature' # Nothing)
    /\ summary' = StatusText(selectedCert', selectedDocument',
                             selectedSignature')
    /\ cv' = Nothing

(* Slip: the verify button is not recomputed. *)
Cleared_keepsButton ==
    /\ selectedCert' = Nothing
    /\ selectedDocument' = Nothing
    /\ selectedSignature' = Nothing
    /\ summary' = "start"
    /\ cv' = Nothing
    /\ enabled' = enabled
    /\ reset' = FALSE
    /\ checked' = Nothing

(* Nothing selected: after onCreate and after "Reiniciar". *)
Cleared ==
    /\ selectedCert' = Nothing
    /\ selectedDocument' = Nothing
    /\ selectedSignature' = Nothing
    /\ updateVerifyButtonState
    /\ reset' = FALSE
    /\ checked' = Nothing

Init ==
    /\ now = 0
    /\ content \in [Documents -> Contents]
    /\ sigContent \in [SigFiles -> Signatures]
    /\ selectedCert = Nothing
    /\ selectedDocument = Nothing
    /\ selectedSignature = Nothing
    /\ picker = "none"
    /\ enabled = FALSE
    /\ reset = FALSE
    /\ summary = "start"
    /\ cv = Nothing
    /\ ok = FALSE
    /\ checked = Nothing

(* A select button: the picker covers the screen. *)
OpenPicker(kind) ==
    /\ picker = "none"
    /\ picker' = kind
    /\ UNCHANGED <<now, files, selection, shown>>

(* The picker is cancelled: its callback does nothing. *)
PickCancelled ==
    /\ picker # "none"
    /\ picker' = "none"
    /\ UNCHANGED <<now, files, selection, shown>>

(* The callbacks of the pickers.  Every one hides the reset button and     *)
(* recomputes the verify button.  A file that is no certificate leaves     *)
(* none selected, and its error message is replaced at once.               *)
Picked(kind) ==
    /\ picker = kind
    /\ picker' = "none"
    /\ reset' = FALSE
    /\ checked' = Nothing
    /\ updateVerifyButtonState
    /\ UNCHANGED <<now, files, ok>>

PickCert(c) ==
    /\ selectedCert' = IF c = Unreadable THEN Nothing ELSE c
    /\ UNCHANGED <<selectedDocument, selectedSignature>>
    /\ Picked("cert")

(* Slip: only the button is recomputed, the answer stays on the screen. *)
PickDocument_keepsAnswer(d) ==
    /\ picker = "document"
    /\ picker' = "none"
    /\ selectedDocument' = d
    /\ enabled' = (selectedCert # Nothing /\ selectedSignature # Nothing)
    /\ UNCHANGED <<now, files, selectedCert, selectedSignature, reset, summary,
                   cv, ok, checked>>

PickDocument(d) ==
    /\ selectedDocument' = d
    /\ UNCHANGED <<selectedCert, selectedSignature>>
    /\ Picked("document")

PickSignature(s) ==
    /\ selectedSignature' = s
    /\ UNCHANGED <<selectedCert, selectedDocument>>
    /\ Picked("signature")

(* What a verification answers: the message, the checks it reports and the *)
(* result in the log.                                                      *)
Answer(text, checks, result) == [text |-> text, cv |-> checks, ok |-> result]

Complete == \A x \in {selectedCert, selectedDocument, selectedSignature} :
                x # Nothing

(* An exception before the signature is looked at: a file cannot be read,  *)
(* or the provider has no Signature for the key of the certificate.        *)
Fails(data, sig) == Unreadable \in {data, sig} \/ ~ Usable(selectedCert.key)

(* The bytes are no signature of the algorithm of the certificate: whether *)
(* verify returns false or throws is up to the provider.                   *)
Foreign(sig) == AlgOf[sig.signer] # AlgOf[selectedCert.key]

(* Slip: the log does not tell the two answers apart. *)
Verdicts_alwaysOk ==
    LET data   == content[selectedDocument]
        sig    == sigContent[selectedSignature]
        r      == validateCertificate(selectedCert, now)
        failed == {Answer("error", Nothing, FALSE)}
    IN  CASE ~ Complete -> {Answer("missing", Nothing, FALSE)}
          [] Complete /\ Fails(data, sig) -> failed
          [] OTHER ->
                IF verifyDataWithCertificate(selectedCert, data, sig)
                THEN {Answer("valid", r, TRUE)}
                ELSE {Answer("invalid", Nothing, TRUE)}
                        \cup (IF Foreign(sig) THEN failed ELSE {})

(* The answers that performVerification may give. *)
Verdicts ==
    LET data   == content[selectedDocument]
        sig    == sigContent[selectedSignature]
        r      == validateCertificate(selectedCert, now)
        failed == {Answer("error", Nothing, FALSE)}
    IN  CASE ~ Complete -> {Answer("missing", Nothing, FALSE)}
          [] Complete /\ Fails(data, sig) -> failed
          [] OTHER ->
                IF verifyDataWithCertificate(selectedCert, data, sig)
                THEN {Answer("valid", r, r.keyUsageOk)}
                ELSE {Answer("invalid", Nothing, FALSE)}
                        \cup (IF Foreign(sig) THEN failed ELSE {})

(* btnVerify.  A verification that ends in an exception leaves the reset   *)
(* button as it was.                                                       *)
performVerification ==
    /\ picker = "none" /\ enabled
    /\ \E v \in Verdicts :
        /\ summary' = v.text
        /\ cv' = v.cv
        /\ ok' = v.ok
        /\ reset' = (reset \/ v.text \in {"valid", "invalid"})
    /\ checked' = IF ~ Complete THEN checked ELSE
            [cert |-> selectedCert, document |-> selectedDocument,
             signature |-> selectedSignature, at |-> now,
             data |-> content[selectedDocument],
             sig |-> sigContent[selectedSignature]]
    /\ UNCHANGED <<now, files, selection, picker, enabled>>

(* btnResetVerification. *)
resetVerificationState ==
    /\ picker = "none" /\ reset
    /\ Cleared
    /\ UNCHANGED <<now, files, picker, ok>>

(* onCreate of a new instance; a picker that was open stays open and       *)
(* answers to the new one.                                                 *)
Recreate ==
    /\ Cleared
    /\ UNCHANGED <<now, files, picker, ok>>

(* Other applications. *)
FilesChange ==
    /\ \/ \E d \in Documents, x \in Contents \cup {Unreadable} :
            content' = [content EXCEPT ![d] = x] /\ UNCHANGED sigContent
       \/ \E s \in SigFiles, x \in Signatures \cup {Unreadable} :
            sigContent' = [sigContent EXCEPT ![s] = x] /\ UNCHANGED content
    /\ UNCHANGED <<now, selection, picker, shown>>

Tick ==
    /\ now < MaxTime
    /\ now' = now + 1
    /\ UNCHANGED <<files, selection, picker, shown>>

Next ==
    \/ \E kind \in {"cert", "document", "signature"} : OpenPicker(kind)
    \/ PickCancelled
    \/ \E c \in Certs \cup {Unreadable} : PickCert(c)
    \/ \E d \in Documents : PickDocument(d)
    \/ \E s \in SigFiles : PickSignature(s)
    \/ performVerification
    \/ resetVerificationState
    \/ Recreate
    \/ FilesChange
    \/ Tick

Spec == Init /\ [][Next]_vars

-----------------------------------------------------------------------------
(* Type invariant. *)
TypeOK ==
    /\ now \in Times
    /\ content \in [Documents -> Contents \cup {Unreadable}]
    /\ sigContent \in [SigFiles -> Signatures \cup {Unreadable}]
    /\ selectedCert \in Certs \cup {Nothing}
    /\ selectedDocument \in Documents \cup {Nothing}
    /\ selectedSignature \in SigFiles \cup {Nothing}
    /\ picker \in {"none", "cert", "document", "signature"}
    /\ enabled \in BOOLEAN /\ reset \in BOOLEAN /\ ok \in BOOLEAN
    /\ summary \in {"start", "select certificate", "select both",
                    "select document", "select signature", "ready",
                    "missing", "error", "invalid", "valid"}
    /\ cv # Nothing => summary = "valid"
    /\ checked \in Checks \cup {Nothing}

(* Whatever was selected, replaced, found unreadable or reset, in any      *)
(* order, the verify button is enabled exactly when nothing is missing, so *)
(* its "Faltan datos" branch is never taken; and "ocultamos botón de reset *)
(* hasta que haya verificación real": the reset button is there only once  *)
(* the present selection was put through a verification.                   *)
ButtonsMatchSelection ==
    /\ (enabled <=> Complete) /\ summary # "missing"
    /\ reset => checked # Nothing /\ Complete

(* An answer on the screen is about the certificate, the document and the  *)
(* signature that are selected now: no selection, however it was made,     *)
(* leaves the answer for an earlier one standing.                          *)
VerdictMatchesSelection ==
    summary \in {"valid", "invalid", "error"} =>
        /\ checked # Nothing
        /\ checked.cert = selectedCert
        /\ checked.document = selectedDocument
        /\ checked.signature = selectedSignature

(* "La firma es VÁLIDA" is shown only when what was read at the time of    *)
(* the verification verified, and with it the checks of the certificate as *)
(* they stood at that time; a signature that does not verify is never      *)
(* logged as ok.                                                           *)
ValidIsSound ==
    /\ summary = "valid" =>
        /\ verifyDataWithCertificate(checked.cert, checked.data, checked.sig)
        /\ cv = validateCertificate(checked.cert, checked.at)
    /\ summary \in {"invalid", "error"} => ~ ok
=============================================================================
