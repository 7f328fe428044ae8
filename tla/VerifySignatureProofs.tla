------------------------ MODULE VerifySignatureProofs ------------------------
(***************************************************************************)
(* Proofs about VerifySignatureActivity, for any certificates, keys,       *)
(* documents, signature files and contents.                                *)
(***************************************************************************)
EXTENDS VerifySignatureActivity, TLAPS

(* The invariants of the screen support each other: a verification needs   *)
(* the button to imply a complete selection, the reset button needs the    *)
(* record of what was verified, and an answer on the screen needs both.    *)
IInv ==
    /\ TypeOK
    /\ ButtonsMatchSelection
    /\ VerdictMatchesSelection
    /\ ValidIsSound

-----------------------------------------------------------------------------
(* What the handlers establish. *)

(* The verify button follows the selection, under every guide text.        *)
LEMMA ButtonFollows ==
    ASSUME selectedCert' \in Certs \cup {Nothing},
           selectedDocument' \in Documents \cup {Nothing},
           selectedSignature' \in SigFiles \cup {Nothing},
           updateVerifyButtonState
    PROVE  /\ enabled' \in BOOLEAN
           /\ enabled' <=> Complete'
           /\ summary' \in {"start", "select certificate", "select both",
                            "select document", "select signature", "ready"}
           /\ cv' = Nothing
<1>1. enabled' = (selectedCert' # Nothing /\ selectedDocument' # Nothing
                    /\ selectedSignature' # Nothing)
  BY DEF updateVerifyButtonState
<1>2. summary' \in {"start", "select certificate", "select both",
                    "select document", "select signature", "ready"}
  BY DEF updateVerifyButtonState, StatusText
<1> QED
  BY <1>1, <1>2 DEF updateVerifyButtonState, Complete

(* A handler that changes the selection leaves no answer behind.           *)
LEMMA SelectionKeeps ==
    ASSUME IInv, UNCHANGED <<now, files, ok>>,
           selectedCert' \in Certs \cup {Nothing},
           selectedDocument' \in Documents \cup {Nothing},
           selectedSignature' \in SigFiles \cup {Nothing},
           picker' \in {"none", "cert", "document", "signature"},
           updateVerifyButtonState, reset' = FALSE, checked' = Nothing
    PROVE  IInv'
<1>1. TypeOK'
  BY ButtonFollows DEF IInv, TypeOK, files
<1>2. ButtonsMatchSelection'
  BY ButtonFollows DEF ButtonsMatchSelection
<1>3. VerdictMatchesSelection' /\ ValidIsSound'
  BY ButtonFollows DEF VerdictMatchesSelection, ValidIsSound
<1> QED
  BY <1>1, <1>2, <1>3 DEF IInv

(* A handler that shows nothing new and selects nothing.                   *)
LEMMA ShownKeeps ==
    ASSUME IInv, UNCHANGED <<selection, shown>>, now' \in Times,
           content' \in [Documents -> Contents \cup {Unreadable}],
           sigContent' \in [SigFiles -> Signatures \cup {Unreadable}],
           picker' \in {"none", "cert", "document", "signature"}
    PROVE  IInv'
<1>1. TypeOK'
  BY DEF IInv, TypeOK, selection, shown
<1>2. ButtonsMatchSelection'
  BY DEF IInv, ButtonsMatchSelection, Complete, selection, shown
<1>3. VerdictMatchesSelection' /\ ValidIsSound'
  BY DEF IInv, VerdictMatchesSelection, ValidIsSound, selection, shown
<1> QED
  BY <1>1, <1>2, <1>3 DEF IInv

(* The answers for a complete selection, whatever was read.                *)
LEMMA VerdictCases ==
    ASSUME Complete, NEW v \in Verdicts
    PROVE  LET data == content[selectedDocument]
               sig  == sigContent[selectedSignature]
               r    == validateCertificate(selectedCert, now)
           IN  \/ /\ v = [text |-> "error", cv |-> Nothing, ok |-> FALSE]
                  /\ \/ Fails(data, sig)
                     \/ /\ Foreign(sig)
                        /\ ~ verifyDataWithCertificate(selectedCert, data, sig)
               \/ /\ v = [text |-> "invalid", cv |-> Nothing, ok |-> FALSE]
                  /\ ~ Fails(data, sig)
                  /\ ~ verifyDataWithCertificate(selectedCert, data, sig)
               \/ /\ v = [text |-> "valid", cv |-> r, ok |-> r.keyUsageOk]
                  /\ ~ Fails(data, sig)
                  /\ verifyDataWithCertificate(selectedCert, data, sig)
BY DEF Verdicts, Answer

LEMMA VerificationKeeps ==
    ASSUME IInv, performVerification
    PROVE  IInv'
<1> DEFINE data == content[selectedDocument]
           sig  == sigContent[selectedSignature]
           r    == validateCertificate(selectedCert, now)
           run  == [cert |-> selectedCert, document |-> selectedDocument,
                    signature |-> selectedSignature, at |-> now,
                    data |-> data, sig |-> sig]
<1>1. Complete
  BY DEF IInv, ButtonsMatchSelection, performVerification
<1>2. checked' = run
  BY <1>1 DEF performVerification
<1>3. /\ selectedCert \in Certs /\ selectedDocument \in Documents
      /\ selectedSignature \in SigFiles
  BY <1>1 DEF IInv, TypeOK, Complete
<1>4. run \in Checks /\ run # Nothing
  <2>1. data \in Contents \cup {Unreadable}
    BY <1>3 DEF IInv, TypeOK
  <2>2. sig \in Signatures \cup {Unreadable}
    BY <1>3 DEF IInv, TypeOK
  <2>3. now \in Times
    BY DEF IInv, TypeOK
  <2>4. run \in Checks
    BY <1>3, <2>1, <2>2, <2>3 DEF Checks
  <2> QED
    BY <2>4, NothingAssumption
<1>5. UNCHANGED <<now, files, selection, picker, enabled>>
  BY DEF performVerification
<1>6. /\ \E v \in Verdicts : summary' = v.text /\ cv' = v.cv /\ ok' = v.ok
      /\ reset' \in BOOLEAN
  BY DEF performVerification
<1>7. r.keyUsageOk \in BOOLEAN
  BY DEF validateCertificate
<1>8. \/ summary' = "error" /\ cv' = Nothing /\ ok' = FALSE
      \/ summary' = "invalid" /\ cv' = Nothing /\ ok' = FALSE
      \/ /\ verifyDataWithCertificate(selectedCert, data, sig)
         /\ summary' = "valid" /\ cv' = r /\ ok' = r.keyUsageOk
  BY <1>1, <1>6, VerdictCases
<1>9. TypeOK'
  BY <1>2, <1>4, <1>5, <1>6, <1>7, <1>8 DEF IInv, TypeOK, files, selection
<1>10. ButtonsMatchSelection'
  BY <1>1, <1>2, <1>4, <1>5, <1>8
     DEF IInv, ButtonsMatchSelection, Complete, selection
<1>11. VerdictMatchesSelection'
  BY <1>2, <1>4, <1>5 DEF VerdictMatchesSelection, selection
<1>12. ValidIsSound'
  BY <1>2, <1>8 DEF ValidIsSound
<1> QED
  BY <1>9, <1>10, <1>11, <1>12 DEF IInv

-----------------------------------------------------------------------------
(* The invariant. *)

LEMMA InitInv == Init => IInv
<1> SUFFICES ASSUME Init PROVE IInv
  OBVIOUS
<1>1. TypeOK
  <2>1. now \in Times
    BY TimeAssumption DEF Init, Times
  <2>2. content \in [Documents -> Contents \cup {Unreadable}]
    BY DEF Init
  <2>3. sigContent \in [SigFiles -> Signatures \cup {Unreadable}]
    BY DEF Init
  <2> QED
    BY <2>1, <2>2, <2>3 DEF Init, TypeOK
<1>2. ButtonsMatchSelection
  BY DEF Init, ButtonsMatchSelection, Complete
<1>3. VerdictMatchesSelection /\ ValidIsSound
  BY DEF Init, VerdictMatchesSelection, ValidIsSound
<1> QED
  BY <1>1, <1>2, <1>3 DEF IInv

LEMMA NextInv == IInv /\ [Next]_vars => IInv'
<1> SUFFICES ASSUME IInv, [Next]_vars PROVE IInv'
  OBVIOUS
<1>1. ASSUME NEW kind \in {"cert", "document", "signature"}, OpenPicker(kind)
      PROVE  IInv'
  BY <1>1, ShownKeeps DEF OpenPicker, files, IInv, TypeOK
<1>2. CASE PickCancelled
  BY <1>2, ShownKeeps DEF PickCancelled, files, IInv, TypeOK
<1>3. ASSUME NEW c \in Certs \cup {Unreadable}, PickCert(c)
      PROVE  IInv'
  BY <1>3, SelectionKeeps DEF PickCert, Picked, IInv, TypeOK
<1>4. ASSUME NEW d \in Documents, PickDocument(d)
      PROVE  IInv'
  BY <1>4, SelectionKeeps DEF PickDocument, Picked, IInv, TypeOK
<1>5. ASSUME NEW s \in SigFiles, PickSignature(s)
      PROVE  IInv'
  BY <1>5, SelectionKeeps DEF PickSignature, Picked, IInv, TypeOK
<1>6. CASE performVerification
  BY <1>6, VerificationKeeps
<1>7. CASE resetVerificationState
  BY <1>7, SelectionKeeps
     DEF resetVerificationState, Cleared, files, IInv, TypeOK
<1>8. CASE Recreate
  BY <1>8, SelectionKeeps DEF Recreate, Cleared, files, IInv, TypeOK
<1>9. CASE FilesChange
  BY <1>9, ShownKeeps DEF FilesChange, files, IInv, TypeOK
<1>10. CASE Tick
  <2>1. now' \in Times
    <3>1. now \in Times /\ now < MaxTime /\ now' = now + 1
      BY <1>10 DEF Tick, IInv, TypeOK
    <3> QED
      BY <3>1, TimeAssumption DEF Times
  <2> QED
    BY <1>10, <2>1, ShownKeeps DEF Tick, files, IInv, TypeOK
<1>11. CASE UNCHANGED vars
  BY <1>11, ShownKeeps DEF vars, files, IInv, TypeOK
<1> QED
  BY <1>1, <1>2, <1>3, <1>4, <1>5, <1>6, <1>7, <1>8, <1>9, <1>10, <1>11
     DEF Next

LEMMA Invariance == Spec => []IInv
BY InitInv, NextInv, PTL DEF Spec

-----------------------------------------------------------------------------

(* Type correctness. *)
THEOREM TypeCorrect == Spec => []TypeOK
<1>1. IInv => TypeOK
  BY DEF IInv
<1> QED
  BY <1>1, Invariance, PTL

(* The verify button is enabled exactly when the selection is complete,    *)
(* and the reset button is there only after a verification of it.          *)
THEOREM ButtonsCorrect == Spec => []ButtonsMatchSelection
<1>1. IInv => ButtonsMatchSelection
  BY DEF IInv
<1> QED
  BY <1>1, Invariance, PTL

(* The answer on the screen is about what is selected now.                 *)
THEOREM VerdictIsCurrent == Spec => []VerdictMatchesSelection
<1>1. IInv => VerdictMatchesSelection
  BY DEF IInv
<1> QED
  BY <1>1, Invariance, PTL

(* A valid answer rests on what was read, and on the time, of the          *)
(* verification that gave it.                                              *)
THEOREM ValidWasVerified == Spec => []ValidIsSound
<1>1. IInv => ValidIsSound
  BY DEF IInv
<1> QED
  BY <1>1, Invariance, PTL

(* What each of the three answers means.  "valid" is shown exactly when    *)
(* both files were read, the provider verifies with the algorithm of the   *)
(* certificate and the signature is of this document by this key;          *)
(* "invalid" only when the provider compared the two and they differ; and  *)
(* an error has a reason: a file, the algorithm of the certificate, or     *)
(* bytes that are no signature of this algorithm.                          *)
AnswerIsExact ==
    LET read    == checked.data # Unreadable /\ checked.sig # Unreadable
        usable  == Usable(checked.cert.key)
        fits    == checked.sig = Signature(checked.cert.key, checked.data)
        foreign == AlgOf[checked.sig.signer] # AlgOf[checked.cert.key]
    IN  summary \in {"valid", "invalid", "error"} =>
            /\ summary = "valid" <=> read /\ usable /\ fits
            /\ summary = "invalid" => read /\ usable /\ ~ fits
            /\ summary = "error" => ~ read \/ ~ usable \/ foreign

(* No answer is given for want of another: a signature that was read and   *)
(* fits is never called invalid or an error, an unreadable file or a       *)
(* certificate of another kind of key never makes a forgery                *)
(* (performVerification with its two catch clauses), and no later handler  *)
(* swaps one answer for another.                                           *)
THEOREM AnswersAreExact == Spec => []AnswerIsExact
<1>1. Init => AnswerIsExact
  BY DEF Init, AnswerIsExact
<1>2. ASSUME IInv, AnswerIsExact, performVerification
      PROVE  AnswerIsExact'
  <2> DEFINE data == content[selectedDocument]
             sig  == sigContent[selectedSignature]
             fits == sig = Signature(selectedCert.key, data)
             accepts == verifyDataWithCertificate(selectedCert, data, sig)
  <2>1. Complete
    BY <1>2 DEF performVerification, IInv, ButtonsMatchSelection
  <2>2. /\ checked'.cert = selectedCert
        /\ checked'.data = data /\ checked'.sig = sig
    BY <1>2, <2>1 DEF performVerification
  <2>3. /\ data \in Contents \cup {Unreadable}
        /\ sig \in Signatures \cup {Unreadable}
    BY <1>2, <2>1 DEF IInv, TypeOK, Complete
  <2>4. ASSUME sig # Unreadable
        PROVE  /\ accepts <=> Usable(selectedCert.key) /\ fits
               /\ fits => ~ Foreign(sig)
    BY <2>3, <2>4
       DEF Signatures, Signature, verifyDataWithCertificate, Foreign
  <2>5. Fails(data, sig) <=>
            data = Unreadable \/ sig = Unreadable \/ ~ Usable(selectedCert.key)
    BY DEF Fails
  <2>6. \/ /\ summary' = "error"
           /\ Fails(data, sig) \/ (Foreign(sig) /\ ~ accepts)
        \/ summary' = "invalid" /\ ~ Fails(data, sig) /\ ~ accepts
        \/ summary' = "valid" /\ ~ Fails(data, sig) /\ accepts
    <3>1. PICK v \in Verdicts : summary' = v.text
      BY <1>2 DEF performVerification
    <3> QED
      BY <2>1, <3>1, VerdictCases
  <2>7. CASE summary' = "error"
    <3>1. Fails(data, sig) \/ (Foreign(sig) /\ ~ fits)
      BY <2>4, <2>5, <2>6, <2>7
    <3> QED
      BY <2>2, <2>5, <2>7, <3>1 DEF AnswerIsExact, Foreign, Usable, Signature
  <2>8. CASE summary' = "invalid"
    <3>1. ~ Fails(data, sig) /\ ~ fits
      BY <2>4, <2>5, <2>6, <2>8
    <3> QED
      BY <2>2, <2>5, <2>8, <3>1 DEF AnswerIsExact, Usable, Signature
  <2>9. CASE summary' = "valid"
    <3>1. ~ Fails(data, sig) /\ fits
      BY <2>4, <2>5, <2>6, <2>9
    <3> QED
      BY <2>2, <2>5, <2>9, <3>1 DEF AnswerIsExact, Usable, Signature
  <2> QED
    BY <2>6, <2>7, <2>8, <2>9
<1>3. ASSUME updateVerifyButtonState
      PROVE  AnswerIsExact'
  <2>1. summary' \in {"start", "select certificate", "select both",
                      "select document", "select signature", "ready"}
    BY <1>3 DEF updateVerifyButtonState, StatusText
  <2> QED
    BY <2>1 DEF AnswerIsExact
<1>4. ASSUME AnswerIsExact, UNCHANGED <<summary, checked>>
      PROVE  AnswerIsExact'
  BY <1>4 DEF AnswerIsExact
<1>5. ASSUME IInv, AnswerIsExact, [Next]_vars
      PROVE  AnswerIsExact'
  BY <1>2, <1>3, <1>4, <1>5
     DEF Next, vars, shown, OpenPicker, PickCancelled, PickCert, PickDocument,
         PickSignature, Picked, resetVerificationState, Recreate, Cleared,
         FilesChange, Tick
<1> QED
  BY <1>1, <1>5, Invariance, PTL DEF Spec
=============================================================================
