-------------------------- MODULE SignKeyPairProofs --------------------------
(***************************************************************************)
(* The invariants of SignKeyPairActivity hold for all keys, documents and  *)
(* contents.  What they need besides each other is what a save in progress *)
(* is about to put on the screen.  The last theorem is that the screen     *)
(* implements SignatureContract.                                           *)
(***************************************************************************)
EXTENDS SignKeyPairActivity, TLAPS

(* While a file is being saved, memory holds what the message at the end   *)
(* will announce, and the public key was saved before the private one.     *)
SavePending ==
    /\ saving \in {"publicKey.bin", "privateKey.bin"} => publicKey # Nothing
    /\ saving = "privateKey.bin" => local["publicKey.bin"] = publicKey
    /\ saving = "signature.bin" =>
            /\ privateKey # Nothing
            /\ checked \in Checked
            /\ checked.sig = Signed(privateKey, checked.data)

IInv ==
    /\ TypeOK
    /\ KeysBelongTogether
    /\ GeneratedIsSaved
    /\ SignedVerifies
    /\ ValidIsSound
    /\ SavePending

(* Signatures by a known key, or by a blank one, over what a document may  *)
(* contain.                                                                *)
LEMMA SignedType ==
    \A k \in KeyArrays, x \in Data : Signed(k, x) \in Signatures
BY DEF Signatures

(* An object that was constructed is not null.                             *)
LEMMA ObjectType ==
    \A j, k \in KeyArrays :
        /\ [public_key |-> j, secret_key |-> k] \in SignatureObject
        /\ [public_key |-> j, secret_key |-> k] # Nothing
<1> TAKE j, k \in KeyArrays
<1>1. [public_key |-> j, secret_key |-> k] \in SignatureObject
    BY DEF SignatureObject
<1>2. QED
    BY <1>1, NothingAssumption

(* The part of TypeOK about the local files.                               *)
LocalType ==
    /\ local \in [LocalFiles -> Keys \cup Signatures \cup {Absent, Torn}]
    /\ local["publicKey.bin"] \in Keys \cup {Absent, Torn}
    /\ local["privateKey.bin"] \in Keys \cup {Absent, Torn}
    /\ local["signature.bin"] \in Signatures \cup {Absent, Torn}

(* The initial states satisfy the inductive invariant.                     *)
LEMMA InitIInv == Init => IInv
<1> SUFFICES ASSUME Init PROVE IInv
    OBVIOUS
<1>1. TypeOK
    BY DEF Init, TypeOK, LocalFiles
<1>2. KeysBelongTogether /\ GeneratedIsSaved /\ SignedVerifies
      /\ ValidIsSound /\ SavePending
    BY DEF Init, KeysBelongTogether, GeneratedIsSaved, SignedVerifies,
           ValidIsSound, SavePending
<1>3. QED
    BY <1>1, <1>2 DEF IInv

(* Selecting a document disturbs no conjunct.                              *)
LEMMA SelectFileIInv ==
    ASSUME IInv, NEW d \in Documents, SelectFile(d)
    PROVE  IInv'
<1> USE DEF SelectFile, fields, progress
<1>1. LocalType'
    BY DEF IInv, TypeOK, LocalType
<1>2. TypeOK'
    BY <1>1 DEF LocalType, IInv, TypeOK
<1>3. KeysBelongTogether' /\ SavePending'
    BY DEF IInv, KeysBelongTogether, SavePending
<1>4. GeneratedIsSaved' /\ SignedVerifies' /\ ValidIsSound'
    BY DEF IInv, GeneratedIsSaved, SignedVerifies, ValidIsSound
<1>5. QED
    BY <1>2, <1>3, <1>4 DEF IInv

(* A new pair sets both keys and the object, and the save begins.          *)
LEMMA GenerateIInv ==
    ASSUME IInv, NEW k \in Keys, Generate(k)
    PROVE  IInv'
<1> USE DEF Generate, generate_keypair, Saves
<1>1. TypeOK'
    <2>1. signature' \in SignatureObject
        BY ObjectType DEF KeyArrays
    <2>2. saving' \in LocalFiles
        BY DEF LocalFiles
    <2>3. QED
        BY <2>1, <2>2 DEF IInv, TypeOK
<1>2. KeysBelongTogether' /\ SavePending'
    BY NothingAssumption, ObjectType
    DEF KeysBelongTogether, SavePending, KeyArrays
<1>3. GeneratedIsSaved' /\ SignedVerifies' /\ ValidIsSound'
    BY DEF GeneratedIsSaved, SignedVerifies, ValidIsSound
<1>4. QED
    BY <1>1, <1>2, <1>3 DEF IInv

(* A generation that fails changes the object and the message.             *)
LEMMA GenerateFailsIInv ==
    ASSUME IInv, GenerateFails
    PROVE  IInv'
<1> USE DEF GenerateFails, NewSignature, Says, progress
<1>1. TypeOK'
    BY ObjectType DEF IInv, TypeOK, KeyArrays
<1>2. KeysBelongTogether' /\ SavePending'
    BY ObjectType DEF IInv, KeysBelongTogether, SavePending, KeyArrays
<1>3. GeneratedIsSaved' /\ SignedVerifies' /\ ValidIsSound'
    BY DEF GeneratedIsSaved, SignedVerifies, ValidIsSound
<1>4. QED
    BY <1>1, <1>2, <1>3 DEF IInv

(* Only the message changes.                                               *)
LEMMA SignWithoutKeyIInv ==
    ASSUME IInv, SignWithoutKey
    PROVE  IInv'
<1> USE DEF SignWithoutKey, Says, fields, progress
<1>1. TypeOK'
    BY DEF IInv, TypeOK
<1>2. KeysBelongTogether' /\ SavePending'
    BY DEF IInv, KeysBelongTogether, SavePending
<1>3. GeneratedIsSaved' /\ SignedVerifies' /\ ValidIsSound'
    BY DEF GeneratedIsSaved, SignedVerifies, ValidIsSound
<1>4. QED
    BY <1>1, <1>2, <1>3 DEF IInv

(* What is to be saved was made with the private key in memory.            *)
LEMMA SignIInv ==
    ASSUME IInv, Sign
    PROVE  IInv'
<1> USE DEF Sign, NewSignatureWith, sign, Saves
<1>1. TypeOK'
    <2>1. privateKey \in Keys /\ content[selectedFileUri] \in Data
        BY DEF IInv, TypeOK
    <2>2. signature' \in SignatureObject
        BY <2>1, ObjectType DEF KeyArrays
    <2>3. checked' \in Checked
        BY <2>1, SignedType DEF Checked, KeyArrays
    <2>4. saving' \in LocalFiles
        BY DEF LocalFiles
    <2>5. QED
        BY <2>2, <2>3, <2>4 DEF IInv, TypeOK
<1>2. KeysBelongTogether' /\ SavePending'
    BY ObjectType, SignedType
    DEF IInv, KeysBelongTogether, SavePending, TypeOK, KeyArrays, Checked
<1>3. GeneratedIsSaved' /\ SignedVerifies' /\ ValidIsSound'
    BY DEF GeneratedIsSaved, SignedVerifies, ValidIsSound
<1>4. QED
    BY <1>1, <1>2, <1>3 DEF IInv

(* A failed signature changes the object and the message.                  *)
LEMMA SignFailsIInv ==
    ASSUME IInv, SignFails
    PROVE  IInv'
<1> USE DEF SignFails, NewSignatureWith, Says, progress
<1>1. TypeOK'
    BY ObjectType DEF IInv, TypeOK, KeyArrays
<1>2. KeysBelongTogether' /\ SavePending'
    BY ObjectType DEF IInv, KeysBelongTogether, SavePending, TypeOK, KeyArrays
<1>3. GeneratedIsSaved' /\ SignedVerifies' /\ ValidIsSound'
    BY DEF GeneratedIsSaved, SignedVerifies, ValidIsSound
<1>4. QED
    BY <1>1, <1>2, <1>3 DEF IInv

(* Only the file that is being saved is truncated.                         *)
LEMMA OpenedIInv ==
    ASSUME IInv, Opened
    PROVE  IInv'
<1> USE DEF Opened, fields
<1>1. LocalType'
    BY DEF IInv, TypeOK, LocalType, LocalFiles
<1>2. TypeOK'
    BY <1>1 DEF LocalType, IInv, TypeOK
<1>3. KeysBelongTogether' /\ SavePending'
    BY DEF IInv, KeysBelongTogether, SavePending
<1>4. GeneratedIsSaved' /\ SignedVerifies' /\ ValidIsSound'
    BY DEF GeneratedIsSaved, SignedVerifies, ValidIsSound
<1>5. QED
    BY <1>2, <1>3, <1>4 DEF IInv

(* The public key is in its file before the private one is saved.          *)
LEMMA PublicKeySavedIInv ==
    ASSUME IInv, PublicKeySaved
    PROVE  IInv'
<1> USE DEF PublicKeySaved, Saves, fields
<1>1. LocalType'
    BY DEF IInv, TypeOK, LocalType, LocalFiles, SavePending
<1>2. TypeOK'
    <2>1. saving' \in LocalFiles
        BY DEF LocalFiles
    <2>2. QED
        BY <1>1, <2>1 DEF LocalType, IInv, TypeOK
<1>3. KeysBelongTogether' /\ SavePending'
    BY DEF IInv, KeysBelongTogether, SavePending, TypeOK
<1>4. GeneratedIsSaved' /\ SignedVerifies' /\ ValidIsSound'
    BY DEF GeneratedIsSaved, SignedVerifies, ValidIsSound
<1>5. QED
    BY <1>2, <1>3, <1>4 DEF IInv

(* The keys are announced once both are in their files.                    *)
LEMMA PrivateKeySavedIInv ==
    ASSUME IInv, PrivateKeySaved
    PROVE  IInv'
<1> USE DEF PrivateKeySaved, Saves, Says, fields
<1>1. LocalType'
    BY DEF IInv, TypeOK, LocalType, LocalFiles, SavePending,
           KeysBelongTogether
<1>2. TypeOK'
    BY <1>1 DEF LocalType, IInv, TypeOK
<1>3. KeysBelongTogether' /\ SavePending'
    BY DEF IInv, KeysBelongTogether, SavePending
<1>4. GeneratedIsSaved' /\ SignedVerifies' /\ ValidIsSound'
    BY DEF IInv, GeneratedIsSaved, SignedVerifies, ValidIsSound,
           SavePending, TypeOK, LocalFiles
<1>5. QED
    BY <1>2, <1>3, <1>4 DEF IInv

(* The signature is announced once it is in its file.                      *)
LEMMA SignatureSavedIInv ==
    ASSUME IInv, SignatureSaved
    PROVE  IInv'
<1> USE DEF SignatureSaved, Saves, Says, fields
<1>1. LocalType'
    BY DEF IInv, TypeOK, LocalType, LocalFiles, SavePending, Checked
<1>2. TypeOK'
    BY <1>1 DEF LocalType, IInv, TypeOK
<1>3. KeysBelongTogether' /\ SavePending'
    BY DEF IInv, KeysBelongTogether, SavePending
<1>4. GeneratedIsSaved' /\ SignedVerifies' /\ ValidIsSound'
    BY DEF IInv, GeneratedIsSaved, SignedVerifies, ValidIsSound,
           SavePending, TypeOK, verify, KeysBelongTogether
<1>5. QED
    BY <1>2, <1>3, <1>4 DEF IInv

(* A failed save announces nothing but itself.                             *)
LEMMA SaveFailsIInv ==
    ASSUME IInv, SaveFails
    PROVE  IInv'
<1> USE DEF SaveFails, Saves, Says, fields
<1>1. TypeOK'
    BY DEF IInv, TypeOK
<1>2. KeysBelongTogether' /\ SavePending'
    BY DEF IInv, KeysBelongTogether, SavePending
<1>3. GeneratedIsSaved' /\ SignedVerifies' /\ ValidIsSound'
    BY DEF GeneratedIsSaved, SignedVerifies, ValidIsSound
<1>4. QED
    BY <1>1, <1>2, <1>3 DEF IInv

(* Nor does one that fails after the last byte.                            *)
LEMMA SaveCloseFailsIInv ==
    ASSUME IInv, SaveCloseFails
    PROVE  IInv'
<1> USE DEF SaveCloseFails, Pending, Saves, Says, fields
<1>1. LocalType'
    BY DEF IInv, TypeOK, LocalType, LocalFiles, SavePending, Checked,
           KeysBelongTogether
<1>2. TypeOK'
    BY <1>1 DEF LocalType, IInv, TypeOK
<1>3. KeysBelongTogether' /\ SavePending'
    BY DEF IInv, KeysBelongTogether, SavePending
<1>4. GeneratedIsSaved' /\ SignedVerifies' /\ ValidIsSound'
    BY DEF GeneratedIsSaved, SignedVerifies, ValidIsSound
<1>5. QED
    BY <1>2, <1>3, <1>4 DEF IInv

(* A verdict compares the file with the public key, which is of the same   *)
(* pair as the private one.                                                *)
LEMMA VerifyIInv ==
    ASSUME IInv, Verify
    PROVE  IInv'
<1> USE DEF Verify, Verifiable, Says, fields, progress
<1>1. TypeOK'
    BY DEF IInv, TypeOK, Checked
<1>2. KeysBelongTogether' /\ SavePending'
    BY DEF IInv, KeysBelongTogether, SavePending
<1>3. GeneratedIsSaved' /\ SignedVerifies' /\ ValidIsSound'
    BY DEF IInv, GeneratedIsSaved, SignedVerifies, ValidIsSound, verify,
           KeysBelongTogether
<1>4. QED
    BY <1>1, <1>2, <1>3 DEF IInv

(* Only the message changes.                                               *)
LEMMA VerifyFailsIInv ==
    ASSUME IInv, VerifyFails
    PROVE  IInv'
<1> USE DEF VerifyFails, Says, fields, progress
<1>1. TypeOK'
    BY DEF IInv, TypeOK
<1>2. KeysBelongTogether' /\ SavePending'
    BY DEF IInv, KeysBelongTogether, SavePending
<1>3. GeneratedIsSaved' /\ SignedVerifies' /\ ValidIsSound'
    BY DEF GeneratedIsSaved, SignedVerifies, ValidIsSound
<1>4. QED
    BY <1>1, <1>2, <1>3 DEF IInv

(* The fields and the message are gone, the files stay.                    *)
LEMMA RecreateIInv ==
    ASSUME IInv, Recreate
    PROVE  IInv'
<1> USE DEF Recreate, Cleared, Saves, Says
<1>1. TypeOK'
    BY DEF IInv, TypeOK
<1>2. KeysBelongTogether' /\ SavePending'
    BY DEF KeysBelongTogether, SavePending
<1>3. GeneratedIsSaved' /\ SignedVerifies' /\ ValidIsSound'
    BY DEF GeneratedIsSaved, SignedVerifies, ValidIsSound
<1>4. QED
    BY <1>1, <1>2, <1>3 DEF IInv

(* The documents appear in no conjunct but their type.                     *)
LEMMA DocumentChangesIInv ==
    ASSUME IInv, DocumentChanges
    PROVE  IInv'
<1> USE DEF DocumentChanges, fields, progress
<1>1. LocalType'
    BY DEF IInv, TypeOK, LocalType
<1>2. TypeOK'
    BY <1>1 DEF LocalType, IInv, TypeOK
<1>3. KeysBelongTogether' /\ SavePending'
    BY DEF IInv, KeysBelongTogether, SavePending
<1>4. GeneratedIsSaved' /\ SignedVerifies' /\ ValidIsSound'
    BY DEF IInv, GeneratedIsSaved, SignedVerifies, ValidIsSound
<1>5. QED
    BY <1>2, <1>3, <1>4 DEF IInv

(* Nor does a step that changes nothing.                                   *)
LEMMA StutterIInv ==
    ASSUME IInv, UNCHANGED vars
    PROVE  IInv'
<1> USE DEF vars, fields, progress
<1>1. LocalType'
    BY DEF IInv, TypeOK, LocalType
<1>2. TypeOK'
    BY <1>1 DEF LocalType, IInv, TypeOK
<1>3. KeysBelongTogether' /\ SavePending'
    BY DEF IInv, KeysBelongTogether, SavePending
<1>4. GeneratedIsSaved' /\ SignedVerifies' /\ ValidIsSound'
    BY DEF IInv, GeneratedIsSaved, SignedVerifies, ValidIsSound
<1>5. QED
    BY <1>2, <1>3, <1>4 DEF IInv

(* Every reachable state satisfies the inductive invariant.                *)
THEOREM Invariance == Spec => []IInv
<1>1. ASSUME IInv, [Next]_vars
      PROVE  IInv'
    <2>1. CASE \E d \in Documents : SelectFile(d)
        BY <1>1, <2>1, SelectFileIInv
    <2>2. CASE \E k \in Keys : Generate(k)
        BY <1>1, <2>2, GenerateIInv
    <2>3. CASE GenerateFails
        BY <1>1, <2>3, GenerateFailsIInv
    <2>4. CASE SignWithoutKey
        BY <1>1, <2>4, SignWithoutKeyIInv
    <2>5. CASE Sign
        BY <1>1, <2>5, SignIInv
    <2>6. CASE SignFails
        BY <1>1, <2>6, SignFailsIInv
    <2>7. CASE Opened
        BY <1>1, <2>7, OpenedIInv
    <2>8. CASE PublicKeySaved
        BY <1>1, <2>8, PublicKeySavedIInv
    <2>9. CASE PrivateKeySaved
        BY <1>1, <2>9, PrivateKeySavedIInv
    <2>10. CASE SignatureSaved
        BY <1>1, <2>10, SignatureSavedIInv
    <2>11. CASE SaveFails
        BY <1>1, <2>11, SaveFailsIInv
    <2>12. CASE SaveCloseFails
        BY <1>1, <2>12, SaveCloseFailsIInv
    <2>13. CASE Verify
        BY <1>1, <2>13, VerifyIInv
    <2>14. CASE VerifyFails
        BY <1>1, <2>14, VerifyFailsIInv
    <2>15. CASE Recreate
        BY <1>1, <2>15, RecreateIInv
    <2>16. CASE DocumentChanges
        BY <1>1, <2>16, DocumentChangesIInv
    <2>17. CASE UNCHANGED vars
        BY <1>1, <2>17, StutterIInv
    <2>18. QED
        BY <1>1, <2>1, <2>2, <2>3, <2>4, <2>5, <2>6, <2>7, <2>8,
           <2>9, <2>10, <2>11, <2>12, <2>13, <2>14, <2>15, <2>16, <2>17
        DEF Next
<1>2. QED
    BY <1>1, InitIInv, PTL DEF Spec

(* The state of the screen and of its files keeps its shape.               *)
THEOREM TypeCorrect == Spec => []TypeOK
<1>1. IInv => TypeOK
    BY DEF IInv
<1>2. QED
    BY <1>1, Invariance, PTL

(* The two keys in memory are always of one generation, with an object to  *)
(* verify with.                                                            *)
THEOREM KeysPaired == Spec => []KeysBelongTogether
<1>1. IInv => KeysBelongTogether
    BY DEF IInv
<1>2. QED
    BY <1>1, Invariance, PTL

(* Keys that are shown are in both files: no failed save is hidden.        *)
THEOREM GeneratedKeysSaved == Spec => []GeneratedIsSaved
<1>1. IInv => GeneratedIsSaved
    BY DEF IInv
<1>2. QED
    BY <1>1, Invariance, PTL

(* A signature that is announced is in its file and verifies with the      *)
(* public key in memory.                                                   *)
THEOREM SignedIsVerifiable == Spec => []SignedVerifies
<1>1. IInv => SignedVerifies
    BY DEF IInv
<1>2. QED
    BY <1>1, Invariance, PTL

(* A valid verdict is about a signature made with the private key in       *)
(* memory, never with that of an earlier generation.                       *)
THEOREM ValidByCurrentKey == Spec => []ValidIsSound
<1>1. IInv => ValidIsSound
    BY DEF IInv
<1>2. QED
    BY <1>1, Invariance, PTL

-----------------------------------------------------------------------------
(* The screen implements the contract of a signature object.  Between two  *)
(* handlers there is no answer; while signature.bin is being saved, there  *)
(* is the one that sign gave.                                              *)

(* A step that changes neither the key nor a signature being saved.        *)
LEMMA ContractStutters ==
    ASSUME UNCHANGED <<privateKey, saving>>,
           saving = "signature.bin" => checked' = checked
    PROVE  UNCHANGED <<pair, answer>>
BY DEF pair, answer

(* A step that ends with nothing to save but keys, and keeps the key.      *)
LEMMA ContractOther ==
    ASSUME privateKey' = privateKey, saving' # "signature.bin"
    PROVE  Contract!Next
BY DEF Contract!Next, Contract!Other, pair, answer

(* A new pair is obtained, and Recreate loses it. *)
LEMMA ContractObtains ==
    ASSUME privateKey' \in Keys \cup {Nothing}, saving' # "signature.bin"
    PROVE  Contract!Next
<1> DEFINE P(k) == [alg |-> "Dilithium2", key |-> k]
<1>1. pair' = [pair EXCEPT !["screen"] = P(privateKey')] /\ answer' = Nothing
    BY DEF pair, answer
<1>2. CASE privateKey' \in Keys
    <2>1. P(privateKey') \in Contract!Pairs
        BY <1>2 DEF Contract!Pairs
    <2>2. Contract!Obtain("screen", P(privateKey'))
        BY <1>1 DEF Contract!Obtain
    <2>3. QED
        BY <2>1, <2>2 DEF Contract!Next
<1>3. CASE privateKey' = Nothing
    <2>1. Contract!Lose("screen")
        BY <1>1, <1>3 DEF Contract!Lose, Contract!Obtain
    <2>2. QED
        BY <2>1 DEF Contract!Next
<1>4. QED
    BY <1>2, <1>3

(* The button to sign is one Sign of the contract. *)
LEMMA ContractSigns ==
    ASSUME IInv, Sign
    PROVE  Contract!Next
<1> DEFINE x == content[selectedFileUri]
<1>1. x \in Data /\ privateKey # Nothing
    BY DEF Sign, IInv, TypeOK
<1>2. /\ checked' = [data |-> x, sig |-> Signed(privateKey, x)]
      /\ saving' = "signature.bin" /\ privateKey' = privateKey
    BY DEF Sign, Saves, sign, NewSignatureWith
<1>3. checked'.sig.signer = privateKey /\ checked'.sig.over = x
    BY <1>2 DEF Signed
<1> HIDE DEF x
<1>4. Contract!Sign("screen", x)
    BY <1>1, <1>2, <1>3 DEF Contract!Sign, pair, answer
<1>5. QED
    BY <1>1, <1>4 DEF Contract!Next

(* The application keeps the contract of the wrapper: the button signs     *)
(* with the pair that is in memory, never without one, and the signature   *)
(* on its way to signature.bin is by that pair until it is saved or given  *)
(* up, whatever fails in between.                                          *)
THEOREM Refinement == Spec => ContractSpec
<1>1. Init => Contract!Init
    BY DEF Init, Contract!Init, pair, answer
<1>2. ASSUME IInv, [Next]_vars
      PROVE  [Contract!Next]_<<pair, answer>>
    <2>1. CASE GenerateFails \/ SignFails \/ PublicKeySaved \/ PrivateKeySaved
               \/ SignatureSaved \/ SaveFails \/ SaveCloseFails
        BY <2>1, ContractOther
        DEF GenerateFails, SignFails, PublicKeySaved, PrivateKeySaved,
            SignatureSaved, SaveFails, SaveCloseFails, Saves, fields, progress
    <2>2. CASE \E k \in Keys : Generate(k)
        BY <2>2, ContractObtains DEF Generate, generate_keypair, Saves
    <2>3. CASE Recreate
        BY <2>3, ContractObtains DEF Recreate, Cleared, Saves
    <2>4. CASE Sign
        BY <1>2, <2>4, ContractSigns
    <2>5. CASE \/ \E d \in Documents : SelectFile(d)
               \/ SignWithoutKey \/ Opened \/ Verify \/ VerifyFails
               \/ DocumentChanges \/ UNCHANGED vars
        BY <2>5, ContractStutters
        DEF SelectFile, SignWithoutKey, Opened, Verify, VerifyFails,
            DocumentChanges, vars, fields, progress
    <2>6. QED
        BY <1>2, <2>1, <2>2, <2>3, <2>4, <2>5 DEF Next
<1>3. QED
    BY <1>1, <1>2, Invariance, PTL
    DEF Spec, ContractSpec, Contract!Spec
=============================================================================
