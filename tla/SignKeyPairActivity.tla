------------------------ MODULE SignKeyPairActivity ------------------------
(***************************************************************************)
(* The screen "Firmar con par de claves": it generates a key pair with     *)
(* liboqs, keeps it in memory and in two files, signs the selected         *)
(* document into signature.bin and verifies that file.  Nothing of it is   *)
(* loaded when the screen is created again, but signature.bin survives.    *)
(*                                                                         *)
(* A handler runs on the main thread to its end.  It is split where a file *)
(* is saved: it is opened, which truncates it, and then written; either    *)
(* may fail, and the process may die in between.                           *)
(***************************************************************************)
EXTENDS LiboqsSignature

CONSTANTS
    Documents,      \* the documents, by Uri
    Data,           \* what a document may contain
    Unreadable,     \* the content of a document that cannot be read
    Absent, Torn,   \* a file that does not exist, or was not written to its end
    Nothing         \* null

ASSUME NothingAssumption == Nothing \notin Keys \cup SignatureObject

VARIABLES
    content,        \* what each document contains
    local,          \* what each local file contains
    selectedFileUri, signature, publicKey, privateKey,
    saving,         \* the file being saved, or "none"
    opened,         \* whether it has been opened, and so truncated
    resultText,     \* the kind of message on the screen
    checked         \* history: what the message is about

LocalFiles == {"publicKey.bin", "privateKey.bin", "signature.bin"}

fields == <<selectedFileUri, signature, publicKey, privateKey>>

progress == <<saving, opened>>

vars == <<content, local, fields, progress, resultText, checked>>

Signatures == {Signed(k, x) : k \in KeyArrays, x \in Data}

-----------------------------------------------------------------------------

Init ==
    /\ content \in [Documents -> Data]
    /\ local = [f \in LocalFiles |-> Absent]
    /\ selectedFileUri = Nothing
    /\ signature = Nothing
    /\ publicKey = Nothing
    /\ privateKey = Nothing
    /\ saving = "none"
    /\ opened = FALSE
    /\ resultText = "algorithms"
    /\ checked = Nothing

(* The keys that something still refers to. *)
Known ==
    {publicKey, local["publicKey.bin"], local["privateKey.bin"]}
        \cup {k \in Keys : \E x \in Data : local["signature.bin"] = Signed(k, x)}

Says(text, about) == resultText' = text /\ checked' = about

(* saveToFile begins: the file is not opened yet. *)
Saves(f) == saving' = f /\ opened' = FALSE

(* A document is selected, which enables the button to sign.  The message  *)
(* on the screen stays.                                                    *)
SelectFile(d) ==
    /\ saving = "none"
    /\ selectedFileUri' = d
    /\ UNCHANGED <<content, local, signature, publicKey, privateKey, progress,
                   resultText, checked>>

-----------------------------------------------------------------------------

(* "Generar claves": k is a new pair. *)
Generate(k) ==
    /\ saving = "none"
    /\ k \notin Known
    /\ signature' = generate_keypair(k)
    /\ publicKey' = signature'.public_key
    /\ privateKey' = signature'.secret_key
    /\ Saves("publicKey.bin")
    /\ UNCHANGED <<content, local, selectedFileUri, resultText, checked>>

(* Slip: the public key is taken before the result code is tested. *)
GenerateFails_assigns ==
    /\ saving = "none"
    /\ signature' = NewSignature
    /\ \E k \in Keys : publicKey' = k
    /\ Says("error", Nothing)
    /\ UNCHANGED <<content, local, selectedFileUri, privateKey, progress>>

(* The native generation fails: the new object stays, the keys do not      *)
(* change.  (The constructor does not fail: the algorithm is enabled.)     *)
GenerateFails ==
    /\ saving = "none"
    /\ signature' = NewSignature
    /\ Says("error", Nothing)
    /\ UNCHANGED <<content, local, selectedFileUri, publicKey, privateKey,
                   progress>>

(* "Firmar archivo", before any key was generated. *)
SignWithoutKey ==
    /\ saving = "none"
    /\ selectedFileUri # Nothing
    /\ privateKey = Nothing
    /\ Says("no keys", Nothing)
    /\ UNCHANGED <<content, local, fields, progress>>

(* "Firmar archivo": the document is read and signed. *)
Sign ==
    /\ saving = "none"
    /\ selectedFileUri # Nothing
    /\ privateKey # Nothing
    /\ content[selectedFileUri] # Unreadable
    /\ signature' = NewSignatureWith(privateKey)
    /\ checked' = [data |-> content[selectedFileUri],
                   sig  |-> sign(signature', content[selectedFileUri])]
    /\ Saves("signature.bin")
    /\ UNCHANGED <<content, local, selectedFileUri, publicKey, privateKey,
                   resultText>>

(* The document cannot be read, or the native call fails. *)
SignFails ==
    /\ saving = "none"
    /\ selectedFileUri # Nothing
    /\ privateKey # Nothing
    /\ signature' = NewSignatureWith(privateKey)
    /\ Says("error", Nothing)
    /\ UNCHANGED <<content, local, selectedFileUri, publicKey, privateKey,
                   progress>>

-----------------------------------------------------------------------------

(* saveToFile: openFileOutput truncates. *)
Opened ==
    /\ saving # "none" /\ ~ opened
    /\ opened' = TRUE
    /\ local' = [local EXCEPT ![saving] = Torn]
    /\ UNCHANGED <<content, fields, saving, resultText, checked>>

(* publicKey.bin is written: next, privateKey.bin. *)
PublicKeySaved ==
    /\ saving = "publicKey.bin" /\ opened
    /\ local' = [local EXCEPT !["publicKey.bin"] = publicKey]
    /\ Saves("privateKey.bin")
    /\ UNCHANGED <<content, fields, resultText, checked>>

(* privateKey.bin is written: the message shows both keys. *)
PrivateKeySaved ==
    /\ saving = "privateKey.bin" /\ opened
    /\ local' = [local EXCEPT !["privateKey.bin"] = privateKey]
    /\ Saves("none")
    /\ Says("generated", Nothing)
    /\ UNCHANGED <<content, fields>>

(* signature.bin is written: the message shows the signature and publicKey. *)
SignatureSaved ==
    /\ saving = "signature.bin" /\ opened
    /\ local' = [local EXCEPT !["signature.bin"] = checked.sig]
    /\ Saves("none")
    /\ Says("signed", checked)
    /\ UNCHANGED <<content, fields>>

(* Slip: the failure is only logged. *)
SaveFails_silent ==
    /\ saving # "none"
    /\ Saves("none")
    /\ UNCHANGED <<content, local, fields, resultText, checked>>

(* Slip: the keys are shown although they could not be saved. *)
SaveFails_ignored ==
    /\ saving # "none"
    /\ Saves("none")
    /\ Says(IF saving = "signature.bin" THEN "error" ELSE "generated", Nothing)
    /\ UNCHANGED <<content, local, fields>>

(* The file cannot be opened, or the write fails: a file that was opened   *)
(* stays torn, and what is in memory has changed already.                  *)
SaveFails ==
    /\ saving # "none"
    /\ Saves("none")
    /\ Says("error", Nothing)
    /\ UNCHANGED <<content, local, fields>>

(* What is being saved. *)
Pending ==
    IF saving = "signature.bin" THEN checked.sig
    ELSE IF saving = "publicKey.bin" THEN publicKey ELSE privateKey

(* Everything is written, but the stream cannot be closed. *)
SaveCloseFails ==
    /\ saving # "none" /\ opened
    /\ local' = [local EXCEPT ![saving] = Pending]
    /\ Saves("none")
    /\ Says("error", Nothing)
    /\ UNCHANGED <<content, fields>>

-----------------------------------------------------------------------------

(* What "Verificar firma" needs: each of these missing is an exception. *)
Verifiable ==
    /\ selectedFileUri # Nothing
    /\ content[selectedFileUri] # Unreadable
    /\ local["signature.bin"] # Absent
    /\ signature # Nothing
    /\ publicKey # Nothing

(* "Verificar firma": a torn file is read as a signature that is not valid. *)
Verify ==
    /\ saving = "none"
    /\ Verifiable
    /\ LET x == content[selectedFileUri]
       IN  Says(IF verify(x, local["signature.bin"], publicKey)
                THEN "valid" ELSE "invalid",
                [data |-> x, sig |-> local["signature.bin"]])
    /\ UNCHANGED <<content, local, fields, progress>>

VerifyFails ==
    /\ saving = "none"
    /\ ~ Verifiable
    /\ Says("error", Nothing)
    /\ UNCHANGED <<content, local, fields, progress>>

-----------------------------------------------------------------------------

(* The memory of the screen is gone. *)
Cleared ==
    /\ selectedFileUri' = Nothing
    /\ signature' = Nothing
    /\ publicKey' = Nothing
    /\ privateKey' = Nothing
    /\ Saves("none")
    /\ Says("algorithms", Nothing)

(* The screen is created again between two handlers (a rotation, the back  *)
(* button and a new start), or the process dies within one (an Error that  *)
(* no handler catches included).                                           *)
Recreate ==
    /\ Cleared
    /\ UNCHANGED <<content, local>>

(* Other applications change, delete or restore a document. *)
DocumentChanges ==
    /\ \E d \in Documents, x \in Data \cup {Unreadable} :
            content' = [content EXCEPT ![d] = x]
    /\ UNCHANGED <<local, fields, progress, resultText, checked>>

Next ==
    \/ \E d \in Documents : SelectFile(d)
    \/ \E k \in Keys : Generate(k)
    \/ GenerateFails
    \/ SignWithoutKey
    \/ Sign
    \/ SignFails
    \/ Opened
    \/ PublicKeySaved
    \/ PrivateKeySaved
    \/ SignatureSaved
    \/ SaveFails
    \/ SaveCloseFails
    \/ Verify
    \/ VerifyFails
    \/ Recreate
    \/ DocumentChanges

Spec == Init /\ [][Next]_vars

-----------------------------------------------------------------------------
Checked == [data : Data, sig : Signatures \cup {Torn}]

(* Type invariant. *)
TypeOK ==
    /\ content \in [Documents -> Data \cup {Unreadable}]
    /\ local \in [LocalFiles -> Keys \cup Signatures \cup {Absent, Torn}]
    /\ local["publicKey.bin"] \in Keys \cup {Absent, Torn}
    /\ local["privateKey.bin"] \in Keys \cup {Absent, Torn}
    /\ local["signature.bin"] \in Signatures \cup {Absent, Torn}
    /\ selectedFileUri \in Documents \cup {Nothing}
    /\ signature \in SignatureObject \cup {Nothing}
    /\ publicKey \in Keys \cup {Nothing}
    /\ privateKey \in Keys \cup {Nothing}
    /\ saving \in LocalFiles \cup {"none"}
    /\ opened \in BOOLEAN
    /\ resultText \in {"algorithms", "generated", "no keys", "error",
                       "signed", "valid", "invalid"}
    /\ checked \in Checked \cup {Nothing}

(* The two keys in memory are always of one generation, whatever failed,   *)
(* and with them there is an object to verify with: the handler that signs *)
(* shows publicKey after signature.bin was overwritten and tests only      *)
(* privateKey.                                                             *)
KeysBelongTogether ==
    /\ publicKey = privateKey
    /\ publicKey # Nothing => signature # Nothing

(* When the screen shows new keys, both files hold them: a failure of      *)
(* either write is never hidden.                                           *)
GeneratedIsSaved ==
    resultText = "generated" /\ saving = "none" =>
        /\ local["publicKey.bin"] = publicKey
        /\ local["privateKey.bin"] = privateKey

(* A signature that was announced is in signature.bin, and verifies with   *)
(* the public key on the screen over what was read from the document.      *)
SignedVerifies ==
    resultText = "signed" /\ saving = "none" =>
        /\ local["signature.bin"] = checked.sig
        /\ verify(checked.data, checked.sig, publicKey)

(* "Firma válida" on an idle screen: the file is still the one that was    *)
(* verified, and it was made with the private key that is in memory: not   *)
(* with a pair generated before or after, in this process or an earlier    *)
(* one.                                                                    *)
ValidIsSound ==
    resultText = "valid" /\ saving = "none" =>
        /\ privateKey # Nothing
        /\ local["signature.bin"] = Signed(privateKey, checked.data)

(* The key in memory, as the pair of one object, and the signature that is *)
(* being saved, as the answer of the call that made it.                    *)
pair == [o \in {"screen"} |-> [alg |-> "Dilithium2", key |-> privateKey]]

answer ==
    IF saving # "signature.bin" THEN Nothing
    ELSE [of |-> "screen",
          signature |-> [by |-> checked.sig.signer, alg |-> "Dilithium2",
                         over |-> checked.sig.over]]

(* The three fields behave as one signature object that keeps the contract *)
(* of the wrapper, through every failed call, torn file and re-creation:   *)
(* the screen signs only with a pair that was generated and not lost since *)
(* (the wrapper itself signs without one), and the signature that is being *)
(* saved is the one that call returned.                                    *)
Contract == INSTANCE SignatureContract WITH
    Objects <- {"screen"},
    Algorithms <- {"Dilithium2"},
    NoPair <- [alg |-> "Dilithium2", key |-> Nothing],
    NoAnswer <- Nothing

ContractSpec == Contract!Spec
=============================================================================
