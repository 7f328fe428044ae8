---------------------------- MODULE Pkcs12Store ----------------------------
(***************************************************************************)
(* The PKCS#12 file of PqcCertificateManager: load or create, import,      *)
(* store, list, get and sign.  Every handler runs on the main thread, so   *)
(* one import is in progress at a time; what can come between its steps is *)
(* a failed write, the death of the process and the clock.                 *)
(*                                                                         *)
(* storeKeyStore opens the file with MODE_PRIVATE, which truncates it, and *)
(* only then writes: the file is "torn" from the truncation to the end of  *)
(* the write.  The fields at and under of an entry, the field before of a  *)
(* write and the variable acked are history: no guard reads them.          *)
(***************************************************************************)
EXTENDS CertValidation

CONSTANTS
    Aliases,
    Passwords,
    NoEntry     \* no entry under an alias

VARIABLES
    file,       \* the file keystore.p12
    writing,    \* the write in progress: {} or one element
    now,        \* the clock of the device
    acked       \* history: the last import the caller was told succeeded
                \*          ({} or one element; an import that starts clears it)

storeVars == <<file, writing, now, acked>>

Entry == [key : Keys, cert : Certs, at : Times, under : Passwords]

ASSUME NoEntryAssumption == NoEntry \notin Entry

KeyStore == [Aliases -> Entry \cup {NoEntry}]

Empty == [a \in Aliases |-> NoEntry]

File == [state : {"absent", "torn", "ok"}, pwd : Passwords, entries : KeyStore]

Write == [pwd : Passwords, alias : Aliases, entry : Entry, ks : KeyStore,
          before : File]

Credential == [pwd : Passwords, alias : Aliases, entry : Entry]

-----------------------------------------------------------------------------

(* KeyStore.load throws an IOException on a missing file, on a torn one    *)
(* and on a password whose MAC does not match: all three give an empty     *)
(* key store.                                                              *)
Loaded(f, p) == IF f.state = "ok" /\ f.pwd = p THEN f.entries ELSE Empty

loadOrCreateKeyStore(p) == Loaded(file, p)

listCertificates(p) ==
    {a \in Aliases : loadOrCreateKeyStore(p)[a] # NoEntry}

(* NoEntry stands for the exception of a missing alias. *)
getKeyAndCertificate(a, p) == loadOrCreateKeyStore(p)[a]

(* For an alias in listCertificates(p) with a key that is Usable; it       *)
(* throws for any other.  The certificate is not checked.                  *)
signDataWithAlias(a, p, data) ==
    Signature(getKeyAndCertificate(a, p).key, data)

(* KeyStore.PrivateKeyEntry compares the names of the two algorithms and   *)
(* never the keys.                                                         *)
PrivateKeyEntryFits(k, c) == AlgOf[k] = AlgOf[c.key]

(* The import passes its checks; otherwise it throws with nothing changed. *)
Importable(c, k) ==
    /\ isOverallAcceptableForSigning(validateCertificate(c, now))
    /\ PrivateKeyEntryFits(k, c)

(* Slip: the certificate chain of the entry is left out. *)
PrivateKeyEntry_noChain(p, c, k) ==
    [key |-> k, cert |-> NoEntry, at |-> now, under |-> p]

(* What the import stores: the entry, in the key store that was loaded. *)
PrivateKeyEntry(p, c, k) ==
    [key |-> k, cert |-> c, at |-> now, under |-> p]

setEntry(p, a, e) == [loadOrCreateKeyStore(p) EXCEPT ![a] = e]

(* Slip: only the imported entry reaches the file. *)
Stored_lastOnly(w) ==
    [state |-> "ok", pwd |-> w.pwd,
     entries |-> [Empty EXCEPT ![w.alias] = w.entry]]

(* Slip: entries told apart by their key pair and not by their alias. *)
Stored_byKey(w) ==
    [state |-> "ok", pwd |-> w.pwd,
     entries |-> [a \in Aliases |->
                    IF w.ks[a] # NoEntry /\ w.ks[a].key = w.entry.key
                    THEN w.entry ELSE w.ks[a]]]

(* The file when ks.store has returned. *)
Stored(w) == [state |-> "ok", pwd |-> w.pwd, entries |-> w.ks]

-----------------------------------------------------------------------------

Init ==
    /\ \E p \in Passwords :
            file = [state |-> "absent", pwd |-> p, entries |-> Empty]
    /\ writing = {}
    /\ now = 0
    /\ acked = {}

(* importCredentialFromPemAndKey up to the truncation of the file. *)
ImportStart(p, a, c, k) ==
    LET e == PrivateKeyEntry(p, c, k) IN
    /\ writing = {}
    /\ Importable(c, k)
    /\ writing' = {[pwd |-> p, alias |-> a, entry |-> e,
                    ks |-> setEntry(p, a, e), before |-> file]}
    /\ file' = [file EXCEPT !.state = "torn", !.entries = Empty]
    /\ acked' = {}
    /\ UNCHANGED now

(* ks.store returns, the stream is closed and the import returns normally. *)
StoreFinish ==
    \E w \in writing :
        /\ file' = Stored(w)
        /\ acked' = {[pwd |-> w.pwd, alias |-> w.alias, entry |-> w.entry]}
        /\ writing' = {}
        /\ UNCHANGED now

(* Slip: the exception of ks.store is swallowed. *)
StoreInterrupted_swallowed ==
    \E w \in writing :
        /\ writing' = {}
        /\ acked' = {[pwd |-> w.pwd, alias |-> w.alias, entry |-> w.entry]}
        /\ UNCHANGED <<file, now>>

(* ks.store throws (a full disk) and the import throws, or the process     *)
(* dies: the file, which survives, stays as the truncation left it.        *)
StoreInterrupted ==
    /\ writing # {}
    /\ writing' = {}
    /\ UNCHANGED <<file, now, acked>>

Tick ==
    /\ now < MaxTime
    /\ now' = now + 1
    /\ UNCHANGED <<file, writing, acked>>

Next ==
    \/ \E p \in Passwords, a \in Aliases, c \in Certs, k \in Keys :
            ImportStart(p, a, c, k)
    \/ StoreFinish
    \/ StoreInterrupted
    \/ Tick

Spec == Init /\ [][Next]_storeVars

-----------------------------------------------------------------------------
(* Type invariant: the shape of the file, of the write in progress and of  *)
(* the history; loading never answers anything but a whole key store.      *)
TypeOK ==
    /\ file \in File
    /\ writing \in SUBSET Write
    /\ \A v, w \in writing : v = w
    /\ now \in Times
    /\ acked \in SUBSET Credential

(* A vetted entry: a certificate that may sign, current when it was        *)
(* imported, with a key of the same algorithm, under its own password.     *)
Vetted(e, p) ==
    /\ SigningCert(e.cert)
    /\ isCurrentlyValid(e.cert, e.at)
    /\ AlgOf[e.key] = AlgOf[e.cert.key]
    /\ e.at <= now
    /\ e.under = p

(* Whatever sequence of imports, interruptions and passwords led here, the *)
(* file and the write in progress hold vetted entries only, and none that  *)
(* was imported under a password other than the one that opens it          *)
(* (importCredentialFromPemAndKey loads before it stores: a load that kept *)
(* entries of another password would break this).                          *)
EntriesVetted ==
    /\ \A a \in Aliases : file.entries[a] # NoEntry =>
            Vetted(file.entries[a], file.pwd)
    /\ \A w \in writing, a \in Aliases : w.ks[a] # NoEntry =>
            Vetted(w.ks[a], w.pwd)

(* During a write the file is torn, and what is being written is what the  *)
(* password opened before the truncation plus the imported entry: nothing  *)
(* is dropped or carried over between loading and storing.                 *)
WriteAddsOneEntry ==
    \A w \in writing :
        /\ file.state = "torn"
        /\ w.ks = [Loaded(w.before, w.pwd) EXCEPT ![w.alias] = w.entry]

(* An import that was reported as done is in the file: until another one   *)
(* starts, its password finds exactly its key and certificate under its    *)
(* alias, also after a restart of the process.                             *)
AckedIsReadable ==
    \A r \in acked : getKeyAndCertificate(r.alias, r.pwd) = r.entry

(* The passwords the file opens for, seen at the boundaries of handlers:   *)
(* during a write, what it opened for before the truncation.               *)
Opens ==
    [p \in Passwords |->
        IF writing = {} THEN Loaded(file, p)
        ELSE Loaded((CHOOSE w \in writing : TRUE).before, p)]

(* A credential is lost only by a write: one that is interrupted, which    *)
(* leaves nothing readable at all, or one under another password.  An      *)
(* import that completes under the password of the file loses nothing.     *)
LossNeedsInterruptionOrOtherPassword ==
    [][\A p \in Passwords, a \in Aliases :
            Opens[p][a] # NoEntry /\ Opens'[p][a] = NoEntry =>
                \E w \in writing : w.pwd # p \/ file'.state = "torn"]_storeVars

(* The store implements the vault: an import is one Put, an interrupted    *)
(* write is Forget, and truncating and writing are invisible.              *)
Vault == INSTANCE CredentialVault
            WITH opens <- Opens, Credentials <- Entry

VaultSpec == Vault!Spec

(* "Si existe un keystore lo abre y si no crea uno nuevo": when there is a *)
(* key store, an import adds to it.  It does not when the password is      *)
(* another one: the existing store is replaced.                            *)
ExistingIsOpened ==
    \A w \in writing : w.before.state = "ok" =>
        \A a \in Aliases : w.before.entries[a] # NoEntry => w.ks[a] # NoEntry
=============================================================================
