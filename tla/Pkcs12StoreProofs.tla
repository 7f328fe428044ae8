-------------------------- MODULE Pkcs12StoreProofs --------------------------
(***************************************************************************)
(* Theorems about Pkcs12Store, for every set of keys, certificates,        *)
(* aliases and passwords and every bound on the clock.                     *)
(***************************************************************************)
EXTENDS Pkcs12Store, TLAPS

(* The inductive invariant.  EntriesVetted alone is not inductive: a write *)
(* that finishes moves its key store into the file.                        *)
IInv == TypeOK /\ EntriesVetted /\ WriteAddsOneEntry /\ AckedIsReadable

(* Loading a well-formed file gives a well-formed key store.               *)
LEMMA LoadedType ==
    ASSUME NEW f \in File, NEW p
    PROVE  Loaded(f, p) \in KeyStore
BY DEF Loaded, File, KeyStore, Empty

(* A certificate that passes the import checks is vetted from then on.     *)
LEMMA ImportableIsVetted ==
    ASSUME NEW c \in Certs, NEW k, NEW p, now \in Times, Importable(c, k)
    PROVE  Vetted([key |-> k, cert |-> c, at |-> now, under |-> p], p)
<1>1. c.keyUsage.present \in BOOLEAN
    BY CertsAssumption DEF Certificate
<1>2. isOverallAcceptableForSigning(validateCertificate(c, now))
      /\ AlgOf[k] = AlgOf[c.key]
    BY DEF Importable, PrivateKeyEntryFits
<1>3. SigningCert(c) /\ isCurrentlyValid(c, now)
    BY <1>1, <1>2
    DEF isOverallAcceptableForSigning, validateCertificate, isEndEntity,
        SigningCert, isCurrentlyValid
<1>4. now <= now
    BY TimeAssumption DEF Times
<1>5. QED
    BY <1>2, <1>3, <1>4 DEF Vetted

(* The initial states satisfy the inductive invariant.                     *)
LEMMA InitIInv == Init => IInv
<1> SUFFICES ASSUME Init PROVE IInv
    OBVIOUS
<1>1. TypeOK
    BY TimeAssumption
    DEF Init, TypeOK, File, KeyStore, Empty, Times
<1>2. EntriesVetted
    BY DEF Init, EntriesVetted, Empty
<1>3. WriteAddsOneEntry /\ AckedIsReadable
    BY DEF Init, WriteAddsOneEntry, AckedIsReadable
<1>4. QED
    BY <1>1, <1>2, <1>3 DEF IInv

(* Starting an import keeps it: the new entry is vetted, the rest was loaded. *)
LEMMA ImportStartIInv ==
    ASSUME IInv, NEW p \in Passwords, NEW a \in Aliases, NEW c \in Certs,
           NEW k \in Keys, ImportStart(p, a, c, k)
    PROVE  IInv'
<1> DEFINE e == [key |-> k, cert |-> c, at |-> now, under |-> p]
           ks == [loadOrCreateKeyStore(p) EXCEPT ![a] = e]
           w  == [pwd |-> p, alias |-> a, entry |-> e, ks |-> ks,
                  before |-> file]
<1>1. /\ writing' = {w}
      /\ file' = [file EXCEPT !.state = "torn", !.entries = Empty]
      /\ acked' = {} /\ now' = now
      /\ Importable(c, k)
    BY DEF ImportStart, PrivateKeyEntry, setEntry
<1>2. file \in File /\ now \in Times /\ e \in Entry
    BY DEF IInv, TypeOK, Entry
<1>3. loadOrCreateKeyStore(p) \in KeyStore
    BY <1>2, LoadedType DEF loadOrCreateKeyStore
<1>4. ks \in KeyStore
    <2> HIDE DEF e
    <2> QED
        BY <1>2, <1>3 DEF KeyStore
<1>5. TypeOK'
    <2>1. w \in Write
        <3> HIDE DEF e, ks
        <3> QED
            BY <1>2, <1>4 DEF Write
    <2>2. file' \in File
        BY <1>1, <1>2 DEF File, KeyStore, Empty
    <2> HIDE DEF w
    <2>3. QED
        BY <1>1, <1>2, <2>1, <2>2 DEF TypeOK
<1>6. EntriesVetted'
    <2>1. Vetted(e, p)
        BY <1>1, <1>2, ImportableIsVetted
    <2>2. ASSUME NEW x \in Aliases, ks[x] # NoEntry
          PROVE  Vetted(ks[x], p)
        <3>1. CASE x = a
            BY <1>3, <2>1, <3>1 DEF KeyStore
        <3>2. CASE x # a
            <4>1. ks[x] = loadOrCreateKeyStore(p)[x]
                BY <1>3, <3>2 DEF KeyStore
            <4>2. file.pwd = p /\ ks[x] = file.entries[x]
                BY <2>2, <4>1 DEF loadOrCreateKeyStore, Loaded, Empty
            <4>3. QED
                BY <2>2, <4>2 DEF IInv, EntriesVetted
        <3>3. QED
            BY <3>1, <3>2
    <2>3. ASSUME NEW x \in Aliases PROVE file'.entries[x] = NoEntry
        BY <1>1, <1>2 DEF File, Empty
    <2>4. w.ks = ks /\ w.pwd = p
        OBVIOUS
    <2> HIDE DEF e, ks, w
    <2>5. QED
        BY <1>1, <2>2, <2>3, <2>4 DEF EntriesVetted, Vetted
<1>7. WriteAddsOneEntry'
    BY <1>1, <1>2 DEF WriteAddsOneEntry, loadOrCreateKeyStore, Loaded, File
<1>8. AckedIsReadable'
    BY <1>1 DEF AckedIsReadable
<1>9. QED
    BY <1>5, <1>6, <1>7, <1>8 DEF IInv

(* Finishing a write keeps it: what was written is in the file.            *)
LEMMA StoreFinishIInv == IInv /\ StoreFinish => IInv'
<1> SUFFICES ASSUME IInv, StoreFinish PROVE IInv'
    OBVIOUS
<1>1. PICK w \in writing :
        /\ file' = [state |-> "ok", pwd |-> w.pwd, entries |-> w.ks]
        /\ acked' = {[pwd |-> w.pwd, alias |-> w.alias, entry |-> w.entry]}
        /\ writing' = {}
        /\ now' = now
    BY DEF StoreFinish, Stored
<1>2. w \in Write /\ now \in Times
    BY DEF IInv, TypeOK
<1>3. TypeOK'
    BY <1>1, <1>2 DEF TypeOK, Write, File, Credential
<1>4. EntriesVetted'
    BY <1>1 DEF IInv, EntriesVetted, Vetted
<1>5. WriteAddsOneEntry'
    BY <1>1 DEF WriteAddsOneEntry
<1>6. AckedIsReadable'
    <2>1. w.ks = [Loaded(w.before, w.pwd) EXCEPT ![w.alias] = w.entry]
        BY DEF IInv, WriteAddsOneEntry
    <2>2. Loaded(w.before, w.pwd) \in KeyStore
        BY <1>2, LoadedType DEF Write
    <2>3. w.ks[w.alias] = w.entry
        BY <1>2, <2>1, <2>2 DEF Write, KeyStore
    <2>4. QED
        BY <1>1, <2>3
        DEF AckedIsReadable, getKeyAndCertificate, loadOrCreateKeyStore, Loaded
<1>7. QED
    BY <1>3, <1>4, <1>5, <1>6 DEF IInv

(* Interruption, the clock and stuttering keep it.                         *)
LEMMA QuietIInv ==
    IInv /\ (StoreInterrupted \/ Tick \/ UNCHANGED storeVars) => IInv'
<1>1. ASSUME IInv, StoreInterrupted PROVE IInv'
    BY <1>1
    DEF IInv, StoreInterrupted, TypeOK, EntriesVetted, Vetted,
        WriteAddsOneEntry, AckedIsReadable, getKeyAndCertificate,
        loadOrCreateKeyStore
<1>2. ASSUME IInv, Tick PROVE IInv'
    <2>1. /\ now \in Times /\ now' = now + 1 /\ now < MaxTime
          /\ UNCHANGED <<file, writing, acked>>
        BY <1>2 DEF Tick, IInv, TypeOK
    <2>2. now' \in Times
        BY <2>1, TimeAssumption DEF Times
    <2>3. TypeOK'
        BY <1>2, <2>1, <2>2 DEF IInv, TypeOK
    <2>4. ASSUME NEW e, NEW p, e.at \in Times, Vetted(e, p)
          PROVE  Vetted(e, p)'
        BY <2>1, <2>4, TimeAssumption DEF Vetted, Times
    <2>5. EntriesVetted'
        <3>1. ASSUME NEW a \in Aliases, file.entries[a] # NoEntry
              PROVE  Vetted(file.entries[a], file.pwd)'
            <4>1. file.entries[a].at \in Times
                BY <1>2, <3>1 DEF IInv, TypeOK, File, KeyStore, Entry
            <4>2. Vetted(file.entries[a], file.pwd)
                BY <1>2, <3>1 DEF IInv, EntriesVetted
            <4>3. QED
                BY <2>1, <2>4, <4>1, <4>2 DEF Vetted
        <3>2. ASSUME NEW w \in writing, NEW a \in Aliases, w.ks[a] # NoEntry
              PROVE  Vetted(w.ks[a], w.pwd)'
            <4>1. w.ks[a].at \in Times
                BY <1>2, <3>2 DEF IInv, TypeOK, Write, KeyStore, Entry
            <4>2. Vetted(w.ks[a], w.pwd)
                BY <1>2, <3>2 DEF IInv, EntriesVetted
            <4>3. QED
                BY <2>1, <2>4, <4>1, <4>2 DEF Vetted
        <3>3. QED
            BY <2>1, <3>1, <3>2 DEF EntriesVetted
    <2>6. WriteAddsOneEntry' /\ AckedIsReadable'
        BY <1>2, <2>1
        DEF IInv, WriteAddsOneEntry, AckedIsReadable, getKeyAndCertificate,
            loadOrCreateKeyStore
    <2>7. QED
        BY <2>3, <2>5, <2>6 DEF IInv
<1>3. ASSUME IInv, UNCHANGED storeVars PROVE IInv'
    BY <1>3
    DEF IInv, storeVars, TypeOK, EntriesVetted, Vetted, WriteAddsOneEntry,
        AckedIsReadable, getKeyAndCertificate, loadOrCreateKeyStore
<1>4. QED
    BY <1>1, <1>2, <1>3

(* The invariant is preserved by every step: one step per action of Next. *)
LEMMA StepIInv == IInv /\ [Next]_storeVars => IInv'
<1> SUFFICES ASSUME IInv, [Next]_storeVars PROVE IInv'
    OBVIOUS
<1>1. ASSUME NEW p \in Passwords, NEW a \in Aliases, NEW c \in Certs,
             NEW k \in Keys, ImportStart(p, a, c, k)
      PROVE  IInv'
    BY <1>1, ImportStartIInv
<1>2. CASE StoreFinish
    BY <1>2, StoreFinishIInv
<1>3. CASE StoreInterrupted \/ Tick \/ UNCHANGED storeVars
    BY <1>3, QuietIInv
<1>4. QED
    BY <1>1, <1>2, <1>3 DEF Next

(* The inductive invariant holds in every reachable state.                *)
THEOREM Invariance == Spec => []IInv
BY InitIInv, StepIInv, PTL DEF Spec
(* The shape of the state is kept by every handler (PqcCertificateManager). *)
THEOREM TypeCorrect == Spec => []TypeOK
BY Invariance, PTL DEF IInv

(* The file and the write in progress hold vetted entries only, each under *)
(* the password it was imported with.                                      *)
THEOREM OnlyVetted == Spec => []EntriesVetted
BY Invariance, PTL DEF IInv

(* A write is what was loaded plus one entry.                              *)
THEOREM WritesAddOne == Spec => []WriteAddsOneEntry
BY Invariance, PTL DEF IInv

(* An acknowledged import is readable until the next one starts.           *)
THEOREM AckedStays == Spec => []AckedIsReadable
BY Invariance, PTL DEF IInv

-----------------------------------------------------------------------------
(* What Opens is on the two sides of a step.                               *)

(* Between handlers it is what the file opens for.                         *)
LEMMA OpensIdle ==
    ASSUME writing = {}
    PROVE  Opens = [p \in Passwords |-> Loaded(file, p)]
BY DEF Opens

(* During a write it is what the file opened for before.                   *)
LEMMA OpensWriting ==
    ASSUME TypeOK, NEW w \in writing
    PROVE  Opens = [p \in Passwords |-> Loaded(w.before, p)]
<1>1. (CHOOSE v \in writing : TRUE) = w
    BY DEF TypeOK
<1>2. QED
    BY <1>1 DEF Opens

(* Starting an import is invisible.                                        *)
LEMMA ImportStartOpens ==
    ASSUME IInv, IInv', NEW p \in Passwords, NEW a \in Aliases,
           NEW c \in Certs, NEW k \in Keys, ImportStart(p, a, c, k)
    PROVE  Opens' = Opens
<1>1. writing = {}
    BY DEF ImportStart
<1>2. PICK w \in writing' : w.before = file
    BY DEF ImportStart
<1>3. (CHOOSE v \in writing' : TRUE) = w
    BY <1>2 DEF IInv, TypeOK
<1>4. writing' # {}
    BY <1>2
<1>5. Opens' = [q \in Passwords |-> Loaded(file, q)]
    BY <1>2, <1>3, <1>4 DEF Opens, Loaded
<1>6. QED
    BY <1>1, <1>5 DEF Opens

(* Finishing the write is one Put.                                         *)
LEMMA StoreFinishOpens ==
    ASSUME IInv, StoreFinish
    PROVE  \E w \in writing : Vault!Put(w.pwd, w.alias, w.entry)
<1>1. PICK w \in writing :
        /\ file' = [state |-> "ok", pwd |-> w.pwd, entries |-> w.ks]
        /\ writing' = {}
    BY DEF StoreFinish, Stored
<1>2. w \in Write
    BY DEF IInv, TypeOK
<1>3. Opens = [p \in Passwords |-> Loaded(w.before, p)]
    BY OpensWriting DEF IInv
<1>4. Opens' = [q \in Passwords |-> IF q = w.pwd THEN w.ks ELSE Empty]
    BY <1>1 DEF Opens, Loaded
<1>5. w.ks = [Opens[w.pwd] EXCEPT ![w.alias] = w.entry]
    BY <1>2, <1>3 DEF IInv, WriteAddsOneEntry, Write
<1>6. Vault!Put(w.pwd, w.alias, w.entry)
    BY <1>4, <1>5 DEF Vault!Put, Vault!Empty, Empty
<1>7. QED
    BY <1>6

(* An interrupted write forgets everything.                                *)
LEMMA StoreInterruptedOpens ==
    ASSUME IInv, StoreInterrupted
    PROVE  Vault!Forget
<1>1. file.state = "torn" /\ writing' = {} /\ file' = file
    BY DEF StoreInterrupted, IInv, WriteAddsOneEntry
<1>2. QED
    BY <1>1 DEF Opens, Loaded, Vault!Forget, Vault!Empty, Empty

(* A step that leaves the file and the write alone is invisible.           *)
LEMMA QuietOpens ==
    ASSUME UNCHANGED <<file, writing>>
    PROVE  Opens' = Opens
BY DEF Opens, Loaded

(* Every step of the store is a step of the vault or invisible to it.      *)
LEMMA StepRefines ==
    ASSUME IInv, IInv', [Next]_storeVars
    PROVE  [Vault!Next]_Opens
<1>1. ASSUME NEW p \in Passwords, NEW a \in Aliases, NEW c \in Certs,
             NEW k \in Keys, ImportStart(p, a, c, k)
      PROVE  [Vault!Next]_Opens
    BY <1>1, ImportStartOpens
<1>2. CASE StoreFinish
    <2>1. PICK w \in writing : Vault!Put(w.pwd, w.alias, w.entry)
        BY <1>2, StoreFinishOpens
    <2>2. w \in Write
        BY DEF IInv, TypeOK
    <2>3. QED
        BY <2>1, <2>2 DEF Vault!Next, Write
<1>3. CASE StoreInterrupted
    BY <1>3, StoreInterruptedOpens DEF Vault!Next
<1>4. CASE Tick \/ UNCHANGED storeVars
    BY <1>4, QuietOpens DEF Tick, storeVars
<1>5. QED
    BY <1>1, <1>2, <1>3, <1>4 DEF Next

(* The store implements the vault: whatever the interleaving of imports,   *)
(* interruptions and the clock, its callers see whole Puts and Forgets.    *)
THEOREM Refinement == Spec => VaultSpec
<1>1. Init => Vault!Init
    BY DEF Init, Vault!Init, Vault!Empty, Empty, Opens, Loaded
<1>2. IInv /\ IInv' /\ [Next]_storeVars => [Vault!Next]_Opens
    BY StepRefines
<1>3. QED
    BY <1>1, <1>2, Invariance, PTL DEF Spec, VaultSpec, Vault!Spec

(* A credential is lost only to an interrupted write or to a write under   *)
(* another password.                                                       *)
THEOREM LossesExplained == Spec => LossNeedsInterruptionOrOtherPassword
<1> DEFINE Explained ==
        \A p \in Passwords, a \in Aliases :
            Opens[p][a] # NoEntry /\ Opens'[p][a] = NoEntry =>
                \E w \in writing : w.pwd # p \/ file'.state = "torn"
<1>1. ASSUME IInv, IInv', [Next]_storeVars
      PROVE  [Explained]_storeVars
    <2>1. ASSUME NEW p \in Passwords, NEW a \in Aliases, NEW c \in Certs,
                 NEW k \in Keys, ImportStart(p, a, c, k)
          PROVE  Explained
        BY <1>1, <2>1, ImportStartOpens
    <2>2. CASE StoreFinish
        <3>1. PICK w \in writing : Vault!Put(w.pwd, w.alias, w.entry)
            BY <1>1, <2>2, StoreFinishOpens
        <3>2. w \in Write
            BY <1>1 DEF IInv, TypeOK
        <3>3. Opens[w.pwd] \in KeyStore
            <4>1. Opens[w.pwd] = Loaded(w.before, w.pwd)
                BY <1>1, <3>2, OpensWriting DEF IInv, Write
            <4>2. QED
                BY <3>2, <4>1, LoadedType DEF Write
        <3>4. Opens'[w.pwd] = [Opens[w.pwd] EXCEPT ![w.alias] = w.entry]
            BY <3>1, <3>2 DEF Vault!Put, Write
        <3>5. w.entry # NoEntry
            BY <3>2, NoEntryAssumption DEF Write
        <3>6. ASSUME NEW a \in Aliases, Opens[w.pwd][a] # NoEntry
              PROVE  Opens'[w.pwd][a] # NoEntry
            BY <3>3, <3>4, <3>5, <3>6 DEF KeyStore
        <3>7. QED
            BY <3>6
    <2>3. CASE StoreInterrupted
        BY <1>1, <2>3 DEF StoreInterrupted, IInv, WriteAddsOneEntry
    <2>4. CASE Tick
        BY <2>4, QuietOpens DEF Tick
    <2>5. QED
        BY <1>1, <2>1, <2>2, <2>3, <2>4 DEF Next
<1>2. QED
    BY <1>1, Invariance, PTL
    DEF Spec, LossNeedsInterruptionOrOtherPassword

(* What a write does to the store there was: under its password it adds to *)
(* it; under another one nothing of it is left.                            *)
AddsOrReplaces ==
    \A w \in writing : w.before.state = "ok" =>
        \A a \in Aliases \ {w.alias} :
            w.ks[a] = IF w.pwd = w.before.pwd THEN w.before.entries[a]
                      ELSE NoEntry

THEOREM WritesAddOrReplace == Spec => []AddsOrReplaces
<1>1. ASSUME IInv, NEW w \in writing, w.before.state = "ok",
             NEW a \in Aliases \ {w.alias}
      PROVE  w.ks[a] = IF w.pwd = w.before.pwd THEN w.before.entries[a]
                       ELSE NoEntry
    <2>1. w \in Write
        BY <1>1 DEF IInv, TypeOK
    <2>2. Loaded(w.before, w.pwd) \in KeyStore
        BY <2>1, LoadedType DEF Write
    <2>3. w.ks[a] = Loaded(w.before, w.pwd)[a]
        BY <1>1, <2>1, <2>2 DEF IInv, WriteAddsOneEntry, KeyStore
    <2>4. QED
        BY <1>1, <2>3 DEF Loaded, Empty
<1>2. IInv => AddsOrReplaces
    BY <1>1 DEF AddsOrReplaces
<1>3. QED
    BY <1>2, Invariance, PTL

(* "Si existe un keystore lo abre" holds of every behaviour in which each  *)
(* import over an existing file uses the password of that file: another    *)
(* password is all that stands between the code and its comment.           *)
THEOREM OpenedUnderItsPassword ==
    Spec /\ [](\A w \in writing : w.before.state = "ok" =>
                            w.pwd = w.before.pwd)
             => []ExistingIsOpened
<1>1. ASSUME IInv, AddsOrReplaces, NEW w \in writing,
             w.before.state = "ok", w.pwd = w.before.pwd, NEW a \in Aliases,
             w.before.entries[a] # NoEntry
      PROVE  w.ks[a] # NoEntry
    <2>1. CASE a # w.alias
        BY <1>1, <2>1 DEF AddsOrReplaces
    <2>2. CASE a = w.alias
        <3>1. w \in Write /\ Loaded(w.before, w.pwd) \in KeyStore
            BY <1>1, LoadedType DEF IInv, TypeOK, Write
        <3>2. w.ks[a] = w.entry /\ w.entry \in Entry
            BY <1>1, <2>2, <3>1
            DEF IInv, WriteAddsOneEntry, KeyStore, Write
        <3>3. QED
            BY <3>2, NoEntryAssumption
    <2>3. QED
        BY <2>1, <2>2
<1>2. ASSUME IInv, AddsOrReplaces,
             \A w \in writing : w.before.state = "ok" =>
                w.pwd = w.before.pwd
      PROVE  ExistingIsOpened
    BY <1>1, <1>2 DEF ExistingIsOpened
<1>3. QED
    BY <1>2, Invariance, WritesAddOrReplace, PTL
=============================================================================
