-------------------------- MODULE CredentialVault --------------------------
(***************************************************************************)
(* What the PKCS#12 store of PqcCertificateManager promises its callers,   *)
(* with no file, no partial write and no clock.  A password opens a set of *)
(* credentials, one per alias.  A credential is put under one password as  *)
(* a whole, next to everything that password already opened; from then on  *)
(* no other password opens anything, because the application keeps one     *)
(* store.  The store may also be forgotten as a whole.  Nothing else ever  *)
(* happens: no credential changes, moves to another alias or another       *)
(* password, or disappears alone.                                          *)
(***************************************************************************)
CONSTANTS
    Aliases,
    Passwords,
    Credentials,    \* what may be put
    NoEntry         \* nothing under an alias

VARIABLE opens      \* opens[p][a]: what password p finds under alias a

Empty == [a \in Aliases |-> NoEntry]

Init == opens = [p \in Passwords |-> Empty]

Put(p, a, e) ==
    opens' = [q \in Passwords |->
                IF q = p THEN [opens[p] EXCEPT ![a] = e] ELSE Empty]

Forget == opens' = [p \in Passwords |-> Empty]

Next ==
    \/ \E p \in Passwords, a \in Aliases, e \in Credentials : Put(p, a, e)
    \/ Forget

Spec == Init /\ [][Next]_opens
=============================================================================
