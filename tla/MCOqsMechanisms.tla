--------------------------- MODULE MCOqsMechanisms ---------------------------
(* OqsMechanisms with the names of each table in some order, and one name  *)
(* that nobody knows.                                                      *)
EXTENDS OqsMechanisms, FiniteSetsExt

Listed(S) == FoldSet(LAMBDA n, s : Append(s, n), <<>>, S)

MCSigNames == Listed(SigIdentifiers)

MCKemNames == Listed(KemIdentifiers)

MCOtherNames == {<<"MechanismNotSupported">>}
=============================================================================
