---------------------------- MODULE MCAttribution ----------------------------
(***************************************************************************)
(* The site map with nested domains, a host that is itself a domain and a   *)
(* host under none; a code for each rule of the classifier and some for     *)
(* none, and texts with up to two phrases.                                  *)
(***************************************************************************)
EXTENDS Attribution

MCDomains == {<<"gov">>, <<"fnal", "gov">>}
MCHosts == {<<"cms", "fnal", "gov">>, <<"fnal", "gov">>, <<"cern", "ch">>}

MCSaid == {t \in Texts : "words" \notin t /\ Cardinality(t) <= 2}

=============================================================================
