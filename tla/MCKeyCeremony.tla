--------------------------- MODULE MCKeyCeremony ----------------------------
(***************************************************************************)
(* TLC instance of KeyCeremony: every polynomial over a field of five      *)
(* elements, every pair of arguments up to four, every ordered group.      *)
(***************************************************************************)
EXTENDS KeyCeremony
=============================================================================
