--------------------------- MODULE MCKeyForwarder ---------------------------
(***************************************************************************)
(* KeyForwarder for TLC: the patch file changes up to MaxChanges times.    *)
(***************************************************************************)
EXTENDS KeyForwarder
=============================================================================
