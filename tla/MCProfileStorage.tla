---------------------------- MODULE MCProfileStorage ----------------------------
(* A small instance of ProfileStorage: a Default Profile and one more.        *)
EXTENDS ProfileStorage
=============================================================================
