---------------------------- MODULE MCHttpClient ----------------------------
(***************************************************************************)
(* Values for checking HttpClient.tla that a configuration cannot spell.   *)
(***************************************************************************)
EXTENDS HttpClient

MinusOne == -1

=============================================================================
