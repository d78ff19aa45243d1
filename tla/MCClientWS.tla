----------------------------- MODULE MCClientWS -----------------------------
(***************************************************************************)
(* ClientWS on a small instance: three connections of one machine, so that *)
(* a connection can be superseded while the one before it is still in its  *)
(* grace window.  The machine's entries are independent of every other     *)
(* machine's (Hub.entries is only ever indexed by the connection's own id).*)
(***************************************************************************)
EXTENDS ClientWS
=============================================================================
