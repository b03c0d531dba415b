---- MODULE MCServerLifecycle ----
(***************************************************************************)
(* Two connections, so that one may be accepted or blocked while the other *)
(* is in a handler, and one web request.                                   *)
(***************************************************************************)
EXTENDS ServerLifecycle

====
