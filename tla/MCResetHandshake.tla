---- MODULE MCResetHandshake ----
(* Small instances of ResetHandshake. *)
EXTENDS ResetHandshake
====
