------------------------------ MODULE MCDetail ------------------------------
(* Readers of one server's detail against each kind of writer. *)
EXTENDS DetailCache
=============================================================================
