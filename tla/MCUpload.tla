------------------------------ MODULE MCUpload ------------------------------
(* A run of two segments and the copy an import makes of it. *)
EXTENDS Upload
=============================================================================
