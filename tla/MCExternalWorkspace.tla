------------------------- MODULE MCExternalWorkspace -------------------------
(* A bounded instance of ExternalWorkspace: the values are in the .cfg. *)
EXTENDS ExternalWorkspace
=============================================================================
