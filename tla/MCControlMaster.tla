--------------------------- MODULE MCControlMaster ---------------------------
(* ControlMaster with two agent processes that may be up at once.          *)
EXTENDS ControlMaster
=============================================================================
