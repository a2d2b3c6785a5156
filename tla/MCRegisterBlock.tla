--------------------------- MODULE MCRegisterBlock ---------------------------
(* TLC instance of RegisterBlock: three calls, so that every toggle goes up  *)
(* and down again; the settle is as long as a command and its answer need.  *)
EXTENDS RegisterBlock
=============================================================================
