------------------------------ MODULE MCExport ------------------------------
(* TLC instance of Export.                                                  *)
EXTENDS Export


=============================================================================
