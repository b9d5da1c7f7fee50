------------------------- MODULE MCAccountingExport -------------------------
(* A small instance of AccountingExport.                                   *)
EXTENDS AccountingExport
=============================================================================
