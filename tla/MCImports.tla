------------------------------ MODULE MCImports ------------------------------
(* Imports for TLC: a job that may read a shop, asked for what changed, or an *)
(* ERP's whole export.                                                       *)
EXTENDS Imports

CONSTANTS shop, erp, clock, owner
=============================================================================
