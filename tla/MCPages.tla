------------------------------ MODULE MCPages ------------------------------
(* A posting of two units, a year of two months.                            *)
EXTENDS Pages
=============================================================================
