-------------------------- MODULE MCCatalogueReads --------------------------
(* A small instance of CatalogueReads for TLC.                             *)
EXTENDS CatalogueReads
=============================================================================
