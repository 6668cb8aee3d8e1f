-------------------------- MODULE MCMetadataReport --------------------------
(* A small instance of MetadataReport.                                     *)
EXTENDS MetadataReport

CONSTANTS d1, d2
=============================================================================
