------------------------------ MODULE MCIngest ------------------------------
(***************************************************************************)
(* Instances of Ingest.                                                    *)
(***************************************************************************)
EXTENDS Ingest

=============================================================================
