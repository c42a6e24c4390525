--------------------------- MODULE MCExportClient ---------------------------
(***************************************************************************)
(* Instances of ExportClient: one local file and one link.                 *)
(***************************************************************************)
EXTENDS ExportClient

=============================================================================
