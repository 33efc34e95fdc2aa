----------------------------- MODULE MCExporter -----------------------------
(* An instance of Exporter for TLC; its constants are in the configuration. *)
EXTENDS Exporter
=============================================================================
