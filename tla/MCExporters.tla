---------------------------- MODULE MCExporters -----------------------------
(* A small instance of Exporters: each behaviour has one built-in exporter.*)
EXTENDS Exporters

AllKinds == {"file", "webhook", "otlp", "command"}
=============================================================================
