--------------------------- MODULE MCManifestStore ---------------------------
(* Small instances of the manifest store for TLC. *)
EXTENDS ManifestStore
=============================================================================
