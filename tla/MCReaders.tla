------------------------------ MODULE MCReaders ------------------------------
(***************************************************************************)
(* Small instances of the registry and its readers for TLC.                *)
(***************************************************************************)
EXTENDS ReaderProperties, MCRegistry

(* Both artifacts are versions of one regime and cover one date.           *)
MCCovers == [ h \in Hash |-> Query ]

=============================================================================
