------------------------ MODULE MCMetadataColumnStage ------------------------
(***************************************************************************)
(* Three runners and four databases: one has external tables, one is dead. *)
(***************************************************************************)
EXTENDS MetadataColumnStage

DatabasesOfFour == << "d1", "d2", "d3", "d4" >>
================================================================================
