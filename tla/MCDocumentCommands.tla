--------------------------- MODULE MCDocumentCommands ---------------------------
(* Instances of DocumentCommands for TLC.                                  *)
EXTENDS DocumentCommands

CONSTANTS r1, r2

AnyOfEach == [Runs -> KindSet]
================================================================================
