------------------------- MODULE MCMetadataDiskCache -------------------------
(***************************************************************************)
(* Two windows and one connection, a few refreshes, clears and crashes.    *)
(***************************************************************************)
EXTENDS MetadataDiskCache, TLC

Symmetry == Permutations(Windows) \union Permutations(Parts)
================================================================================
