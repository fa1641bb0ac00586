---------------------------- MODULE MCCacheFile ----------------------------
(***************************************************************************)
(* Two finalisers and one page request around a cache file of three blocks.*)
(* Three files: one with the name and one for each task that may still hold*)
(* a removed file open while a finaliser creates another.                  *)
(***************************************************************************)
EXTENDS CacheFile, TLC

Symmetry == Permutations(Files) \cup Permutations(Writers)
=============================================================================
