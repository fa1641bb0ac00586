----------------------------- MODULE MCRegistry -----------------------------
(***************************************************************************)
(* Two tabs, a local file and a remote file.                               *)
(***************************************************************************)
EXTENDS Registry, TLC

CONSTANTS local, remote, n1, n2

MCNameOf == [u \in Uris |-> IF u = local THEN n1 ELSE n2]

Symmetry == Permutations(Clients) \cup Permutations(Objects)
=============================================================================
