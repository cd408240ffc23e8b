---------------------------- MODULE MCMountCache ----------------------------
(***************************************************************************)
(* MountCache on a small file: its last block is larger than the cache.    *)
(***************************************************************************)
EXTENDS MountCache

MCSize == [b \in Blocks |-> IF b = NBlocks THEN Budget + 1 ELSE 1]
=============================================================================
