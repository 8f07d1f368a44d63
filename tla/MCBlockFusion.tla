--------------------------- MODULE MCBlockFusion ---------------------------
(***************************************************************************)
(* Instances of BlockFusion for TLC: all groups of at most MaxKernels      *)
(* kernels, whose numbers of blocks are in Grids.                          *)
(***************************************************************************)
EXTENDS BlockFusion

CONSTANTS MaxKernels, Grids

GroupsOf[n \in 0 .. MaxKernels] ==
  IF n = 0 THEN {<<>>}
  ELSE {Append(g, [grid |-> blocks, deps |-> deps]) :
          g \in GroupsOf[n - 1], blocks \in Grids, deps \in SUBSET (1 .. n - 1)}

AllGroups == UNION {GroupsOf[n] : n \in 1 .. MaxKernels}
=============================================================================
