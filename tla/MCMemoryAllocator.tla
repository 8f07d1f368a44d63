-------------------------- MODULE MCMemoryAllocator --------------------------
(* Instances of MemoryAllocator for TLC. *)
EXTENDS MemoryAllocator, TLC

CONSTANTS t1, t2, t3, t4, t5

FiveTensors == {t1, t2, t3, t4, t5}

(* With Alignment = 2: blocks of one unit, of two and of three, a size the *)
(* alignment has to round up, and a tensor without a byte.                 *)
FiveSizes == t1 :> 0 @@ t2 :> 2 @@ t3 :> 3 @@ t4 :> 4 @@ t5 :> 6
=============================================================================
