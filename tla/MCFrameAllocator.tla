-------------------------- MODULE MCFrameAllocator --------------------------
(***************************************************************************)
(* FrameAllocator on two words of three frames of two bytes.  The boot     *)
(* information ranges over maps of three adjacent regions that need not    *)
(* start or end on a frame boundary and that reach beyond the bitmap, and  *)
(* over kernels and framebuffers that start on a boundary, as the boot     *)
(* loader's allocate_pages and the firmware guarantee.                     *)
(***************************************************************************)
EXTENDS FrameAllocator

MCEnd == 2 * MAX_FRAMES + 2

MCMaps ==
  {<<[base |-> 0, size |-> a, kind |-> "Free"],
     [base |-> a, size |-> b - a, kind |-> k],
     [base |-> b, size |-> MCEnd - b, kind |-> "Free"]>> :
       a \in {3, 5, 6}, b \in {7, 8, 11}, k \in {"Free", "Reserved"}}

MCBootInfos ==
  [memory_map : MCMaps, kernel_start : {2, 4}, kernel_end : {5, 6},
   framebuffer_addr : {10, MCEnd}, framebuffer_size : {1, 4}]
=============================================================================
