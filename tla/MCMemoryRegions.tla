--------------------------- MODULE MCMemoryRegions ---------------------------
(* Instances of MemoryRegions: two threads that hold the same capabilities.  *)
EXTENDS MemoryRegions, TLC

CONSTANTS a1, a2

\* One carves regions, creates kernel objects and reclaims; the other carves
\* and destroys.
OwnerUses == a1 :> {"create", "split", "retype_run", "create_rendezvous",
                    "create_thread_control_block", "reclaim_region"} @@
             a2 :> {"split", "destroy"}

\* One creates kernel objects, the other reclaims.
SharedUses == a1 :> {"create", "create_rendezvous"} @@ a2 :> {"reclaim_region"}
==============================================================================
