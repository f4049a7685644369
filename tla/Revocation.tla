----------------------------- MODULE Revocation -----------------------------
(***************************************************************************)
(* The mapping log and what it is for (kernel/src/revoke.rs): taking a     *)
(* run of page frames back from every holder, and unmapping a region from  *)
(* every address space before its pages are handed out again.              *)
(*                                                                         *)
(* Each system call reads its capability once and goes on with the copy.   *)
(* What it does next is a sequence of critical sections of three locks:    *)
(* the scheduler's (capability tables and hand-off slots), the registry's  *)
(* (the logs), and the region table's.  A page table is written under none *)
(* of them.  Every critical section is one action here, and calls of       *)
(* processes on other cores interleave between them.                       *)
(***************************************************************************)
EXTENDS Naturals, FiniteSets

CONSTANTS
    Proc,         \* processes, each with one thread and one address space
    Page,         \* page frames, by number
    Va,           \* user pages of an address space, by number
    Run,          \* the PageFrame objects there are: <<base, count>>
    RegionBase,   \* the region that may be destroyed
    RegionSize,
    FirstFree,    \* the region's watermark at the start
    RegionHolder, \* the processes that hold its MemoryRegion capability
    InitCaps,     \* the runs each process holds at the start
    LogCapacity,  \* the records each address space can pay for
    None          \* no page, no object

RegionPages == RegionBase .. (RegionBase + RegionSize - 1)

base(r)  == r[1]
count(r) == r[2]
PagesOf(r) == base(r) .. (base(r) + count(r) - 1)

ASSUME RevocationAssumption ==
    /\ Page \subseteq Nat /\ RegionPages \subseteq Page /\ None \notin Page
    \* the user half of an address space has no holes
    /\ Va \subseteq Nat /\ \A low, high \in Va : low .. high \subseteq Va
    /\ Run \subseteq Page \X (Nat \ {0}) /\ \A r \in Run : PagesOf(r) \subseteq Page
    /\ RegionBase \in Nat /\ RegionSize \in Nat
    /\ FirstFree \in RegionBase .. RegionBase + RegionSize
    /\ RegionHolder \subseteq Proc
    /\ InitCaps \in [Proc -> SUBSET Run]
    /\ LogCapacity \in [Proc -> Nat]

VARIABLES
    caps,       \* caps[p]: the PageFrame objects in p's capability table
    outgoing,   \* Thread::outgoing_cap: a capability on its way to a receiver
    pte,        \* pte[p][va]: the page mapped there
    log,        \* log[p]: the live records of p's log
    region,     \* "live", "claimed" for destruction, "freed"
    watermark,  \* the next page the region retypes
    pc,         \* where each process is in its system call
    run,        \* the object the call works on
    va,         \* the address it maps at
    k, n,       \* the loop's index and bound
    straddled   \* a call was using a copy of a run when destroy swept them

callVars == <<run, va, k, n>>
vars == <<caps, outgoing, pte, log, region, watermark, pc, callVars, straddled>>

LogEntry(page, at, object) == [phys |-> page, va |-> at, object |-> object]

Goto(p, where) == pc' = [pc EXCEPT ![p] = where]
Leave(p, where) ==
    /\ Goto(p, where)
    /\ run' = [run EXCEPT ![p] = None]
    /\ va' = [va EXCEPT ![p] = None]
    /\ k' = [k EXCEPT ![p] = 0]
    /\ n' = [n EXCEPT ![p] = 0]

Return(p) == Leave(p, "user")

\* The page and the address the loop of p's call is at.
PageNow(p) == base(run[p]) + k[p]
VaNow(p)   == va[p] + k[p]

------------------------------------------------------------------------------
(* invoke: the capability is looked up, and copied.                         *)

Call(p, where, r, at, bound) ==
    /\ pc[p] = "user"
    /\ Goto(p, where)
    /\ run' = [run EXCEPT ![p] = r]
    /\ va' = [va EXCEPT ![p] = at]
    /\ k' = [k EXCEPT ![p] = 0]
    /\ n' = [n EXCEPT ![p] = bound]
    /\ UNCHANGED <<caps, outgoing, pte, log, region, watermark, straddled>>

PageFrameMap(p) ==
    \E r \in caps[p], at \in Va :
        /\ at + count(r) - 1 \in Va
        /\ Call(p, "map", r, at, count(r))

PageFrameSlice(p) ==
    \E r \in caps[p], sub \in Run :
        /\ PagesOf(sub) \subseteq PagesOf(r)
        /\ Call(p, "grant", sub, None, 0)

SendCap(p) == \E r \in caps[p] : Call(p, "send", r, None, 0)

PageFrameRevoke(p) == \E r \in caps[p] : Call(p, "revoke", r, None, count(r))

MemoryRegionMap(p) ==
    /\ p \in RegionHolder
    /\ \E at \in Va : Call(p, "retype", None, at, 1)

MemoryRegionRetype(p) == p \in RegionHolder /\ Call(p, "retype_run", None, None, 0)

MemoryRegionDestroy(p) == p \in RegionHolder /\ Call(p, "claim", None, None, 0)

------------------------------------------------------------------------------
(* The mapping loop of page_frame_map and memory_region_map.                *)

\* memory_region_map takes the page first: none is left, or the region is gone.
Retype(p) ==
    /\ pc[p] = "retype"
    /\ IF region = "live" /\ watermark \in RegionPages
       THEN /\ Goto(p, "map")
            /\ run' = [run EXCEPT ![p] = <<watermark, 1>>]
            /\ watermark' = watermark + 1
            /\ UNCHANGED <<va, k, n>>
       ELSE Return(p) /\ UNCHANGED watermark
    /\ UNCHANGED <<caps, outgoing, pte, log, region, straddled>>

\* memory_region_retype takes a run, and grants it under another lock.  More pages
\* are asked for than are left, or the region is gone: nothing is taken.
RetypeRun(p) ==
    /\ pc[p] = "retype_run"
    /\ \/ \E r \in Run :
             /\ region = "live" /\ base(r) = watermark /\ PagesOf(r) \subseteq RegionPages
             /\ Goto(p, "grant")
             /\ run' = [run EXCEPT ![p] = r]
             /\ watermark' = watermark + count(r)
             /\ UNCHANGED <<va, k, n>>
       \/ Return(p) /\ UNCHANGED watermark
    /\ UNCHANGED <<caps, outgoing, pte, log, region, straddled>>

\* unmap_run_prefix of what is mapped so far, or straight back.
Rollback(p) ==
    IF k[p] = 0
    THEN Return(p)
    ELSE /\ Goto(p, "unmap")
         /\ n' = [n EXCEPT ![p] = k[p]]
         /\ k' = [k EXCEPT ![p] = 0]
         /\ UNCHANGED <<run, va>>

\* The address is taken already, or no page is left for a table.
MapFails(p) ==
    /\ pc[p] = "map"
    /\ Rollback(p)
    /\ UNCHANGED <<caps, outgoing, pte, log, region, watermark, straddled>>

MapPage(p) ==
    /\ pc[p] = "map"
    /\ pte[p][VaNow(p)] = None
    /\ pte' = [pte EXCEPT ![p][VaNow(p)] = PageNow(p)]
    /\ Goto(p, "record")
    /\ UNCHANGED <<caps, outgoing, log, region, watermark, callVars, straddled>>

\* Mutant: a mapping that cannot be recorded is reported and left in place.
Unrecorded_stays(p) == UNCHANGED pte

\* record_mapping said no: the page just mapped is unmapped again.
Unrecorded(p) == pte' = [pte EXCEPT ![p][VaNow(p)] = None]

record_mapping(p) ==
    /\ pc[p] = "record"
    /\ IF Cardinality(log[p]) < LogCapacity[p]
       THEN /\ log' = [log EXCEPT ![p] = @ \cup
                         {LogEntry(PageNow(p), VaNow(p), base(run[p]))}]
            /\ IF k[p] + 1 < n[p]
               THEN /\ Goto(p, "map")
                    /\ k' = [k EXCEPT ![p] = @ + 1]
                    /\ UNCHANGED <<run, va, n>>
               ELSE Return(p)
            /\ UNCHANGED pte
       ELSE /\ Unrecorded(p)
            /\ Rollback(p)
            /\ UNCHANGED log
    /\ UNCHANGED <<caps, outgoing, region, watermark, straddled>>

UnmapPrefix(p) ==
    /\ pc[p] = "unmap"
    /\ pte' = [pte EXCEPT ![p][VaNow(p)] = None]
    /\ Goto(p, "forget")
    /\ UNCHANGED <<caps, outgoing, log, region, watermark, callVars, straddled>>

forget_mapping(p) ==
    /\ pc[p] = "forget"
    /\ log' = [log EXCEPT ![p] = {e \in @ : ~ (e.phys = PageNow(p) /\ e.va = VaNow(p))}]
    /\ IF k[p] + 1 < n[p]
       THEN Goto(p, "unmap") /\ k' = [k EXCEPT ![p] = @ + 1] /\ UNCHANGED <<run, va, n>>
       ELSE Return(p)
    /\ UNCHANGED <<caps, outgoing, pte, region, watermark, straddled>>

------------------------------------------------------------------------------
(* New capabilities: SLICE and RETYPE grant one, SEND_CAP leaves a copy to a *)
(* receiver that comes later.                                               *)

grant(p) ==
    /\ pc[p] = "grant"
    /\ caps' = [caps EXCEPT ![p] = @ \cup {run[p]}]
    /\ Return(p)
    /\ UNCHANGED <<outgoing, pte, log, region, watermark, straddled>>

SendParks(p) ==
    /\ pc[p] = "send"
    /\ outgoing' = [outgoing EXCEPT ![p] = run[p]]
    /\ Leave(p, "parked")
    /\ UNCHANGED <<caps, pte, log, region, watermark, straddled>>

\* ipc_receive_cap takes what the hand-off slot of a parked sender still holds.
ReceiveCap(p) ==
    /\ pc[p] = "user"
    /\ \E sender \in Proc :
          /\ pc[sender] = "parked"
          /\ caps' = [caps EXCEPT ![p] = @ \cup ({outgoing[sender]} \ {None})]
          /\ outgoing' = [outgoing EXCEPT ![sender] = None]
          /\ Goto(sender, "user")
    /\ UNCHANGED <<pte, log, region, watermark, callVars, straddled>>

------------------------------------------------------------------------------
(* The two sweeps of the capabilities.                                      *)

delete_page_frame_caps_where(matches) ==
    /\ caps' = [p \in Proc |-> caps[p] \ matches]
    /\ outgoing' = [p \in Proc |-> IF outgoing[p] \in matches THEN None ELSE outgoing[p]]

delete_page_frame_caps(r) == delete_page_frame_caps_where({r})

\* Mutant: the sweep reads the tables and not the hand-off slots.
delete_page_frame_caps_overlapping_tables ==
    /\ caps' = [p \in Proc |-> {r \in caps[p] : PagesOf(r) \cap RegionPages = {}}]
    /\ UNCHANGED outgoing

delete_page_frame_caps_overlapping ==
    delete_page_frame_caps_where({r \in Run : PagesOf(r) \cap RegionPages # {}})

------------------------------------------------------------------------------
(* The two sweeps of the mappings.                                          *)

unmap_matching(page, objects) ==
    LET hit(p) == {e \in log[p] : e.phys = page /\ e.object \in objects}
    IN  /\ pte' = [p \in Proc |-> [a \in Va |->
                      IF \E e \in hit(p) : e.va = a THEN None ELSE pte[p][a]]]
        /\ log' = [p \in Proc |-> log[p] \ hit(p)]

\* Mutant: REVOKE takes every mapping of the page.
unmap_under_object_any(page, object) == unmap_matching(page, Page)

unmap_under_object(page, object) == unmap_matching(page, {object})

\* Mutant: the mappings go and their records stay.
unmap_everywhere_keeps_records(page) ==
    /\ pte' = [p \in Proc |-> [a \in Va |->
                  IF \E e \in log[p] : e.phys = page /\ e.va = a THEN None ELSE pte[p][a]]]
    /\ UNCHANGED log

unmap_everywhere(page) == unmap_matching(page, Page)

------------------------------------------------------------------------------
(* PageFrame::REVOKE: revoke_page_frame_run.                                *)

RevokeCaps(p) ==
    /\ pc[p] = "revoke"
    /\ delete_page_frame_caps(run[p])
    /\ Goto(p, "unmap_run")
    /\ UNCHANGED <<pte, log, region, watermark, callVars, straddled>>

RevokePage(p) ==
    /\ pc[p] = "unmap_run"
    /\ unmap_under_object(PageNow(p), base(run[p]))
    /\ IF k[p] + 1 < n[p]
       THEN k' = [k EXCEPT ![p] = @ + 1] /\ UNCHANGED <<pc, run, va, n>>
       ELSE Return(p)
    /\ UNCHANGED <<caps, outgoing, region, watermark, straddled>>

------------------------------------------------------------------------------
(* MemoryRegion::DESTROY: memory_region::destroy and revoke_region.         *)

claim_for_destroy(p) ==
    /\ pc[p] = "claim"
    /\ IF region = "live"
       THEN region' = "claimed" /\ Goto(p, "sweep") /\ UNCHANGED callVars
       ELSE Return(p) /\ UNCHANGED region
    /\ UNCHANGED <<caps, outgoing, pte, log, watermark, straddled>>

\* A call that can still map, grant or pass on a run it read or retyped before.
HoldsCopy(p) == pc[p] \in {"map", "record", "grant", "send"}

SweepRegion(p) ==
    /\ pc[p] = "sweep"
    /\ delete_page_frame_caps_overlapping
    /\ straddled' = \E q \in Proc : HoldsCopy(q)
    /\ Goto(p, "scan")
    /\ UNCHANGED <<pte, log, region, watermark, callVars>>

\* Any record of a page of the region, whichever log is met first.
ScanRegion(p) ==
    /\ pc[p] = "scan"
    /\ LET found == {e.phys : e \in UNION {log[q] : q \in Proc}} \cap RegionPages
       IN  IF found = {}
           THEN Goto(p, "free") /\ UNCHANGED run
           ELSE /\ \E phys \in found : run' = [run EXCEPT ![p] = <<phys, 1>>]
                /\ Goto(p, "unmap_victim")
    /\ UNCHANGED <<caps, outgoing, pte, log, region, watermark, va, k, n, straddled>>

UnmapVictim(p) ==
    /\ pc[p] = "unmap_victim"
    /\ unmap_everywhere(base(run[p]))
    /\ Goto(p, "scan")
    /\ UNCHANGED <<caps, outgoing, region, watermark, callVars, straddled>>

FreePages(p) ==
    /\ pc[p] = "free"
    /\ region' = "freed"
    /\ Return(p)
    /\ UNCHANGED <<caps, outgoing, pte, log, watermark, straddled>>

------------------------------------------------------------------------------
Init ==
    /\ caps = InitCaps
    /\ outgoing = [p \in Proc |-> None]
    /\ pte = [p \in Proc |-> [a \in Va |-> None]]
    /\ log = [p \in Proc |-> {}]
    /\ region = "live"
    /\ watermark = FirstFree
    /\ pc = [p \in Proc |-> "user"]
    /\ run = [p \in Proc |-> None]
    /\ va = [p \in Proc |-> None]
    /\ k = [p \in Proc |-> 0]
    /\ n = [p \in Proc |-> 0]
    /\ straddled = FALSE

Invoke(p) ==
    \/ PageFrameMap(p) \/ PageFrameSlice(p) \/ SendCap(p) \/ ReceiveCap(p)
    \/ PageFrameRevoke(p) \/ MemoryRegionMap(p) \/ MemoryRegionRetype(p)
    \/ MemoryRegionDestroy(p)

\* What a call does once it is in the kernel.
Kernel(p) ==
    \/ Retype(p) \/ RetypeRun(p) \/ MapFails(p) \/ MapPage(p) \/ record_mapping(p)
    \/ UnmapPrefix(p) \/ forget_mapping(p)
    \/ grant(p) \/ SendParks(p)
    \/ RevokeCaps(p) \/ RevokePage(p)
    \/ claim_for_destroy(p) \/ SweepRegion(p) \/ ScanRegion(p) \/ UnmapVictim(p)
    \/ FreePages(p)

Next == \E p \in Proc : Invoke(p) \/ Kernel(p)

Spec == Init /\ [][Next]_vars

\* A call that is in the kernel runs on: its core is not taken from it for good.
FairSpec == Spec /\ \A p \in Proc : WF_vars(Kernel(p))

------------------------------------------------------------------------------
(* Properties.                                                              *)

\* The address a call has mapped and not recorded, or unmapped and not forgotten.
InHand(p) == IF pc[p] \in {"record", "forget"} THEN {VaNow(p)} ELSE {}

\* The log of an address space says exactly which page is mapped where, once the
\* call at hand is past that address: revoke and destroy find every mapping
\* through it, whatever was recorded, rolled back or swept in between
\* (record_mapping, unmap_run_prefix, unmap_matching).
LogMatchesTables ==
    \A p \in Proc :
        /\ Cardinality(log[p]) <= LogCapacity[p]
        /\ \A a \in Va \ InHand(p) :
              {e.phys : e \in {f \in log[p] : f.va = a}} = {pte[p][a]} \ {None}

\* Once destroy hands the pages of a region back, no address space maps one and
\* no capability names one, in a table or on its way to a receiver, unless a
\* call was between reading or retyping a run and using it when destroy swept
\* the capabilities: the window that revoke_page_frame's comment defers.
ReclaimedIsUnreachable ==
    region = "freed" /\ ~ straddled =>
        \A p \in Proc :
            /\ \A a \in Va : pte[p][a] \notin RegionPages
            /\ \A r \in caps[p] \cup ({outgoing[p]} \ {None}) :
                  PagesOf(r) \cap RegionPages = {}

\* A process loses a mapping it is not itself rolling back only to a REVOKE of
\* the object it was mapped under, or to the destruction of the region the page
\* is in: revoking one run leaves the mappings of an overlapping one alone.
OthersKeepTheirs ==
    [][\A p \in Proc : \A e \in log[p] :
          pte[p][e.va] = e.phys /\ pte'[p][e.va] # e.phys =>
              \/ pc[p] = "unmap" /\ e.va = VaNow(p)
              \/ \E q \in Proc : pc[q] = "unmap_run" /\ base(run[q]) = e.object
              \/ region = "claimed" /\ e.phys \in RegionPages]_vars

\* A destroy that won the claim comes to the end of its scan, though other
\* processes go on mapping, unless a copy of a run outlived the sweep
\* (revoke_region: "the scan strictly shrinks and terminates").
DestroyCompletes == region = "claimed" ~> (region = "freed" \/ straddled)
==============================================================================
