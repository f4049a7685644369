---------------------------- MODULE MemoryRegions ----------------------------
(***************************************************************************)
(* Untyped memory regions: the table of src/crates/memory_regions, the     *)
(* locking around it in src/kernel/src/memory_region.rs, and the reclaim   *)
(* path of src/kernel/src/sched.rs that tears a region's kernel objects    *)
(* down before it.  Region names are generational: a name is never given   *)
(* out twice.                                                              *)
(*                                                                         *)
(* One hold of the lock REGIONS, or of IPC_TABLES, is one action.  pc[a]   *)
(* says between which holds actor a (a thread in a system call) is, and    *)
(* arg[a] is what it carries from one to the next.                         *)
(***************************************************************************)
EXTENDS Integers, FiniteSetsExt

CONSTANTS
    Actor,         \* threads that hold capabilities to every region
    NumPages,      \* pages of physical memory, 0..NumPages-1
    NumNames,      \* bound: how many regions are ever created
    MaxRegions,    \* MAX_REGIONS: slots of the region table
    Uses,          \* Uses[a]: the operations a performs
    NO_PARENT      \* the parent of a root region

Page == 0..NumPages - 1
Name == 1..NumNames
Op   == {"create", "split", "retype_run", "create_rendezvous",
         "create_thread_control_block", "destroy", "reclaim_region"}

ASSUME RegionsAssumption ==
    /\ NumPages \in Nat \ {0} /\ NumNames \in Nat /\ MaxRegions \in Nat
    /\ IsFiniteSet(Actor)
    /\ Uses \in [Actor -> SUBSET Op]
    /\ NO_PARENT \notin Name

VARIABLES
    live,          \* the names that resolve
    region,        \* region[n]: struct Region
    used,          \* names 1..used have been given out
    free,          \* the frame allocator's free pages
    objects,       \* pages that hold a registered kernel object
    pc,            \* where in its operation each actor is
    arg,           \* what the actor carries: a region name and a run of pages
    retyped,       \* history: retyped[n], the pages n has retyped
    phantom        \* history: phantom[n], children of n that got no slot

vars == <<live, region, used, free, objects, pc, arg, retyped, phantom>>

Region == [base_page : Page, pages : 0..NumPages, watermark : 0..NumPages,
           retyped_to : 0..NumPages, pinned : BOOLEAN, parent : Name \cup {NO_PARENT},
           children : Nat]

\* A region just inserted.
Fresh(base, n, parent) ==
    [base_page |-> base, pages |-> n, watermark |-> 0, retyped_to |-> 0,
     pinned |-> FALSE, parent |-> parent, children |-> 0]

\* The slot of a name that does not resolve.
Vacant == Fresh(0, 0, NO_PARENT)

Arg   == [name : Name \cup {NO_PARENT}, base_page : Nat, pages : Nat,
          parent : Name \cup {NO_PARENT}]
NoArg == [name |-> NO_PARENT, base_page |-> 0, pages |-> 0, parent |-> NO_PARENT]

PC == {"idle", "insert_root", "insert_from_page", "region_bounds", "reap", "unpin",
       "claim", "revoke"}

TypeOK ==
    /\ live \subseteq Name
    /\ region \in [Name -> Region]
    /\ used \in 0..NumNames
    /\ free \subseteq Page /\ objects \subseteq Page
    /\ pc \in [Actor -> PC]
    /\ arg \in [Actor -> Arg]
    /\ retyped \in [Name -> SUBSET Page]
    /\ phantom \in [Name -> Nat]

Init ==
    /\ live = {} /\ used = 0
    /\ region = [n \in Name |-> Vacant]
    /\ free = Page /\ objects = {}
    /\ pc = [a \in Actor |-> "idle"]
    /\ arg = [a \in Actor |-> NoArg]
    /\ retyped = [n \in Name |-> {}]
    /\ phantom = [n \in Name |-> 0]

------------------------------------------------------------------------------
\* The pages base, ..., base + n - 1.
Run(base, n) == {p \in Page : base <= p /\ p < base + n}
Span(n)      == Run(region[n].base_page, region[n].pages)

Children(n) == {c \in live : region[c].parent = n}

\* Actors between claim_for_destroy and the return of the pages.
Claims == {a \in Actor : pc[a] = "revoke"}

HasSlot == Cardinality(live) < MaxRegions

\* generational_table insert_with: the next name, if there is a slot.
Insert(r) ==
    /\ used' = used + 1
    /\ live' = live \cup {used + 1}
    /\ region' = [region EXCEPT ![used + 1] = r]

Idle(a, op) == pc[a] = "idle" /\ op \in Uses[a]

Goto(a, label, x) == pc' = [pc EXCEPT ![a] = label] /\ arg' = [arg EXCEPT ![a] = x]
Done(a)           == Goto(a, "idle", NoArg)

------------------------------------------------------------------------------
(* create: the allocator first, then the table.                             *)

alloc_contiguous(a) ==
    /\ Idle(a, "create") /\ used < NumNames
    /\ \E base \in Page, n \in 1..NumPages :
          /\ base + n <= NumPages /\ Run(base, n) \subseteq free
          /\ free' = free \ Run(base, n)
          /\ Goto(a, "insert_root", [NoArg EXCEPT !.base_page = base, !.pages = n])
    /\ UNCHANGED <<live, region, used, objects, retyped, phantom>>

\* Mutant: the run is not given back when the table is full.
insert_root_leaks(a) ==
    /\ pc[a] = "insert_root"
    /\ \/ HasSlot /\ used < NumNames
          /\ Insert(Fresh(arg[a].base_page, arg[a].pages, NO_PARENT))
       \/ ~HasSlot /\ UNCHANGED <<live, region, used>>
    /\ Done(a)
    /\ UNCHANGED <<free, objects, retyped, phantom>>

insert_root(a) ==
    /\ pc[a] = "insert_root"
    /\ \/ HasSlot /\ used < NumNames
          /\ Insert(Fresh(arg[a].base_page, arg[a].pages, NO_PARENT))
          /\ UNCHANGED free
       \/ ~HasSlot
          /\ free' = free \cup Run(arg[a].base_page, arg[a].pages)
          /\ UNCHANGED <<live, region, used>>
    /\ Done(a)
    /\ UNCHANGED <<objects, retyped, phantom>>

------------------------------------------------------------------------------
(* Carving.                                                                 *)

\* split_new_watermark: the carve fits the unspent budget and is not empty.
Fits(r, want) == want > 0 /\ r.watermark + want <= r.pages

split(a, p) ==
    /\ Idle(a, "split") /\ p \in live /\ used < NumNames
    /\ \E n \in 1..NumPages :
          LET bumped == [region EXCEPT ![p].watermark = @ + n, ![p].children = @ + 1]
              child  == Fresh(region[p].base_page + region[p].watermark, n, p)
          IN  /\ Fits(region[p], n)
              /\ \/ /\ HasSlot
                    /\ used' = used + 1
                    /\ live' = live \cup {used + 1}
                    /\ region' = [bumped EXCEPT ![used + 1] = child]
                    /\ UNCHANGED phantom
                 \/ /\ ~HasSlot
                    /\ region' = bumped
                    /\ phantom' = [phantom EXCEPT ![p] = @ + 1]
                    /\ UNCHANGED <<used, live>>
    /\ UNCHANGED <<free, objects, pc, arg, retyped>>

\* The n pages at the watermark of region r are spent.
Carve(r, n) ==
    /\ Fits(region[r], n)
    /\ retyped' = [retyped EXCEPT ![r] =
                     @ \cup Run(region[r].base_page + region[r].watermark, n)]

retype_run(a, r) ==
    /\ Idle(a, "retype_run") /\ r \in live
    /\ \E n \in 1..NumPages :
          /\ Carve(r, n)
          /\ region' = [region EXCEPT ![r].watermark = @ + n,
                                      ![r].retyped_to = region[r].watermark + n]
    /\ UNCHANGED <<live, used, free, objects, pc, arg, phantom>>

\* retype_object_page: pin and carve in one hold of REGIONS.
retype_object_page(r) ==
    /\ r \in live /\ Carve(r, 1)
    /\ region' = [region EXCEPT ![r].pinned = TRUE,
                                ![r].watermark = @ + 1,
                                ![r].retyped_to = region[r].watermark + 1]

\* The page retype_object_page hands out.
NextPage(r) == region[r].base_page + region[r].watermark

\* create_rendezvous_from: page and registry under one hold of IPC_TABLES.
create_rendezvous(a, r) ==
    /\ Idle(a, "create_rendezvous")
    /\ retype_object_page(r)
    /\ objects' = objects \cup {NextPage(r)}
    /\ UNCHANGED <<live, used, free, pc, arg, phantom>>

\* create_thread_control_block: the page first, the thread table after.
create_thread_control_block(a, r) ==
    /\ Idle(a, "create_thread_control_block")
    /\ retype_object_page(r)
    /\ Goto(a, "insert_from_page", [NoArg EXCEPT !.base_page = NextPage(r)])
    /\ UNCHANGED <<live, used, free, objects, phantom>>

insert_from_page(a) ==
    /\ pc[a] = "insert_from_page"
    /\ \/ objects' = objects \cup {arg[a].base_page}
       \/ UNCHANGED objects                          \* the thread table is full
    /\ Done(a)
    /\ UNCHANGED <<live, region, used, free, retyped, phantom>>

------------------------------------------------------------------------------
(* destroy: decide and remove the name in one hold, revoke every mapping of *)
(* the region with the lock released, then give the pages back.             *)

destroy(a, r) ==
    /\ Idle(a, "destroy") /\ r \in live
    /\ Goto(a, "claim", [NoArg EXCEPT !.name = r])
    /\ UNCHANGED <<live, region, used, free, objects, retyped, phantom>>

\* Mutant: the pin is not looked at.
destroy_outcome_ignores_pin(r) == IF r.children > 0 THEN "Refused" ELSE "Granted"

\* Mutant: live children are not looked at.
destroy_outcome_ignores_children(r) == IF r.pinned THEN "Refused" ELSE "Granted"

\* The refusal half of destroy_outcome.
destroy_outcome(r) == IF r.pinned \/ r.children > 0 THEN "Refused" ELSE "Granted"

claim_for_destroy(a) ==
    LET n == arg[a].name
        r == region[n]
    IN  /\ pc[a] = "claim"
        /\ \/ /\ n \notin live \/ destroy_outcome(r) = "Refused"
              /\ Done(a)
              /\ UNCHANGED <<live, region, retyped>>
           \/ /\ n \in live /\ destroy_outcome(r) = "Granted"
              /\ live' = live \ {n}
              /\ region' = [region EXCEPT ![n] = Vacant]
              /\ retyped' = [retyped EXCEPT ![n] = {}]
              /\ Goto(a, "revoke", [name |-> n, base_page |-> r.base_page,
                                    pages |-> r.pages, parent |-> r.parent])
        /\ UNCHANGED <<used, free, objects, phantom>>

\* Mutant: the holes come back although a claim on one of them is in flight.
coalesced_watermark_always(watermark, retyped_to, live_to, quiescent) ==
    IF quiescent \/ TRUE THEN Min({Max({retyped_to, live_to}), watermark}) ELSE watermark

\* Mutant: the holes never come back.
coalesced_watermark_never(watermark, retyped_to, live_to, quiescent) ==
    IF quiescent /\ FALSE THEN Max({retyped_to, live_to}) ELSE watermark

coalesced_watermark(watermark, retyped_to, live_to, quiescent) ==
    IF quiescent THEN Min({Max({retyped_to, live_to}), watermark}) ELSE watermark

\* return_to_parent: a child at the top of the parent's watermark un-bumps it; once
\* every child the parent counts is in the table, the watermark comes down to
\* what is still in use.
return_to_parent(c) ==
    LET p        == region[c.parent]
        kids     == Children(c.parent)
        live_to  == Max({0} \cup {region[k].base_page + region[k].pages - p.base_page :
                                    k \in kids})
        unbump   == IF c.base_page + c.pages = p.base_page + p.watermark
                    THEN c.pages ELSE 0
        children == IF p.children > 0 THEN p.children - 1 ELSE 0
    IN  region' = IF c.parent \notin live THEN region
                  ELSE [region EXCEPT
                          ![c.parent].children = children,
                          ![c.parent].watermark =
                              coalesced_watermark(p.watermark - unbump, p.retyped_to, live_to,
                                                  children = Cardinality(kids))]

GiveBack(a) ==
    /\ pc[a] = "revoke"
    /\ IF arg[a].parent = NO_PARENT
       THEN free' = free \cup Run(arg[a].base_page, arg[a].pages) /\ UNCHANGED region
       ELSE return_to_parent(arg[a]) /\ UNCHANGED free
    /\ Done(a)
    /\ UNCHANGED <<live, used, objects, retyped, phantom>>

------------------------------------------------------------------------------
(* reclaim_region: refuse a region with children, look up its bounds, tear  *)
(* its kernel objects down (which may be refused), unpin, destroy.          *)

reclaim_region(a, r) ==
    /\ Idle(a, "reclaim_region") /\ r \in live /\ region[r].children = 0
    /\ Goto(a, "region_bounds", [NoArg EXCEPT !.name = r])
    /\ UNCHANGED <<live, region, used, free, objects, retyped, phantom>>

region_bounds(a) ==
    /\ pc[a] = "region_bounds"
    /\ IF arg[a].name \in live
       THEN Goto(a, "reap", [arg[a] EXCEPT !.base_page = region[arg[a].name].base_page,
                                           !.pages = region[arg[a].name].pages])
       ELSE Done(a)
    /\ UNCHANGED <<live, region, used, free, objects, retyped, phantom>>

reap_region_objects(a) ==
    LET mine == objects \cap Run(arg[a].base_page, arg[a].pages)
    IN  /\ pc[a] = "reap"
        /\ \/ \E alive \in SUBSET mine :              \* threads that may still run
                 alive # {} /\ objects' = objects \ (mine \ alive) /\ Done(a)
           \/ objects' = objects \ mine /\ Goto(a, "unpin", arg[a])
        /\ UNCHANGED <<live, region, used, free, retyped, phantom>>

unpin(a) ==
    /\ pc[a] = "unpin"
    /\ region' = IF arg[a].name \in live
                 THEN [region EXCEPT ![arg[a].name].pinned = FALSE] ELSE region
    /\ Goto(a, "claim", arg[a])
    /\ UNCHANGED <<live, used, free, objects, retyped, phantom>>

Next ==
    \E a \in Actor :
      \/ alloc_contiguous(a) \/ insert_root(a)
      \/ insert_from_page(a)
      \/ claim_for_destroy(a) \/ GiveBack(a)
      \/ region_bounds(a) \/ reap_region_objects(a) \/ unpin(a)
      \/ \E r \in Name :
           \/ split(a, r) \/ retype_run(a, r) \/ create_rendezvous(a, r)
           \/ create_thread_control_block(a, r) \/ destroy(a, r) \/ reclaim_region(a, r)

Spec == Init /\ [][Next]_vars

------------------------------------------------------------------------------
\* A piece of memory somebody holds that came out of region n: a live child or a
\* destroyed one whose pages are still being revoked.
Pieces(n) == {Span(c) : c \in Children(n)} \cup
             {Run(arg[a].base_page, arg[a].pages) : a \in {b \in Claims : arg[b].parent = n}}

\* The memory taken from the frame allocator: root regions, root regions being
\* revoked, and runs allocated for a region that has no name yet.
RootActor(a) == pc[a] = "insert_root" \/ (pc[a] = "revoke" /\ arg[a].parent = NO_PARENT)

\* No page has two owners: a page a region has retyped is in no child of it and in
\* no child being destroyed, these do not overlap each other, and all of them lie
\* below the watermark, where nothing more is carved (split, retype_run,
\* return_to_parent).
PageHandedOutOnce ==
    \A n \in live :
        LET below == Run(region[n].base_page, region[n].watermark)
        IN  /\ retyped[n] \subseteq below
            /\ \A x \in Pieces(n) : x \subseteq below /\ x \cap retyped[n] = {}
            /\ \A x, y \in Pieces(n) : x # y => x \cap y = {}
            /\ \A c, d \in Children(n) : c # d => Span(c) \cap Span(d) = {}
            /\ \A c \in Children(n), a \in Claims :
                  arg[a].parent = n
                    => Span(c) \cap Run(arg[a].base_page, arg[a].pages) = {}

\* A page is free, or belongs to one root: no root region is freed twice and none
\* is freed while it or part of it is in use (claim_for_destroy, create).
RootPagesOwnedOnce ==
    /\ \A n, m \in live : region[n].parent = NO_PARENT =>
          /\ Span(n) \cap free = {}
          /\ region[m].parent = NO_PARENT /\ m # n => Span(n) \cap Span(m) = {}
    /\ \A a \in Actor : RootActor(a) =>
          LET mine == Run(arg[a].base_page, arg[a].pages)
          IN  /\ mine \cap free = {}
              /\ \A n \in live : region[n].parent = NO_PARENT => mine \cap Span(n) = {}
              /\ \A b \in Actor : RootActor(b) /\ b # a =>
                    mine \cap Run(arg[b].base_page, arg[b].pages) = {}

\* The two, with the types: a page never has two owners.
PagesOwnedOnce == TypeOK /\ PageHandedOutOnce /\ RootPagesOwnedOnce

\* A parent counts exactly its live children, those whose pages are on their way
\* back, and the children a full table refused; so it is never destroyed under a
\* child (split, claim_for_destroy, return_to_parent).
ChildrenCounted ==
    /\ \A n \in live : region[n].children =
          Cardinality(Children(n)) + Cardinality({a \in Claims : arg[a].parent = n}) + phantom[n]
    /\ \A n \in live : region[n].parent \in live \cup {NO_PARENT}
    /\ \A a \in Claims : arg[a].parent \in live \cup {NO_PARENT}

\* Holes come back: a region without children has spent exactly what it retyped
\* (coalesced_watermark).
HolesComeBack ==
    \A n \in live : region[n].children = 0 => region[n].watermark = region[n].retyped_to

\* The page of every kernel object belongs to a live region that retyped it: no
\* region is freed under an object (retype_object_page, unpin).
ObjectPageIsHeld == \A p \in objects : \E n \in live : p \in retyped[n]

\* No page is lost: one that is not free belongs to a live root region, or to a call
\* that will name it or give it back.  The table may run full between the two holds
\* of create, and every root destroyed comes back whole (create, destroy).
NoPageLost ==
    \A p \in Page :
        \/ p \in free
        \/ \E n \in live : region[n].parent = NO_PARENT /\ p \in Span(n)
        \/ \E a \in Actor : RootActor(a) /\ p \in Run(arg[a].base_page, arg[a].pages)
==============================================================================
