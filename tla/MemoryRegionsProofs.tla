------------------------ MODULE MemoryRegionsProofs ------------------------
(***************************************************************************)
(* Proofs about MemoryRegions, for any number of threads, pages, names and *)
(* table slots.                                                            *)
(*                                                                         *)
(* Who holds memory is a live region, a call that has memory from the      *)
(* frame allocator and no name for it yet, or a call that has removed a    *)
(* name and not given its pages back.  The inductive invariant says of     *)
(* each where its run lies: inside its parent, below the watermark, clear  *)
(* of what the parent has retyped and of its siblings.  Runs are compared  *)
(* by their ends, so that the arithmetic of the watermark decides.         *)
(***************************************************************************)
EXTENDS MemoryRegions, FiniteSetTheorems, WellFoundedInduction, TLAPS

Inside(b, n, x)   == b <= x /\ x < b + n
Apart(b, n, c, m) == b + n <= c \/ c + m <= b

\* The n pages at b are a piece of p, or of physical memory.
Placed(b, n, p) ==
    /\ n > 0 /\ b + n <= NumPages
    /\ p = NO_PARENT => \A x \in free : ~Inside(b, n, x)
    /\ p # NO_PARENT =>
          /\ p \in live /\ region[p].base_page <= b
          /\ b + n <= region[p].base_page + region[p].watermark
          /\ \A x \in retyped[p] : ~Inside(b, n, x)

\* How much of itself a region has spent, and on what.
Spent(n) ==
    /\ region[n].retyped_to <= region[n].watermark
    /\ region[n].watermark <= region[n].pages
    /\ \A x \in retyped[n] : Inside(region[n].base_page, region[n].retyped_to, x)
    /\ region[n].retyped_to > 0 =>
          region[n].base_page + region[n].retyped_to - 1 \in retyped[n]

Returning(n) == {a \in Claims : arg[a].parent = n}

Counted(n) ==
    /\ region[n].children =
          Cardinality(Children(n)) + Cardinality(Returning(n)) + phantom[n]
    /\ region[n].children = 0 => region[n].watermark = region[n].retyped_to

RegionOk(n) ==
    /\ n <= used
    /\ Placed(region[n].base_page, region[n].pages, region[n].parent)
    /\ Spent(n)
    /\ Counted(n)

\* Calls that hold a run of pages which no name stands for.
Holding(a) == pc[a] \in {"insert_root", "revoke"}

HolderOk(a) ==
    Holding(a) =>
        /\ Placed(arg[a].base_page, arg[a].pages, arg[a].parent)
        /\ pc[a] = "insert_root" => arg[a].parent = NO_PARENT

\* Two pieces of one parent have no page in common.
SiblingsApart ==
    /\ \A n, m \in live : n # m /\ region[n].parent = region[m].parent =>
          Apart(region[n].base_page, region[n].pages, region[m].base_page, region[m].pages)
    /\ \A n \in live, a \in Actor : Holding(a) /\ region[n].parent = arg[a].parent =>
          Apart(region[n].base_page, region[n].pages, arg[a].base_page, arg[a].pages)
    /\ \A a, b \in Actor : a # b /\ Holding(a) /\ Holding(b) /\ arg[a].parent = arg[b].parent =>
          Apart(arg[a].base_page, arg[a].pages, arg[b].base_page, arg[b].pages)

\* Names that have not been given out.
Unborn == \A n \in Name : n > used => retyped[n] = {} /\ phantom[n] = 0

\* A thread's page is taken before the thread is in the table.
Typed ==
    /\ TypeOK
    /\ \A a \in Actor : pc[a] = "insert_from_page" => arg[a].base_page \in Page

IInv ==
    /\ Typed
    /\ \A n \in live : RegionOk(n)
    /\ \A a \in Actor : HolderOk(a)
    /\ SiblingsApart
    /\ Unborn

------------------------------------------------------------------------------
(* Numbers and finite sets.                                                 *)

\* A set of numbers that is not empty has a least one.
LEMMA Smallest ==
  ASSUME NEW S \in SUBSET Nat, S # {}
  PROVE  \E x \in S : \A y \in S : x <= y
<1>1. PICK x \in S : \A y \in S : ~(<<y, x>> \in OpToRel(<, Nat))
  BY NatLessThanWellFounded, WFMin, Zenon
<1>2. \A y \in S : ~(y < x)
  BY <1>1, Zenon DEF OpToRel
<1> QED BY <1>2

\* The maximum return_to_parent takes exists.
LEMMA MaxIs ==
  ASSUME NEW S \in SUBSET Nat, NEW b \in Nat, \A x \in S : x <= b, S # {}
  PROVE  Max(S) \in S /\ \A y \in S : y <= Max(S)
<1> DEFINE T == {b - x : x \in S}
<1>1. T \in SUBSET Nat /\ T # {}
  <2>1. \A x \in S : b - x \in Nat
    OBVIOUS
  <2> QED BY <2>1, Zenon
<1>2. PICK z \in T : \A y \in T : z <= y
  <2> HIDE DEF T
  <2> QED BY <1>1, Smallest, Zenon
<1>3. PICK x \in S : z = b - x
  BY Zenon
<1>4. \A y \in S : y <= x
  BY <1>2, <1>3
<1> QED BY <1>4, Zenon DEF Max

\* The smaller, and the larger, of two numbers.
LEMMA MinMaxOfTwo ==
  ASSUME NEW x \in Nat, NEW y \in Nat
  PROVE  /\ Max({x, y}) = IF x <= y THEN y ELSE x
         /\ Min({x, y}) = IF x <= y THEN x ELSE y
<1>1. PICK z \in {x, y} : \A w \in {x, y} : z >= w
  OBVIOUS
<1>2. Max({x, y}) \in {x, y} /\ \A w \in {x, y} : Max({x, y}) >= w
  BY <1>1, Zenon DEF Max
<1>3. PICK v \in {x, y} : \A w \in {x, y} : v <= w
  OBVIOUS
<1>4. Min({x, y}) \in {x, y} /\ \A w \in {x, y} : Min({x, y}) <= w
  BY <1>3, Zenon DEF Min
<1> QED BY <1>2, <1>4

\* Names, and what a region holds.
LEMMA Names == NumPages \in Nat /\ NumNames \in Nat /\ NO_PARENT \notin Name /\ Name \subseteq Nat
<1>1. NumPages \in Nat \ {0} /\ NumNames \in Nat /\ NO_PARENT \notin Name
  BY RegionsAssumption, Zenon
<1> QED BY <1>1 DEF Name

\* The types of a region's fields.
LEMMA RegionTypes ==
  ASSUME TypeOK, NEW n \in Name
  PROVE  /\ region[n].base_page \in Nat /\ region[n].base_page < NumPages
         /\ region[n].pages \in Nat /\ region[n].watermark \in Nat
         /\ region[n].retyped_to \in Nat /\ region[n].children \in Nat
         /\ region[n].parent \in Name \cup {NO_PARENT} /\ region[n].pinned \in BOOLEAN
<1>1. region[n] \in Region
  BY Zenon DEF TypeOK
<1>2. NumPages \in Nat
  BY Names, Zenon
<1> QED BY <1>1, <1>2 DEF Region, Page

\* The types of what an actor carries.
LEMMA ArgTypes ==
  ASSUME TypeOK, NEW a \in Actor
  PROVE  /\ arg[a].base_page \in Nat /\ arg[a].pages \in Nat
         /\ arg[a].parent \in Name \cup {NO_PARENT} /\ arg[a].name \in Name \cup {NO_PARENT}
<1>1. arg[a] \in Arg
  BY Zenon DEF TypeOK
<1> QED BY <1>1, Zenon DEF Arg

\* The children of a region and the calls that give one back are finitely many.
LEMMA Finite ==
  ASSUME TypeOK, NEW n
  PROVE  /\ IsFiniteSet(live) /\ IsFiniteSet(Children(n)) /\ IsFiniteSet(Returning(n))
         /\ Cardinality(Children(n)) \in Nat /\ Cardinality(Returning(n)) \in Nat
<1>1. IsFiniteSet(Name)
  <2>1. 1 \in Int /\ NumNames \in Int
    BY Names
  <2> QED BY <2>1, FS_Interval, Zenon DEF Name
<1>2. IsFiniteSet(Actor)
  BY RegionsAssumption, Zenon
<1>3. /\ live \in SUBSET Name /\ Children(n) \in SUBSET Name /\ Returning(n) \in SUBSET Actor
  BY Zenon DEF TypeOK, Children, Returning, Claims
<1>4. IsFiniteSet(live) /\ IsFiniteSet(Children(n)) /\ IsFiniteSet(Returning(n))
  BY <1>1, <1>2, <1>3, FS_Subset, Zenon
<1> QED BY <1>4, FS_CardinalityType, Zenon

------------------------------------------------------------------------------
(* What a step leaves alone.                                                *)

SameShape(n) ==
    /\ region'[n].base_page = region[n].base_page /\ region'[n].pages = region[n].pages
    /\ region'[n].parent = region[n].parent

SameLevel(n) ==
    /\ region'[n].watermark = region[n].watermark
    /\ region'[n].retyped_to = region[n].retyped_to
    /\ retyped'[n] = retyped[n]

SameHold(b) == pc'[b] = pc[b] /\ arg'[b] = arg[b]

\* Who held a run may have let go of it, and nobody else took one.
LessHeld == \A b \in Actor : Holding(b)' => Holding(b) /\ SameHold(b)

\* A run stays where it is while the parent's watermark and pages do.
LEMMA PlacedStays ==
  ASSUME NEW b, NEW n, NEW p, Placed(b, n, p),
         p = NO_PARENT => free' \subseteq free,
         p # NO_PARENT =>
            p \in live' /\ region'[p].base_page = region[p].base_page /\ SameLevel(p)
  PROVE  Placed(b, n, p)'
  BY Zenon DEF Placed, SameLevel

\* Pieces that were apart stay apart while nobody gets a new one.
LEMMA ApartStays ==
  ASSUME SiblingsApart, live' \subseteq live, \A n \in live' : SameShape(n), LessHeld
  PROVE  SiblingsApart'
<1>1. \A n, m \in live' : n # m /\ region'[n].parent = region'[m].parent =>
          Apart(region'[n].base_page, region'[n].pages, region'[m].base_page, region'[m].pages)
  BY Zenon DEF SiblingsApart, SameShape
<1>2. \A n \in live', a \in Actor : Holding(a)' /\ region'[n].parent = arg'[a].parent =>
          Apart(region'[n].base_page, region'[n].pages, arg'[a].base_page, arg'[a].pages)
  BY Zenon DEF SiblingsApart, SameShape, SameHold, LessHeld
<1>3. \A a, b \in Actor :
          a # b /\ Holding(a)' /\ Holding(b)' /\ arg'[a].parent = arg'[b].parent =>
            Apart(arg'[a].base_page, arg'[a].pages, arg'[b].base_page, arg'[b].pages)
  BY Zenon DEF SiblingsApart, SameHold, LessHeld
<1> QED BY <1>1, <1>2, <1>3, Zenon DEF SiblingsApart

\* Whose children and whose returning runs are the same counts the same.
LEMMA CountStays ==
  ASSUME NEW n, Counted(n), SameLevel(n), region'[n].children = region[n].children,
         phantom'[n] = phantom[n], Children(n)' = Children(n), Returning(n)' = Returning(n)
  PROVE  Counted(n)'
  BY Zenon DEF Counted, SameLevel

\* What a region has spent stays spent.
LEMMA SpentStays ==
  ASSUME NEW n, Spent(n), SameShape(n), SameLevel(n)
  PROVE  Spent(n)'
  BY Zenon DEF Spent, SameShape, SameLevel

\* The children of a region are the same when the names and the parents are.
LEMMA ChildrenStay ==
  ASSUME NEW n, live' = live, \A m \in live : region'[m].parent = region[m].parent
  PROVE  Children(n)' = Children(n)
  BY Zenon DEF Children

\* The runs on their way back to a region are the same when nobody takes or
\* returns one.
LEMMA ReturningStay ==
  ASSUME NEW n, \A b \in Actor : Holding(b) \/ Holding(b)' => SameHold(b)
  PROVE  Returning(n)' = Returning(n)
<1>1. \A b \in Actor : b \in Returning(n)' <=> b \in Returning(n)
  BY Zenon DEF Returning, Claims, Holding, SameHold
<1>2. Returning(n)' \subseteq Actor /\ Returning(n) \subseteq Actor
  BY Zenon DEF Returning, Claims
<1> QED BY <1>1, <1>2, Zenon

\* A step that moves no memory.
LEMMA Quiet ==
  ASSUME IInv, Typed', live' = live, used' = used, free' = free, retyped' = retyped,
         phantom' = phantom,
         \A n \in live : /\ SameShape(n) /\ region'[n].watermark = region[n].watermark
                         /\ region'[n].retyped_to = region[n].retyped_to
                         /\ region'[n].children = region[n].children,
         \A b \in Actor : Holding(b) \/ Holding(b)' => SameHold(b)
  PROVE  IInv'
<1>1. \A n \in live : SameLevel(n)
  BY Zenon DEF SameLevel
<1>2. ASSUME NEW b, NEW n, NEW p, Placed(b, n, p) PROVE Placed(b, n, p)'
  <2>1. p # NO_PARENT => p \in live
    BY <1>2, Zenon DEF Placed
  <2>2. p # NO_PARENT =>
          p \in live' /\ region'[p].base_page = region[p].base_page /\ SameLevel(p)
    BY <1>1, <2>1, Zenon DEF SameShape
  <2> QED BY <1>2, <2>2, PlacedStays, Zenon
<1>3. ASSUME NEW n \in live' PROVE RegionOk(n)'
  <2>0. n \in live /\ RegionOk(n) /\ SameShape(n) /\ SameLevel(n)
    BY <1>1, <1>3, Zenon DEF IInv
  <2>1. Placed(region[n].base_page, region[n].pages, region[n].parent)'
    BY <1>2, <2>0, Zenon DEF RegionOk, SameShape
  <2>2. Spent(n)'
    BY <2>0, SpentStays, Zenon DEF RegionOk
  <2>3. Children(n)' = Children(n) /\ Returning(n)' = Returning(n)
    BY ChildrenStay, ReturningStay, Zenon DEF SameShape
  <2>4. Counted(n)'
    BY <2>0, <2>3, CountStays, Zenon DEF RegionOk
  <2> QED BY <2>0, <2>1, <2>2, <2>4, Zenon DEF RegionOk
<1>4. ASSUME NEW a \in Actor PROVE HolderOk(a)'
  BY <1>2, Zenon DEF IInv, HolderOk, Holding, SameHold
<1>5. SiblingsApart'
  <2>1. LessHeld
    BY Zenon DEF LessHeld, Holding, SameHold
  <2> QED BY <2>1, ApartStays, Zenon DEF IInv
<1>6. Unborn'
  BY Zenon DEF IInv, Unborn
<1> QED BY <1>3, <1>4, <1>5, <1>6, Zenon DEF IInv

\* An actor goes on to the next hold of a lock.
LEMMA GotoIs ==
  ASSUME TypeOK, NEW a \in Actor, NEW label \in PC, NEW x \in Arg, Goto(a, label, x)
  PROVE  /\ pc' \in [Actor -> PC] /\ arg' \in [Actor -> Arg]
         /\ pc'[a] = label /\ arg'[a] = x
         /\ \A b \in Actor \ {a} : SameHold(b)
  BY Zenon DEF TypeOK, Goto, SameHold

\* What an actor may carry.
LEMMA Args ==
  /\ NoArg \in Arg
  /\ \A n \in Name : [NoArg EXCEPT !.name = n] \in Arg
  /\ \A p \in Nat : [NoArg EXCEPT !.base_page = p] \in Arg
  /\ \A p, n \in Nat : /\ [NoArg EXCEPT !.base_page = p, !.pages = n] \in Arg
                       /\ [NoArg EXCEPT !.base_page = p, !.pages = n].base_page = p
                       /\ [NoArg EXCEPT !.base_page = p, !.pages = n].pages = n
                       /\ [NoArg EXCEPT !.base_page = p, !.pages = n].parent = NO_PARENT
  /\ \A x \in Arg, p, n \in Nat : [x EXCEPT !.base_page = p, !.pages = n] \in Arg
  BY Zenon DEF NoArg, Arg

\* A call that only goes on, and holds no memory before or after.
LEMMA GoesOn ==
  ASSUME IInv, NEW a \in Actor, NEW label \in PC \ {"insert_root", "revoke", "insert_from_page"}, NEW x \in Arg,
         ~Holding(a), Goto(a, label, x), objects' \subseteq Page,
         UNCHANGED <<live, region, used, free, retyped, phantom>>
  PROVE  IInv'
<1>0. TypeOK
  BY Zenon DEF IInv, Typed
<1>1. /\ pc' \in [Actor -> PC] /\ arg' \in [Actor -> Arg] /\ pc'[a] = label
      /\ \A b \in Actor \ {a} : SameHold(b)
  BY <1>0, GotoIs, Zenon
<1>2. Typed'
  BY <1>1, Zenon DEF IInv, Typed, TypeOK, SameHold
<1>3. ~Holding(a)'
  BY <1>1, Zenon DEF Holding
<1>4. \A b \in Actor : Holding(b) \/ Holding(b)' => SameHold(b)
  BY <1>1, <1>3, Zenon
<1>5. \A n \in live : SameShape(n)
  BY Zenon DEF SameShape
<1> QED BY <1>2, <1>4, <1>5, Quiet, Zenon

\* The first steps of destroy and of reclaim_region read and go on; the reaper
\* only takes objects away, and insert_from_page may add one.
LEMMA ReadersKeep ==
  ASSUME IInv, NEW a \in Actor,
         \/ insert_from_page(a) \/ region_bounds(a) \/ reap_region_objects(a)
         \/ \E r \in Name : destroy(a, r) \/ reclaim_region(a, r)
  PROVE  IInv'
<1>0. TypeOK
  BY Zenon DEF IInv, Typed
<1>1. arg[a] \in Arg /\ objects \subseteq Page
  BY <1>0, Zenon DEF TypeOK
<1>2. CASE insert_from_page(a)
  <2>1. pc[a] = "insert_from_page" /\ Goto(a, "idle", NoArg)
    BY <1>2, Zenon DEF insert_from_page, Done
  <2>2. objects' \subseteq Page
    <3>1. arg[a].base_page \in Page
      BY <2>1, Zenon DEF IInv, Typed
    <3>2. objects' = objects \cup {arg[a].base_page} \/ objects' = objects
      BY <1>2, Zenon DEF insert_from_page
    <3> QED BY <1>1, <3>1, <3>2, Zenon
  <2> QED BY <1>2, <2>1, <2>2, GoesOn, Args, Zenon DEF insert_from_page, Holding, PC
<1>3. CASE region_bounds(a)
  <2>1. PICK label \in {"idle", "reap"}, x \in Arg : Goto(a, label, x)
    <3>1. CASE arg[a].name \in live
      <4>1. region[arg[a].name].base_page \in Nat /\ region[arg[a].name].pages \in Nat
        BY <1>0, <3>1, RegionTypes, Zenon DEF TypeOK
      <4> QED BY <1>1, <1>3, <3>1, <4>1, Args, Zenon DEF region_bounds
    <3>2. CASE arg[a].name \notin live
      BY <1>3, <3>2, Args, Zenon DEF region_bounds, Done
    <3> QED BY <3>1, <3>2, Zenon
  <2> QED BY <1>1, <1>3, <2>1, GoesOn, Zenon DEF region_bounds, Holding, PC
<1>4. CASE reap_region_objects(a)
  <2>1. PICK label \in {"idle", "unpin"}, x \in Arg : Goto(a, label, x)
    BY <1>1, <1>4, Args, Zenon DEF reap_region_objects, Done
  <2>2. objects' \subseteq Page
    BY <1>1, <1>4, Zenon DEF reap_region_objects
  <2> QED BY <1>4, <2>1, <2>2, GoesOn, Zenon DEF reap_region_objects, Holding, PC
<1>5. ASSUME NEW r \in Name, destroy(a, r) \/ reclaim_region(a, r) PROVE IInv'
  <2>1. PICK label \in {"claim", "region_bounds"} : Goto(a, label, [NoArg EXCEPT !.name = r])
    BY <1>5, Zenon DEF destroy, reclaim_region
  <2>2. [NoArg EXCEPT !.name = r] \in Arg
    BY Args, Zenon
  <2> QED BY <1>1, <1>5, <2>1, <2>2, GoesOn, Zenon
          DEF destroy, reclaim_region, Idle, Holding, PC
<1> QED BY <1>2, <1>3, <1>4, <1>5, Zenon

\* One region changes.
LEMMA OneRegion ==
  ASSUME TypeOK, NEW r \in Name, NEW x \in Region, region' = [region EXCEPT ![r] = x]
  PROVE  /\ region' \in [Name -> Region] /\ region'[r] = x
         /\ \A m \in Name \ {r} : region'[m] = region[m]
  BY Zenon DEF TypeOK

\* What is left alone for every region but one.
LEMMA OtherRegions ==
  ASSUME NEW r, NEW m, region'[m] = region[m], retyped'[m] = retyped[m]
  PROVE  SameShape(m) /\ SameLevel(m) /\ region'[m].children = region[m].children
  BY Zenon DEF SameShape, SameLevel

\* unpin changes the pin.
LEMMA UnpinKeeps ==
  ASSUME IInv, NEW a \in Actor, unpin(a)
  PROVE  IInv'
<1>0. TypeOK /\ arg[a] \in Arg
  BY Zenon DEF IInv, Typed, TypeOK
<1>1. /\ pc[a] = "unpin" /\ Goto(a, "claim", arg[a])
      /\ UNCHANGED <<live, used, free, objects, retyped, phantom>>
  BY Zenon DEF unpin
<1>2. CASE arg[a].name \notin live
  <2>1. region' = region /\ objects' \subseteq Page
    BY <1>0, <1>1, <1>2, Zenon DEF unpin, TypeOK
  <2> QED BY <1>0, <1>1, <2>1, GoesOn, Zenon DEF Holding, PC
<1>3. CASE arg[a].name \in live
  <2> DEFINE r == arg[a].name
             x == [region[r] EXCEPT !.pinned = FALSE]
  <2>1. r \in Name /\ region[r] \in Region
    BY <1>0, <1>3, Zenon DEF TypeOK
  <2>2. /\ x \in Region /\ x.base_page = region[r].base_page /\ x.pages = region[r].pages
        /\ x.parent = region[r].parent /\ x.watermark = region[r].watermark
        /\ x.retyped_to = region[r].retyped_to /\ x.children = region[r].children
    BY <2>1, Zenon DEF Region
  <2>3. region' = [region EXCEPT ![r] = x]
    BY <1>3, Zenon DEF unpin
  <2> HIDE DEF x
  <2>4. /\ region' \in [Name -> Region] /\ region'[r] = x
        /\ \A m \in Name \ {r} : region'[m] = region[m]
    BY <1>0, <2>1, <2>2, <2>3, OneRegion, Zenon
  <2>5. /\ pc' \in [Actor -> PC] /\ arg' \in [Actor -> Arg] /\ pc'[a] = "claim"
        /\ \A b \in Actor \ {a} : SameHold(b)
    BY <1>0, <1>1, GotoIs, Zenon DEF PC
  <2>6. Typed'
    BY <1>1, <2>4, <2>5, Zenon DEF IInv, Typed, TypeOK, SameHold
  <2>7. \A m \in live : /\ SameShape(m) /\ region'[m].watermark = region[m].watermark
                        /\ region'[m].retyped_to = region[m].retyped_to
                        /\ region'[m].children = region[m].children
    <3> SUFFICES ASSUME NEW m \in live
                 PROVE  /\ SameShape(m) /\ region'[m].watermark = region[m].watermark
                        /\ region'[m].retyped_to = region[m].retyped_to
                        /\ region'[m].children = region[m].children
      BY Zenon
    <3>1. m \in Name
      BY <1>0, Zenon DEF TypeOK
    <3> QED BY <2>2, <2>4, <3>1, Zenon DEF SameShape
  <2>8. \A b \in Actor : Holding(b) \/ Holding(b)' => SameHold(b)
    BY <1>1, <2>5, Zenon DEF Holding
  <2> QED BY <1>1, <2>6, <2>7, <2>8, Quiet, Zenon
<1> QED BY <1>2, <1>3, Zenon

------------------------------------------------------------------------------
(* Carving.                                                                 *)

\* Carving the pages at the watermark takes nothing anybody holds.
LEMMA CarveKeeps ==
  ASSUME IInv, Typed', NEW r \in live, NEW n \in Nat, Fits(region[r], n),
         SameShape(r), region'[r].watermark = region[r].watermark + n,
         region'[r].retyped_to = region[r].watermark + n,
         region'[r].children = region[r].children,
         retyped'[r] = retyped[r] \cup Run(region[r].base_page + region[r].watermark, n),
         \A m \in Name \ {r} : region'[m] = region[m] /\ retyped'[m] = retyped[m],
         UNCHANGED <<live, used, free, phantom>>,
         \A b \in Actor : Holding(b) \/ Holding(b)' => SameHold(b)
  PROVE  IInv'
<1>0. TypeOK /\ RegionOk(r) /\ r \in Name /\ live \subseteq Name
  BY Zenon DEF IInv, Typed, TypeOK
<1>1. /\ region[r].base_page \in Nat /\ region[r].pages \in Nat /\ region[r].watermark \in Nat
      /\ region[r].retyped_to \in Nat /\ NumPages \in Nat
      /\ n > 0 /\ region[r].watermark + n <= region[r].pages
      /\ region[r].retyped_to <= region[r].watermark
      /\ region[r].base_page + region[r].pages <= NumPages
  BY <1>0, RegionTypes, Names, Zenon DEF Fits, RegionOk, Spent, Placed
<1>2. \A x \in retyped'[r] :
        x \in retyped[r] \/ Inside(region[r].base_page + region[r].watermark, n, x)
  BY Zenon DEF Run, Inside
<1>3. ASSUME NEW m \in Name \ {r}
      PROVE  SameShape(m) /\ SameLevel(m) /\ region'[m].children = region[m].children
  BY OtherRegions, Zenon
<1>4. ASSUME NEW b \in Nat, NEW c \in Nat, NEW p, Placed(b, c, p) PROVE Placed(b, c, p)'
  <2>1. CASE p # r
    <3>1. p # NO_PARENT =>
            p \in live' /\ region'[p].base_page = region[p].base_page /\ SameLevel(p)
      BY <1>0, <1>3, <1>4, <2>1, Zenon DEF Placed, SameShape
    <3> QED BY <1>4, <3>1, PlacedStays, Zenon
  <2>2. CASE p = r
    <3>1. /\ c > 0 /\ b + c <= NumPages /\ region[r].base_page <= b
          /\ b + c <= region[r].base_page + region[r].watermark
          /\ \A x \in retyped[r] : ~Inside(b, c, x)
      BY <1>0, <1>4, <2>2, Names, Zenon DEF Placed
    <3>2. b + c <= region'[r].base_page + region'[r].watermark
      BY <1>1, <3>1 DEF SameShape
    <3>3. \A x \in retyped'[r] : ~Inside(b, c, x)
      <4>1. ASSUME NEW x \in Nat, Inside(region[r].base_page + region[r].watermark, n, x)
            PROVE  ~Inside(b, c, x)
        BY <1>1, <3>1, <4>1 DEF Inside
      <4>2. retyped'[r] \in SUBSET Nat
        BY <1>0 DEF Typed, TypeOK, Page
      <4> QED BY <1>2, <3>1, <4>1, <4>2, Zenon
    <3> QED BY <1>0, <2>2, <3>1, <3>2, <3>3, Names, Zenon DEF Placed, SameShape
  <2> QED BY <2>1, <2>2, Zenon
<1>5. ASSUME NEW m \in live PROVE RegionOk(m)'
  <2>0. /\ RegionOk(m) /\ m \in Name /\ SameShape(m)
        /\ region[m].base_page \in Nat /\ region[m].pages \in Nat
    BY <1>0, <1>3, RegionTypes, Zenon DEF IInv
  <2>1. Placed(region[m].base_page, region[m].pages, region[m].parent)'
    BY <1>4, <2>0, Zenon DEF RegionOk, SameShape
  <2>2. Spent(m)' /\ Counted(m)'
    <3>0. Children(m)' = Children(m) /\ Returning(m)' = Returning(m)
      <4>1. \A c \in live : region'[c].parent = region[c].parent
        BY <1>0, <1>3, Zenon DEF SameShape
      <4> QED BY <4>1, ChildrenStay, ReturningStay, Zenon
    <3>1. CASE m # r
      BY <1>3, <2>0, <3>0, <3>1, SpentStays, CountStays, Zenon DEF RegionOk
    <3>2. CASE m = r
      <4>1. Counted(r)'
        BY <2>0, <3>0, <3>2, Zenon DEF RegionOk, Counted
      <4>2. \A x \in retyped'[r] : Inside(region'[r].base_page, region'[r].retyped_to, x)
        <5>1. \A x \in retyped[r] : Inside(region[r].base_page, region[r].retyped_to, x)
          BY <1>0, Zenon DEF RegionOk, Spent
        <5>2. retyped'[r] \in SUBSET Nat
          BY <1>0 DEF Typed, TypeOK, Page
        <5> QED BY <1>1, <1>2, <5>1, <5>2 DEF Inside, SameShape
      <4>3. region'[r].base_page + region'[r].retyped_to - 1 \in retyped'[r]
        <5>1. /\ region[r].base_page + (region[r].watermark + n) - 1 \in Page
              /\ region[r].base_page + region[r].watermark <=
                   region[r].base_page + (region[r].watermark + n) - 1
              /\ region[r].base_page + (region[r].watermark + n) - 1 <
                   region[r].base_page + region[r].watermark + n
          BY <1>1 DEF Page
        <5> QED BY <5>1, Zenon DEF Run, SameShape
      <4>4. /\ region'[r].retyped_to <= region'[r].watermark
            /\ region'[r].watermark <= region'[r].pages
        BY <1>1 DEF SameShape
      <4> QED BY <3>2, <4>1, <4>2, <4>3, <4>4, Zenon DEF Spent
    <3> QED BY <3>1, <3>2, Zenon
  <2> QED BY <2>0, <2>1, <2>2, Zenon DEF RegionOk
<1>6. ASSUME NEW a \in Actor PROVE HolderOk(a)'
  <2>1. arg[a].base_page \in Nat /\ arg[a].pages \in Nat
    BY <1>0, ArgTypes, Zenon
  <2> QED BY <1>4, <2>1, Zenon DEF IInv, HolderOk, Holding, SameHold
<1>7. SiblingsApart'
  <2>1. LessHeld /\ \A m \in live : SameShape(m)
    BY <1>0, <1>3, Zenon DEF LessHeld, Holding, SameHold
  <2> QED BY <2>1, ApartStays, Zenon DEF IInv
<1>8. Unborn'
  <2>1. \A m \in Name : m > used => m # r
    <3>1. r <= used /\ used \in Nat /\ r \in Nat
      BY <1>0, Names DEF RegionOk, TypeOK
    <3> QED BY <3>1
  <2> QED BY <2>1, Zenon DEF IInv, Unborn
<1> QED BY <1>5, <1>6, <1>7, <1>8, Zenon DEF IInv

\* The region retype_run and retype_object_page leave behind.
LEMMA CarvedRegion ==
  ASSUME IInv, NEW r \in live, NEW n \in Nat, NEW pin \in BOOLEAN, Fits(region[r], n),
         NEW x, x = [region[r] EXCEPT !.pinned = pin, !.watermark = region[r].watermark + n,
                                      !.retyped_to = region[r].watermark + n],
         region' = [region EXCEPT ![r] = x],
         retyped' = [retyped EXCEPT ![r] =
            retyped[r] \cup Run(region[r].base_page + region[r].watermark, n)]
  PROVE  /\ region' \in [Name -> Region] /\ retyped' \in [Name -> SUBSET Page]
         /\ SameShape(r) /\ region'[r].watermark = region[r].watermark + n
         /\ region'[r].retyped_to = region[r].watermark + n
         /\ region'[r].children = region[r].children
         /\ retyped'[r] = retyped[r] \cup Run(region[r].base_page + region[r].watermark, n)
         /\ \A m \in Name \ {r} : region'[m] = region[m] /\ retyped'[m] = retyped[m]
<1>0. TypeOK /\ r \in Name /\ region[r] \in Region /\ retyped[r] \subseteq Page
  BY Zenon DEF IInv, Typed, TypeOK
<1>1. region[r].watermark + n \in 0 .. NumPages
  <2>1. region[r].watermark \in 0 .. NumPages /\ region[r].pages \in 0 .. NumPages
    BY <1>0, Zenon DEF Region
  <2>2. region[r].watermark + n <= region[r].pages /\ NumPages \in Nat
    BY Names, Zenon DEF Fits
  <2> QED BY <2>1, <2>2
<1>2. /\ x \in Region /\ x.base_page = region[r].base_page /\ x.pages = region[r].pages
      /\ x.parent = region[r].parent /\ x.watermark = region[r].watermark + n
      /\ x.retyped_to = region[r].watermark + n /\ x.children = region[r].children
  BY <1>0, <1>1, Zenon DEF Region
<1>3. /\ region' \in [Name -> Region] /\ region'[r] = x
      /\ \A m \in Name \ {r} : region'[m] = region[m]
  BY <1>0, <1>2, OneRegion, Zenon
<1>4. /\ retyped' \in [Name -> SUBSET Page]
      /\ retyped'[r] = retyped[r] \cup Run(region[r].base_page + region[r].watermark, n)
      /\ \A m \in Name \ {r} : retyped'[m] = retyped[m]
  <2>1. retyped[r] \cup Run(region[r].base_page + region[r].watermark, n) \in SUBSET Page
    BY <1>0, Zenon DEF Run
  <2> QED BY <1>0, <2>1, Zenon DEF TypeOK
<1> QED BY <1>2, <1>3, <1>4, Zenon DEF SameShape

\* retype_run, and a kernel object's page under one hold of both locks or under
\* two in turn.
LEMMA RetypeKeeps ==
  ASSUME IInv, NEW a \in Actor, NEW r \in Name,
         retype_run(a, r) \/ create_rendezvous(a, r) \/ create_thread_control_block(a, r)
  PROVE  IInv'
<1>0. TypeOK /\ pc[a] = "idle" /\ r \in live /\ UNCHANGED <<live, used, free, phantom>>
  BY Zenon DEF IInv, Typed, retype_run, create_rendezvous, create_thread_control_block, Idle,
     retype_object_page
<1>1. PICK n \in Nat, pin \in BOOLEAN :
        /\ Fits(region[r], n)
        /\ region' = [region EXCEPT ![r] =
             [region[r] EXCEPT !.pinned = pin, !.watermark = region[r].watermark + n,
                               !.retyped_to = region[r].watermark + n]]
        /\ retyped' = [retyped EXCEPT ![r] =
             retyped[r] \cup Run(region[r].base_page + region[r].watermark, n)]
  <2>0. region[r] \in Region /\ region[r].pinned \in BOOLEAN /\ NumPages \in Nat
    BY <1>0, RegionTypes, Names, Zenon DEF TypeOK
  <2>1. CASE retype_run(a, r)
    <3>1. PICK n \in 1 .. NumPages :
            /\ Carve(r, n)
            /\ region' = [region EXCEPT ![r].watermark = region[r].watermark + n,
                                        ![r].retyped_to = region[r].watermark + n]
      BY <2>1, Zenon DEF retype_run
    <3>2. region' = [region EXCEPT ![r] =
             [region[r] EXCEPT !.pinned = region[r].pinned,
                               !.watermark = region[r].watermark + n,
                               !.retyped_to = region[r].watermark + n]]
      BY <1>0, <2>0, <3>1, Zenon DEF TypeOK, Region
    <3>3. n \in Nat
      BY <2>0, <3>1
    <3> QED BY <2>0, <3>1, <3>2, <3>3, Zenon DEF Carve
  <2>2. CASE create_rendezvous(a, r) \/ create_thread_control_block(a, r)
    <3>1. /\ Carve(r, 1)
          /\ region' = [region EXCEPT ![r].pinned = TRUE,
                                      ![r].watermark = region[r].watermark + 1,
                                      ![r].retyped_to = region[r].watermark + 1]
      BY <2>2, Zenon DEF create_rendezvous, create_thread_control_block, retype_object_page
    <3>2. region' = [region EXCEPT ![r] =
             [region[r] EXCEPT !.pinned = TRUE, !.watermark = region[r].watermark + 1,
                               !.retyped_to = region[r].watermark + 1]]
      BY <1>0, <2>0, <3>1, Zenon DEF TypeOK, Region
    <3>3. 1 \in Nat
      BY Zenon
    <3> QED BY <3>1, <3>2, <3>3, Zenon DEF Carve
  <2> QED BY <2>1, <2>2, Zenon
<1>2. PICK x : x = [region[r] EXCEPT !.pinned = pin, !.watermark = region[r].watermark + n,
                                     !.retyped_to = region[r].watermark + n]
  BY Zenon
<1>3. /\ region' \in [Name -> Region] /\ retyped' \in [Name -> SUBSET Page]
      /\ SameShape(r) /\ region'[r].watermark = region[r].watermark + n
      /\ region'[r].retyped_to = region[r].watermark + n
      /\ region'[r].children = region[r].children
      /\ retyped'[r] = retyped[r] \cup Run(region[r].base_page + region[r].watermark, n)
      /\ \A m \in Name \ {r} : region'[m] = region[m] /\ retyped'[m] = retyped[m]
  <2>1. region' = [region EXCEPT ![r] = x]
    BY <1>1, <1>2, Zenon
  <2> QED BY <1>0, <1>1, <1>2, <2>1, CarvedRegion, Zenon
<1>4. NextPage(r) \in Page /\ NextPage(r) \in Nat
  <2>1. /\ region[r].base_page \in Nat /\ region[r].pages \in Nat /\ region[r].watermark \in Nat
        /\ NumPages \in Nat /\ n > 0 /\ region[r].watermark + n <= region[r].pages
        /\ region[r].base_page + region[r].pages <= NumPages
    BY <1>0, <1>1, RegionTypes, Names, Zenon DEF Fits, IInv, RegionOk, Placed
  <2> QED BY <2>1 DEF NextPage, Page
<1>5. /\ pc' \in [Actor -> PC] /\ arg' \in [Actor -> Arg] /\ objects' \subseteq Page
      /\ pc'[a] \in {"idle", "insert_from_page"}
      /\ pc'[a] = "insert_from_page" => arg'[a].base_page \in Page
      /\ \A b \in Actor \ {a} : SameHold(b)
  <2>0. objects \subseteq Page
    BY <1>0, Zenon DEF TypeOK
  <2>1. CASE retype_run(a, r) \/ create_rendezvous(a, r)
    <3>1. UNCHANGED <<pc, arg>> /\ (objects' = objects \/ objects' = objects \cup {NextPage(r)})
      BY <2>1, Zenon DEF retype_run, create_rendezvous
    <3> QED BY <1>0, <1>4, <2>0, <3>1, Zenon DEF TypeOK, SameHold
  <2>2. CASE create_thread_control_block(a, r)
    <3>1. /\ Goto(a, "insert_from_page", [NoArg EXCEPT !.base_page = NextPage(r)])
          /\ objects' = objects
      BY <2>2, Zenon DEF create_thread_control_block
    <3>2. /\ [NoArg EXCEPT !.base_page = NextPage(r)] \in Arg
          /\ [NoArg EXCEPT !.base_page = NextPage(r)].base_page = NextPage(r)
      BY <1>4, Zenon DEF NoArg, Arg
    <3>3. /\ pc' \in [Actor -> PC] /\ arg' \in [Actor -> Arg] /\ pc'[a] = "insert_from_page"
          /\ arg'[a] = [NoArg EXCEPT !.base_page = NextPage(r)]
          /\ \A b \in Actor \ {a} : SameHold(b)
      BY <1>0, <3>1, <3>2, GotoIs, Zenon DEF PC
    <3> QED BY <1>4, <2>0, <3>1, <3>2, <3>3, Zenon
  <2> QED BY <2>1, <2>2, Zenon
<1>6. Typed'
  BY <1>0, <1>3, <1>5, Zenon DEF IInv, Typed, TypeOK, SameHold
<1>7. \A b \in Actor : Holding(b) \/ Holding(b)' => SameHold(b)
  BY <1>0, <1>5, Zenon DEF Holding
<1> QED BY <1>0, <1>1, <1>3, <1>6, <1>7, CarveKeeps, Zenon

------------------------------------------------------------------------------
(* Regions that come to be.                                                 *)

\* Nobody's parent is a name that has not been given out.
LEMMA NoOrphans ==
  ASSUME IInv, NEW c \in Name, c \notin live
  PROVE  Children(c) = {} /\ Returning(c) = {}
<1>1. c # NO_PARENT
  BY Names, Zenon
<1>2. \A m \in live : region[m].parent # c
  BY <1>1, Zenon DEF IInv, RegionOk, Placed
<1>3. \A b \in Actor : Holding(b) => arg[b].parent # c
  BY <1>1, Zenon DEF IInv, HolderOk, Placed
<1> QED BY <1>2, <1>3, Zenon DEF Children, Returning, Claims, Holding

\* The fields of a region just inserted.
LEMMA FreshIs ==
  ASSUME NEW b \in Page, NEW n \in 0 .. NumPages, NEW p \in Name \cup {NO_PARENT}
  PROVE  /\ Fresh(b, n, p) \in Region
         /\ Fresh(b, n, p).base_page = b /\ Fresh(b, n, p).pages = n
         /\ Fresh(b, n, p).parent = p /\ Fresh(b, n, p).watermark = 0
         /\ Fresh(b, n, p).retyped_to = 0 /\ Fresh(b, n, p).children = 0
<1>1. 0 \in 0 .. NumPages
  BY Names
<1> QED BY <1>1, Zenon DEF Fresh, Region

\* What the birth of region c, the n pages at b out of p, does to the rest.
Born(b, n, p, c) ==
    /\ c = used + 1 /\ used' = used + 1 /\ live' = live \cup {c}
    /\ free' = free /\ retyped' = retyped /\ phantom' = phantom
    /\ region'[c].base_page = b /\ region'[c].pages = n /\ region'[c].parent = p
    /\ region'[c].watermark = 0 /\ region'[c].retyped_to = 0 /\ region'[c].children = 0
    /\ \A m \in live \ {p} : region'[m] = region[m]
    /\ p \in live =>
          /\ SameShape(p) /\ region'[p].retyped_to = region[p].retyped_to
          /\ region'[p].watermark = region[p].watermark + n
          /\ region'[p].children = region[p].children + 1
          /\ region[p].watermark + n <= region[p].pages
    /\ LessHeld
    /\ \A o \in Actor : pc[o] = "revoke" => SameHold(o)

\* A new region is a piece of its own: it disturbs no other.
LEMMA BirthKeeps ==
  ASSUME IInv, Typed', NEW b \in Nat, NEW n \in Nat, NEW p \in live \cup {NO_PARENT},
         NEW c \in Name, Born(b, n, p, c), Placed(b, n, p)',
         \A m \in live : region[m].parent = p =>
             Apart(region[m].base_page, region[m].pages, b, n),
         \A o \in Actor : Holding(o)' /\ arg[o].parent = p =>
             Apart(b, n, arg[o].base_page, arg[o].pages)
  PROVE  IInv'
<1>0. TypeOK /\ live \subseteq Name /\ used \in Nat
  BY DEF IInv, Typed, TypeOK
<1>1. c \notin live /\ c # NO_PARENT /\ p # c /\ c > used
  <2>1. \A m \in live : m <= used
    BY Zenon DEF IInv, RegionOk
  <2>2. c \notin live /\ c > used
    BY <1>0, <2>1 DEF Born
  <2> QED BY <2>2, Names, Zenon
<1>2. \A m \in live : SameShape(m)
  BY Zenon DEF Born, SameShape
<1>10. /\ live' = live \cup {c} /\ LessHeld /\ region'[c].parent = p
       /\ region'[c].base_page = b /\ region'[c].pages = n
       /\ \A m \in live : region'[m].parent = region[m].parent
  BY <1>2, Zenon DEF Born, SameShape
<1>3. ASSUME NEW x \in Nat, NEW y \in Nat, NEW q, Placed(x, y, q) PROVE Placed(x, y, q)'
  <2>1. CASE q = p /\ q # NO_PARENT
    <3>1. /\ y > 0 /\ x + y <= NumPages /\ p \in live /\ region[p].base_page <= x
          /\ x + y <= region[p].base_page + region[p].watermark
          /\ \A z \in retyped[p] : ~Inside(x, y, z)
      BY <1>3, <2>1, Zenon DEF Placed
    <3>2. /\ region[p].base_page \in Nat /\ region[p].watermark \in Nat
          /\ region'[p].watermark = region[p].watermark + n
          /\ region'[p].base_page = region[p].base_page
      BY <1>0, <3>1, RegionTypes, Zenon DEF Born, SameShape
    <3>3. x + y <= region'[p].base_page + region'[p].watermark
      BY <3>1, <3>2
    <3> QED BY <2>1, <3>1, <3>2, <3>3, Zenon DEF Placed, Born
  <2>2. CASE ~(q = p /\ q # NO_PARENT)
    <3>1. q # NO_PARENT => q \in live /\ q # p
      BY <1>3, <2>2, Zenon DEF Placed
    <3>2. q # NO_PARENT =>
            q \in live' /\ region'[q].base_page = region[q].base_page /\ SameLevel(q)
      BY <3>1, Zenon DEF Born, SameLevel
    <3>3. free' \subseteq free
      BY Zenon DEF Born
    <3> QED BY <1>3, <3>2, <3>3, PlacedStays, Zenon
  <2> QED BY <2>1, <2>2, Zenon
<1>4. ASSUME NEW m PROVE Returning(m)' = Returning(m)
  <2>1. \A o \in Actor : pc'[o] = "revoke" => Holding(o)' /\ SameHold(o)
    BY Zenon DEF Born, LessHeld, Holding
  <2>2. \A o \in Actor : pc[o] = "revoke" => SameHold(o)
    BY Zenon DEF Born
  <2> QED BY <2>1, <2>2, Zenon DEF Returning, Claims, SameHold
<1>5. ASSUME NEW m \in live PROVE RegionOk(m)'
  <2>0. RegionOk(m) /\ SameShape(m) /\ m \in Name
    BY <1>0, <1>2, Zenon DEF IInv
  <2>1. Placed(region[m].base_page, region[m].pages, region[m].parent)'
    <3>1. region[m].base_page \in Nat /\ region[m].pages \in Nat
      BY <1>0, <2>0, RegionTypes, Zenon
    <3> QED BY <1>3, <2>0, <3>1, Zenon DEF RegionOk, SameShape
  <2>2. m <= used'
    BY <1>0, <2>0, Names DEF RegionOk, Born
  <2>3. CASE m # p
    <3>1. SameLevel(m) /\ region'[m].children = region[m].children /\ phantom'[m] = phantom[m]
      BY <2>3, Zenon DEF Born, SameLevel
    <3>2. Children(m)' = Children(m)
      BY <1>1, <1>10, <2>3, Zenon DEF Children
    <3> QED BY <1>4, <2>0, <2>1, <2>2, <3>1, <3>2, SpentStays, CountStays, Zenon DEF RegionOk
  <2>4. CASE m = p
    <3>1. /\ region'[m].watermark = region[m].watermark + n /\ phantom'[m] = phantom[m]
          /\ region'[m].retyped_to = region[m].retyped_to /\ retyped'[m] = retyped[m]
          /\ region'[m].children = region[m].children + 1
          /\ region[m].watermark + n <= region[m].pages
      BY <2>4, Zenon DEF Born
    <3>2. Children(m)' = Children(m) \cup {c} /\ c \notin Children(m)
      BY <1>1, <1>10, <2>4, Zenon DEF Children
    <3>3. /\ IsFiniteSet(Children(m)) /\ Cardinality(Children(m)) \in Nat
          /\ Cardinality(Returning(m)) \in Nat /\ phantom[m] \in Nat
          /\ region[m].watermark \in Nat /\ region[m].retyped_to \in Nat
      BY <1>0, <2>0, Finite, RegionTypes, Zenon DEF TypeOK
    <3>4. Cardinality(Children(m)') = Cardinality(Children(m)) + 1
      BY <3>2, <3>3, FS_AddElement, Zenon
    <3>5. region[m].children =
            Cardinality(Children(m)) + Cardinality(Returning(m)) + phantom[m]
      BY <2>0, Zenon DEF RegionOk, Counted
    <3>6. /\ region'[m].children =
               Cardinality(Children(m)') + Cardinality(Returning(m)) + phantom[m]
          /\ region'[m].children # 0
      BY <3>1, <3>3, <3>4, <3>5
    <3>7. Counted(m)'
      BY <1>4, <3>1, <3>6, Zenon DEF Counted
    <3>8. Spent(m)'
      <4>1. region[m].retyped_to <= region[m].watermark + n
        BY <2>0, <3>3 DEF RegionOk, Spent
      <4> QED BY <2>0, <3>1, <4>1, Zenon DEF RegionOk, Spent, SameShape
    <3> QED BY <2>1, <2>2, <3>7, <3>8, Zenon DEF RegionOk
  <2> QED BY <2>3, <2>4, Zenon
<1>6. RegionOk(c)'
  <2>1. Children(c) = {} /\ Returning(c) = {}
    BY <1>1, NoOrphans, Zenon
  <2>2. Children(c)' = {} /\ Returning(c)' = {}
    BY <1>1, <1>4, <1>10, <2>1, Zenon DEF Children
  <2>3. retyped'[c] = {} /\ phantom'[c] = 0
    BY <1>1, Zenon DEF IInv, Unborn, Born
  <2>4. Counted(c)'
    <3>1. Cardinality({}) = 0 /\ 0 = 0 + 0 + 0
      BY FS_EmptySet
    <3> QED BY <2>2, <2>3, <3>1, Zenon DEF Counted, Born
  <2>5. Spent(c)'
    <3>1. 0 <= 0 /\ 0 <= n /\ ~(0 > 0)
      OBVIOUS
    <3> QED BY <2>3, <3>1, Zenon DEF Spent, Born
  <2>6. c <= used'
    BY <1>0 DEF Born
  <2>7. Placed(region[c].base_page, region[c].pages, region[c].parent)'
    BY Zenon DEF Born
  <2> QED BY <2>4, <2>5, <2>6, <2>7, Zenon DEF RegionOk
<1>7. ASSUME NEW o \in Actor PROVE HolderOk(o)'
  <2>1. arg[o].base_page \in Nat /\ arg[o].pages \in Nat
    BY <1>0, ArgTypes, Zenon
  <2>2. Holding(o)' => Holding(o) /\ SameHold(o)
    BY Zenon DEF Born, LessHeld
  <2> QED BY <1>3, <2>1, <2>2, Zenon DEF IInv, HolderOk, SameHold
<1>8. SiblingsApart'
  <2>0. SiblingsApart /\ LessHeld
    BY Zenon DEF IInv, Born
  <2>1. \A k \in live : region[k].parent = p =>
           Apart(b, n, region[k].base_page, region[k].pages)
    BY Zenon DEF Apart
  <2>2. ASSUME NEW k \in live', NEW m \in live', k # m, region'[k].parent = region'[m].parent
        PROVE  Apart(region'[k].base_page, region'[k].pages,
                     region'[m].base_page, region'[m].pages)
    <3>1. CASE k \in live /\ m \in live
      BY <1>2, <2>0, <2>2, <3>1, Zenon DEF SiblingsApart, SameShape
    <3>2. CASE k = c /\ m \in live
      BY <1>2, <1>10, <2>1, <2>2, <3>2, Zenon DEF SameShape
    <3>3. CASE k \in live /\ m = c
      BY <1>2, <1>10, <2>2, <3>3, Zenon DEF SameShape
    <3> QED BY <1>10, <2>2, <3>1, <3>2, <3>3, Zenon
  <2>3. ASSUME NEW k \in live', NEW o \in Actor, Holding(o)',
               region'[k].parent = arg'[o].parent
        PROVE  Apart(region'[k].base_page, region'[k].pages, arg'[o].base_page, arg'[o].pages)
    <3>0. Holding(o) /\ arg'[o] = arg[o]
      BY <2>0, <2>3, Zenon DEF LessHeld, SameHold
    <3>1. CASE k \in live
      BY <1>2, <2>0, <2>3, <3>0, <3>1, Zenon DEF SiblingsApart, SameShape
    <3>2. CASE k = c
      BY <1>10, <2>3, <3>0, <3>2, Zenon
    <3> QED BY <1>10, <2>3, <3>1, <3>2, Zenon
  <2>4. \A o, q \in Actor :
           o # q /\ Holding(o)' /\ Holding(q)' /\ arg'[o].parent = arg'[q].parent =>
             Apart(arg'[o].base_page, arg'[o].pages, arg'[q].base_page, arg'[q].pages)
    BY <2>0, Zenon DEF SiblingsApart, LessHeld, SameHold
  <2> QED BY <2>2, <2>3, <2>4, Zenon DEF SiblingsApart
<1>9. Unborn'
  <2>1. \A m \in Name : m > used + 1 => m > used
    BY <1>0, Names
  <2> QED BY <2>1, Zenon DEF IInv, Unborn, Born
<1> QED BY <1>5, <1>6, <1>7, <1>8, <1>9, <1>10, Zenon DEF IInv

\* The region a split leaves behind, with or without a slot for the child.
LEMMA BumpedIs ==
  ASSUME IInv, NEW p \in live, NEW n \in Nat, Fits(region[p], n), NEW bumped,
         bumped = [region EXCEPT ![p].watermark = region[p].watermark + n,
                                 ![p].children = region[p].children + 1]
  PROVE  /\ bumped \in [Name -> Region]
         /\ bumped[p].base_page = region[p].base_page /\ bumped[p].pages = region[p].pages
         /\ bumped[p].parent = region[p].parent
         /\ bumped[p].retyped_to = region[p].retyped_to
         /\ bumped[p].watermark = region[p].watermark + n
         /\ bumped[p].children = region[p].children + 1
         /\ \A m \in Name \ {p} : bumped[m] = region[m]
<1>0. TypeOK /\ p \in Name /\ region[p] \in Region /\ region \in [Name -> Region]
  BY Zenon DEF IInv, Typed, TypeOK
<1>1. region[p].watermark + n \in 0 .. NumPages /\ region[p].children + 1 \in Nat
  <2>1. /\ region[p].watermark \in 0 .. NumPages /\ region[p].pages \in 0 .. NumPages
        /\ region[p].children \in Nat
    BY <1>0, Zenon DEF Region
  <2>2. region[p].watermark + n <= region[p].pages /\ NumPages \in Nat
    BY Names, Zenon DEF Fits
  <2> QED BY <2>1, <2>2
<1>2. PICK x : x = [region[p] EXCEPT !.watermark = region[p].watermark + n,
                                     !.children = region[p].children + 1]
  BY Zenon
<1>3. /\ x \in Region /\ x.base_page = region[p].base_page /\ x.pages = region[p].pages
      /\ x.parent = region[p].parent /\ x.retyped_to = region[p].retyped_to
      /\ x.watermark = region[p].watermark + n /\ x.children = region[p].children + 1
  BY <1>0, <1>1, <1>2, Zenon DEF Region
<1>4. bumped = [region EXCEPT ![p] = x]
  BY <1>0, <1>2, Zenon
<1> QED BY <1>0, <1>3, <1>4, Zenon

\* The piece at the watermark is nobody's yet.
LEMMA AtWatermark ==
  ASSUME IInv, NEW p \in live, NEW n \in Nat, Fits(region[p], n),
         NEW b, b = region[p].base_page + region[p].watermark
  PROVE  /\ b \in Nat /\ b \in Page /\ n \in 0 .. NumPages /\ n > 0 /\ b + n <= NumPages
         /\ region[p].watermark + n <= region[p].pages
         /\ region[p].base_page <= b
         /\ b + n <= region[p].base_page + (region[p].watermark + n)
         /\ \A x \in retyped[p] : ~Inside(b, n, x)
         /\ \A m \in live : region[m].parent = p =>
               Apart(region[m].base_page, region[m].pages, b, n)
         /\ \A o \in Actor : Holding(o) /\ arg[o].parent = p =>
               Apart(b, n, arg[o].base_page, arg[o].pages)
<1>0. TypeOK /\ RegionOk(p) /\ p \in Name /\ p # NO_PARENT
  BY Names, Zenon DEF IInv, Typed, TypeOK
<1>1. /\ region[p].base_page \in Nat /\ region[p].pages \in Nat /\ region[p].watermark \in Nat
      /\ region[p].retyped_to \in Nat /\ NumPages \in Nat
      /\ n > 0 /\ region[p].watermark + n <= region[p].pages
      /\ region[p].retyped_to <= region[p].watermark
      /\ region[p].base_page + region[p].pages <= NumPages
  BY <1>0, RegionTypes, Names, Zenon DEF Fits, RegionOk, Spent, Placed
<1>2. /\ b \in Nat /\ b \in Page /\ n \in 0 .. NumPages /\ b + n <= NumPages
      /\ region[p].base_page <= b
      /\ b + n <= region[p].base_page + (region[p].watermark + n)
  BY <1>1 DEF Page
<1>3. \A x \in retyped[p] : ~Inside(b, n, x)
  <2>1. retyped[p] \in SUBSET Nat
    BY <1>0 DEF TypeOK, Page
  <2>2. \A x \in retyped[p] : Inside(region[p].base_page, region[p].retyped_to, x)
    BY <1>0, Zenon DEF RegionOk, Spent
  <2> QED BY <1>1, <2>1, <2>2 DEF Inside
<1>4. \A m \in live : region[m].parent = p => Apart(region[m].base_page, region[m].pages, b, n)
  BY <1>0, Zenon DEF IInv, RegionOk, Placed, Apart
<1>5. \A o \in Actor : Holding(o) /\ arg[o].parent = p =>
          Apart(b, n, arg[o].base_page, arg[o].pages)
  BY <1>0, Zenon DEF IInv, HolderOk, Placed, Apart
<1> QED BY <1>1, <1>2, <1>3, <1>4, <1>5, Zenon

\* A child that gets no slot is counted for good.
LEMMA PhantomKeeps ==
  ASSUME IInv, Typed', NEW p \in live, NEW n \in Nat, Fits(region[p], n),
         SameShape(p), region'[p].watermark = region[p].watermark + n,
         region'[p].retyped_to = region[p].retyped_to,
         region'[p].children = region[p].children + 1,
         \A m \in Name \ {p} : region'[m] = region[m] /\ phantom'[m] = phantom[m],
         phantom'[p] = phantom[p] + 1,
         UNCHANGED <<live, used, free, retyped, pc, arg>>
  PROVE  IInv'
<1>0. TypeOK /\ RegionOk(p) /\ p \in Name /\ live \subseteq Name
  BY Zenon DEF IInv, Typed, TypeOK
<1>1. /\ region[p].base_page \in Nat /\ region[p].watermark \in Nat
      /\ region[p].retyped_to \in Nat
      /\ region[p].watermark + n <= region[p].pages
      /\ region[p].retyped_to <= region[p].watermark
  BY <1>0, RegionTypes, Zenon DEF Fits, RegionOk, Spent
<1>2. ASSUME NEW m \in live \ {p}
      PROVE  /\ SameShape(m) /\ SameLevel(m) /\ region'[m].children = region[m].children
             /\ phantom'[m] = phantom[m]
  BY <1>0, OtherRegions, Zenon
<1>3. ASSUME NEW b \in Nat, NEW c \in Nat, NEW q, Placed(b, c, q) PROVE Placed(b, c, q)'
  <2>1. CASE q # p
    <3>1. q # NO_PARENT =>
            q \in live' /\ region'[q].base_page = region[q].base_page /\ SameLevel(q)
      BY <1>2, <1>3, <2>1, Zenon DEF Placed, SameShape
    <3> QED BY <1>3, <3>1, PlacedStays, Zenon
  <2>2. CASE q = p
    <3>1. b + c <= region[p].base_page + region[p].watermark
      BY <1>0, <1>3, <2>2, Names, Zenon DEF Placed
    <3>2. b + c <= region'[p].base_page + region'[p].watermark
      BY <1>1, <3>1 DEF SameShape
    <3> QED BY <1>0, <1>3, <2>2, <3>2, Names, Zenon DEF Placed, SameShape
  <2> QED BY <2>1, <2>2, Zenon
<1>4. ASSUME NEW m \in live PROVE RegionOk(m)'
  <2>0. /\ RegionOk(m) /\ m \in Name /\ SameShape(m)
        /\ region[m].base_page \in Nat /\ region[m].pages \in Nat
    BY <1>0, <1>2, RegionTypes, Zenon DEF IInv
  <2>1. Placed(region[m].base_page, region[m].pages, region[m].parent)'
    BY <1>3, <2>0, Zenon DEF RegionOk, SameShape
  <2>2. Children(m)' = Children(m) /\ Returning(m)' = Returning(m)
    <3>1. \A c \in live : region'[c].parent = region[c].parent
      BY <1>2, Zenon DEF SameShape
    <3>2. \A b \in Actor : SameHold(b)
      BY Zenon DEF SameHold
    <3> QED BY <3>1, <3>2, ChildrenStay, ReturningStay, Zenon
  <2>3. CASE m # p
    BY <1>2, <2>0, <2>1, <2>2, <2>3, SpentStays, CountStays, Zenon DEF RegionOk
  <2>4. CASE m = p
    <3>1. /\ Cardinality(Children(p)) \in Nat /\ Cardinality(Returning(p)) \in Nat
          /\ phantom[p] \in Nat
      BY <1>0, Finite, Zenon DEF TypeOK
    <3>2. region[p].children =
            Cardinality(Children(p)) + Cardinality(Returning(p)) + phantom[p]
      BY <1>0, Zenon DEF RegionOk, Counted
    <3>3. /\ region'[p].children =
               Cardinality(Children(p)) + Cardinality(Returning(p)) + phantom'[p]
          /\ region'[p].children # 0
      BY <3>1, <3>2
    <3>4. Counted(p)'
      BY <2>2, <2>4, <3>3, Zenon DEF Counted
    <3>5. Spent(p)'
      <4>1. region[p].retyped_to <= region[p].watermark + n
        BY <1>1
      <4> QED BY <1>0, <1>1, <4>1, Zenon DEF RegionOk, Spent, SameShape
    <3> QED BY <2>0, <2>1, <2>4, <3>4, <3>5, Zenon DEF RegionOk
  <2> QED BY <2>3, <2>4, Zenon
<1>5. ASSUME NEW a \in Actor PROVE HolderOk(a)'
  <2>1. arg[a].base_page \in Nat /\ arg[a].pages \in Nat
    BY <1>0, ArgTypes, Zenon
  <2> QED BY <1>3, <2>1, Zenon DEF IInv, HolderOk, Holding
<1>6. SiblingsApart'
  <2>1. LessHeld /\ \A m \in live : SameShape(m)
    BY <1>2, Zenon DEF LessHeld, Holding, SameHold
  <2> QED BY <2>1, ApartStays, Zenon DEF IInv
<1>7. Unborn'
  <2>1. \A m \in Name : m > used => m # p
    <3>1. p <= used /\ used \in Nat /\ p \in Nat
      BY <1>0, Names DEF RegionOk, TypeOK
    <3> QED BY <3>1
  <2> QED BY <2>1, Zenon DEF IInv, Unborn
<1> QED BY <1>4, <1>5, <1>6, <1>7, Zenon DEF IInv

\* split carves a child at the watermark, or only spends the pages.
LEMMA SplitKeeps ==
  ASSUME IInv, NEW a \in Actor, NEW p \in Name, split(a, p)
  PROVE  IInv'
<1>0. /\ TypeOK /\ p \in live /\ used < NumNames
      /\ UNCHANGED <<free, objects, pc, arg, retyped>>
  BY Zenon DEF IInv, Typed, split
<1>1. PICK n \in 1 .. NumPages :
        LET bumped == [region EXCEPT ![p].watermark = @ + n, ![p].children = @ + 1]
            child  == Fresh(region[p].base_page + region[p].watermark, n, p)
        IN  /\ Fits(region[p], n)
            /\ \/ /\ HasSlot
                  /\ used' = used + 1
                  /\ live' = live \cup {used + 1}
                  /\ region' = [bumped EXCEPT ![used + 1] = child]
                  /\ UNCHANGED phantom
               \/ /\ ~HasSlot
                  /\ region' = bumped
                  /\ phantom' = [phantom EXCEPT ![p] = @ + 1]
                  /\ UNCHANGED <<used, live>>
  BY Zenon DEF split
<1>2. PICK bumped : bumped = [region EXCEPT ![p].watermark = region[p].watermark + n,
                                            ![p].children = region[p].children + 1]
  BY Zenon
<1>3. PICK b : b = region[p].base_page + region[p].watermark
  BY Zenon
<1>4. n \in Nat /\ Fits(region[p], n)
  BY <1>1, Names
<1>5. /\ bumped \in [Name -> Region]
      /\ bumped[p].base_page = region[p].base_page /\ bumped[p].pages = region[p].pages
      /\ bumped[p].parent = region[p].parent /\ bumped[p].retyped_to = region[p].retyped_to
      /\ bumped[p].watermark = region[p].watermark + n
      /\ bumped[p].children = region[p].children + 1
      /\ \A m \in Name \ {p} : bumped[m] = region[m]
  BY <1>0, <1>2, <1>4, BumpedIs
<1>6. /\ b \in Nat /\ b \in Page /\ n \in 0 .. NumPages /\ n > 0 /\ b + n <= NumPages
      /\ region[p].watermark + n <= region[p].pages
      /\ region[p].base_page <= b
      /\ b + n <= region[p].base_page + (region[p].watermark + n)
      /\ \A x \in retyped[p] : ~Inside(b, n, x)
      /\ \A m \in live : region[m].parent = p =>
            Apart(region[m].base_page, region[m].pages, b, n)
      /\ \A o \in Actor : Holding(o) /\ arg[o].parent = p =>
            Apart(b, n, arg[o].base_page, arg[o].pages)
  BY <1>0, <1>3, <1>4, AtWatermark, Zenon
<1>7. CASE ~HasSlot
  <2>1. /\ region' = bumped /\ phantom' = [phantom EXCEPT ![p] = phantom[p] + 1]
        /\ UNCHANGED <<used, live>>
    BY <1>1, <1>2, <1>7, Zenon
  <2>2. /\ phantom' \in [Name -> Nat] /\ phantom'[p] = phantom[p] + 1
        /\ \A m \in Name \ {p} : phantom'[m] = phantom[m]
    BY <1>0, <2>1 DEF TypeOK
  <2>3. Typed'
    BY <1>0, <1>5, <2>1, <2>2, Zenon DEF IInv, Typed, TypeOK
  <2>4. SameShape(p)
    BY <1>5, <2>1, Zenon DEF SameShape
  <2> QED BY <1>0, <1>4, <1>5, <2>1, <2>2, <2>3, <2>4, PhantomKeeps, Zenon
<1>8. CASE HasSlot
  <2> DEFINE c == used + 1
  <2>1. /\ region' = [bumped EXCEPT ![c] = Fresh(b, n, p)] /\ used' = c
        /\ live' = live \cup {c} /\ phantom' = phantom
    BY <1>1, <1>2, <1>3, <1>8, Zenon
  <2>2. c \in Name /\ c \in 0 .. NumNames
    <3>1. used \in Nat /\ NumNames \in Nat
      BY <1>0, Names DEF TypeOK
    <3> QED BY <1>0, <3>1 DEF Name
  <2>3. c # p /\ c \notin live
    <3>1. \A m \in live : m <= used /\ m \in Nat
      BY <1>0, Names, Zenon DEF IInv, RegionOk, TypeOK
    <3>2. used \in Nat
      BY <1>0 DEF TypeOK
    <3> QED BY <1>0, <3>1, <3>2
  <2>4. /\ Fresh(b, n, p) \in Region
        /\ Fresh(b, n, p).base_page = b /\ Fresh(b, n, p).pages = n
        /\ Fresh(b, n, p).parent = p /\ Fresh(b, n, p).watermark = 0
        /\ Fresh(b, n, p).retyped_to = 0 /\ Fresh(b, n, p).children = 0
    BY <1>6, FreshIs
  <2>5. PICK d : d = c
    BY Zenon
  <2> HIDE DEF c
  <2>6. /\ region' \in [Name -> Region] /\ region'[d] = Fresh(b, n, p)
        /\ \A m \in Name \ {d} : region'[m] = bumped[m]
    BY <1>5, <2>1, <2>2, <2>4, <2>5, Zenon
  <2>7. Typed'
    BY <1>0, <2>1, <2>2, <2>6, Zenon DEF IInv, Typed, TypeOK
  <2>8. /\ SameShape(p) /\ region'[p].base_page = region[p].base_page
        /\ region'[p].watermark = region[p].watermark + n
    BY <1>5, <2>3, <2>5, <2>6, Zenon DEF SameShape
  <2>9. Born(b, n, p, d)
    <3>1. \A m \in live \ {p} : region'[m] = region[m]
      BY <1>0, <1>5, <2>3, <2>5, <2>6, Zenon DEF TypeOK
    <3>2. LessHeld /\ \A o \in Actor : SameHold(o)
      BY <1>0, Zenon DEF LessHeld, SameHold, Holding
    <3>3. d = used + 1
      BY <2>5, Zenon DEF c
    <3>4. /\ region'[p].retyped_to = region[p].retyped_to
          /\ region'[p].children = region[p].children + 1
      BY <1>5, <2>3, <2>5, <2>6, Zenon
    <3> QED BY <1>0, <1>6, <2>1, <2>4, <2>5, <2>6, <2>8, <3>1, <3>2, <3>3, <3>4, Zenon DEF Born
  <2>10. Placed(b, n, p)'
    <3>1. p # NO_PARENT
      BY Names, Zenon
    <3> QED BY <1>0, <1>6, <2>1, <2>8, <3>1, Zenon DEF Placed
  <2>11. \A o \in Actor : Holding(o)' => Holding(o)
    BY <1>0, Zenon DEF Holding
  <2> QED BY <1>0, <1>4, <1>6, <2>2, <2>5, <2>7, <2>9, <2>10, <2>11, BirthKeeps, Zenon
<1> QED BY <1>7, <1>8, Zenon

------------------------------------------------------------------------------
(* Root regions: the frame allocator's pages.                               *)

\* A run of free pages is apart from a run that has none.
LEMMA FreeApart ==
  ASSUME NEW b \in Nat, NEW n \in Nat, NEW c \in Nat, NEW m \in Nat, n > 0, m > 0,
         c + m <= NumPages, Run(b, n) \subseteq free, \A x \in free : ~Inside(c, m, x),
         b \in Page
  PROVE  Apart(c, m, b, n) /\ Apart(b, n, c, m)
<1>0. NumPages \in Nat /\ c \in Page
  BY Names DEF Page
<1>1. ~(Inside(b, n, b) /\ Inside(c, m, b))
  BY Zenon DEF Run, Inside
<1>2. ~(Inside(b, n, c) /\ Inside(c, m, c))
  BY <1>0, Zenon DEF Run, Inside
<1> QED BY <1>1, <1>2 DEF Inside, Apart

\* create takes a run that is free, so nobody's.
LEMMA AllocKeeps ==
  ASSUME IInv, NEW a \in Actor, alloc_contiguous(a)
  PROVE  IInv'
<1>0. /\ TypeOK /\ pc[a] = "idle"
      /\ UNCHANGED <<live, region, used, objects, retyped, phantom>>
  BY Zenon DEF IInv, Typed, alloc_contiguous, Idle
<1>1. PICK b \in Page, n \in 1 .. NumPages :
        /\ b + n <= NumPages /\ Run(b, n) \subseteq free
        /\ free' = free \ Run(b, n)
        /\ Goto(a, "insert_root", [NoArg EXCEPT !.base_page = b, !.pages = n])
  BY Zenon DEF alloc_contiguous
<1>2. b \in Nat /\ n \in Nat /\ n > 0
  BY Names DEF Page
<1>3. PICK x : x = [NoArg EXCEPT !.base_page = b, !.pages = n]
  BY Zenon
<1>4. x \in Arg /\ x.base_page = b /\ x.pages = n /\ x.parent = NO_PARENT
  BY <1>2, <1>3, Args, Zenon
<1>5. /\ pc' \in [Actor -> PC] /\ arg' \in [Actor -> Arg] /\ pc'[a] = "insert_root"
      /\ arg'[a] = x /\ \A o \in Actor \ {a} : SameHold(o)
  BY <1>0, <1>1, <1>3, <1>4, GotoIs, Zenon DEF PC
<1>6. Typed'
  BY <1>0, <1>1, <1>5, Zenon DEF IInv, Typed, TypeOK, SameHold
<1>7. ASSUME NEW y, NEW c, NEW q, Placed(y, c, q) PROVE Placed(y, c, q)'
  <2>1. q # NO_PARENT =>
          q \in live' /\ region'[q].base_page = region[q].base_page /\ SameLevel(q)
    BY <1>0, <1>7, Zenon DEF Placed, SameLevel
  <2>2. free' \subseteq free
    BY <1>1, Zenon
  <2> QED BY <1>7, <2>1, <2>2, PlacedStays, Zenon
<1>8. Placed(b, n, NO_PARENT)'
  <2>1. \A z \in free' : ~Inside(b, n, z)
    BY <1>0, <1>1, Zenon DEF Run, Inside, TypeOK
  <2> QED BY <1>1, <1>2, <2>1, Zenon DEF Placed
<1>9. ASSUME NEW m \in live PROVE RegionOk(m)'
  <2>0. RegionOk(m) /\ SameShape(m) /\ SameLevel(m)
    BY <1>0, Zenon DEF IInv, SameShape, SameLevel
  <2>1. Placed(region[m].base_page, region[m].pages, region[m].parent)'
    BY <1>0, <1>7, <2>0, Zenon DEF RegionOk
  <2>2. Children(m)' = Children(m)
    BY <1>0, ChildrenStay, Zenon
  <2>3. Returning(m)' = Returning(m)
    BY <1>0, <1>5, Zenon DEF Returning, Claims, SameHold
  <2> QED BY <1>0, <2>0, <2>1, <2>2, <2>3, SpentStays, CountStays, Zenon DEF RegionOk
<1>10. ASSUME NEW o \in Actor PROVE HolderOk(o)'
  <2>1. CASE o = a
    BY <1>4, <1>5, <1>8, <2>1, Zenon DEF HolderOk
  <2>2. CASE o # a
    BY <1>5, <1>7, <2>2, Zenon DEF IInv, HolderOk, Holding, SameHold
  <2> QED BY <2>1, <2>2, Zenon
<1>11. SiblingsApart'
  <2>0. SiblingsApart
    BY Zenon DEF IInv
  <2>1. ASSUME NEW m \in live, region[m].parent = NO_PARENT
        PROVE  Apart(region[m].base_page, region[m].pages, b, n)
    <3>1. /\ region[m].base_page \in Nat /\ region[m].pages \in Nat /\ region[m].pages > 0
          /\ region[m].base_page + region[m].pages <= NumPages
          /\ \A z \in free : ~Inside(region[m].base_page, region[m].pages, z)
      BY <1>0, <2>1, RegionTypes, Zenon DEF IInv, RegionOk, Placed, TypeOK
    <3> QED BY <1>1, <1>2, <3>1, FreeApart, Zenon
  <2>2. ASSUME NEW o \in Actor, Holding(o), arg[o].parent = NO_PARENT
        PROVE  /\ Apart(arg[o].base_page, arg[o].pages, b, n)
               /\ Apart(b, n, arg[o].base_page, arg[o].pages)
    <3>1. /\ arg[o].base_page \in Nat /\ arg[o].pages \in Nat /\ arg[o].pages > 0
          /\ arg[o].base_page + arg[o].pages <= NumPages
          /\ \A z \in free : ~Inside(arg[o].base_page, arg[o].pages, z)
      BY <1>0, <2>2, ArgTypes, Zenon DEF IInv, HolderOk, Placed
    <3> QED BY <1>1, <1>2, <3>1, FreeApart, Zenon
  <2>3. \A o \in Actor : Holding(o)' =>
           \/ o = a /\ arg'[o].base_page = b /\ arg'[o].pages = n /\ arg'[o].parent = NO_PARENT
           \/ o # a /\ Holding(o) /\ arg'[o] = arg[o]
    BY <1>4, <1>5, Zenon DEF Holding, SameHold
  <2>4. ASSUME NEW m \in live', NEW o \in Actor, Holding(o)', region'[m].parent = arg'[o].parent
        PROVE  Apart(region'[m].base_page, region'[m].pages, arg'[o].base_page, arg'[o].pages)
    BY <1>0, <2>0, <2>1, <2>3, <2>4, Zenon DEF SiblingsApart
  <2>5. ASSUME NEW o \in Actor, NEW q \in Actor, o # q, Holding(o)', Holding(q)',
               arg'[o].parent = arg'[q].parent
        PROVE  Apart(arg'[o].base_page, arg'[o].pages, arg'[q].base_page, arg'[q].pages)
    BY <2>0, <2>2, <2>3, <2>5, Zenon DEF SiblingsApart
  <2> QED BY <1>0, <2>0, <2>4, <2>5, Zenon DEF SiblingsApart
<1>12. Unborn'
  BY <1>0, Zenon DEF IInv, Unborn
<1> QED BY <1>0, <1>6, <1>9, <1>10, <1>11, <1>12, Zenon DEF IInv

\* Pages go back to the frame allocator from the one call that holds them.
LEMMA FreedKeeps ==
  ASSUME IInv, NEW a \in Actor, Holding(a), arg[a].parent = NO_PARENT, Done(a),
         free' = free \cup Run(arg[a].base_page, arg[a].pages),
         UNCHANGED <<live, region, used, objects, retyped, phantom>>
  PROVE  IInv'
<1>0. TypeOK /\ arg[a].base_page \in Nat /\ arg[a].pages \in Nat /\ SiblingsApart
  BY ArgTypes, Zenon DEF IInv, Typed
<1>1. /\ pc' \in [Actor -> PC] /\ arg' \in [Actor -> Arg] /\ pc'[a] = "idle"
      /\ \A o \in Actor \ {a} : SameHold(o)
  BY <1>0, GotoIs, Args, Zenon DEF Done, PC
<1>2. Typed'
  <2>1. free' \subseteq Page
    BY <1>0, Zenon DEF TypeOK, Run
  <2> QED BY <1>0, <1>1, <2>1, Zenon DEF IInv, Typed, TypeOK, SameHold
<1>3. LessHeld /\ ~Holding(a)'
  BY <1>1, Zenon DEF LessHeld, Holding, SameHold
<1>4. ASSUME NEW y \in Nat, NEW c \in Nat, NEW q, Placed(y, c, q),
             q = NO_PARENT => Apart(y, c, arg[a].base_page, arg[a].pages)
      PROVE  Placed(y, c, q)'
  <2>1. q = NO_PARENT => \A x \in free' : ~Inside(y, c, x)
    <3> SUFFICES ASSUME q = NO_PARENT, NEW x \in free' PROVE ~Inside(y, c, x)
      BY Zenon
    <3>1. CASE x \in free
      BY <1>4, <3>1, Zenon DEF Placed
    <3>2. CASE x \in Run(arg[a].base_page, arg[a].pages)
      <4>1. /\ x \in Page /\ arg[a].base_page <= x
            /\ x < arg[a].base_page + arg[a].pages
        BY <3>2, Zenon DEF Run
      <4>2. Apart(y, c, arg[a].base_page, arg[a].pages)
        BY <1>4, Zenon
      <4> QED BY <1>0, <1>4, <4>1, <4>2 DEF Inside, Apart, Page
    <3> QED BY <3>1, <3>2, Zenon
  <2> QED BY <1>4, <2>1, Zenon DEF Placed
<1>5. ASSUME NEW m \in live PROVE RegionOk(m)'
  <2>0. /\ RegionOk(m) /\ SameShape(m) /\ SameLevel(m) /\ m \in Name
        /\ region[m].base_page \in Nat /\ region[m].pages \in Nat
    BY <1>0, RegionTypes, Zenon DEF IInv, SameShape, SameLevel, TypeOK
  <2>1. Placed(region[m].base_page, region[m].pages, region[m].parent)'
    <3>1. region[m].parent = NO_PARENT =>
            Apart(region[m].base_page, region[m].pages, arg[a].base_page, arg[a].pages)
      BY <1>0, Zenon DEF SiblingsApart
    <3> QED BY <1>4, <2>0, <3>1, Zenon DEF RegionOk
  <2>2. Children(m)' = Children(m)
    BY ChildrenStay, Zenon
  <2>3. Returning(m)' = Returning(m)
    <3>1. arg[a].parent # m
      BY <2>0, Names, Zenon
    <3> QED BY <1>1, <3>1, Zenon DEF Returning, Claims, SameHold
  <2> QED BY <2>0, <2>1, <2>2, <2>3, SpentStays, CountStays, Zenon DEF RegionOk
<1>6. ASSUME NEW o \in Actor PROVE HolderOk(o)'
  <2>1. CASE o = a
    BY <1>3, <2>1, Zenon DEF HolderOk
  <2>2. CASE o # a
    <3> SUFFICES ASSUME Holding(o)' PROVE HolderOk(o)'
      BY Zenon DEF HolderOk
    <3>1. Holding(o) /\ SameHold(o) /\ arg[o].base_page \in Nat /\ arg[o].pages \in Nat
      BY <1>0, <1>3, ArgTypes, Zenon DEF LessHeld
    <3>2. arg[o].parent = NO_PARENT =>
            Apart(arg[o].base_page, arg[o].pages, arg[a].base_page, arg[a].pages)
      BY <1>0, <2>2, <3>1, Zenon DEF SiblingsApart
    <3> QED BY <1>4, <3>1, <3>2, Zenon DEF IInv, HolderOk, SameHold
  <2> QED BY <2>1, <2>2, Zenon
<1>7. SiblingsApart'
  <2>1. \A m \in live : SameShape(m)
    BY Zenon DEF SameShape
  <2> QED BY <1>0, <1>3, <2>1, ApartStays, Zenon
<1>8. Unborn'
  BY Zenon DEF IInv, Unborn
<1> QED BY <1>2, <1>5, <1>6, <1>7, <1>8, Zenon DEF IInv

\* create's second half: the table has a slot, or the pages go back.
LEMMA InsertRootKeeps ==
  ASSUME IInv, NEW a \in Actor, insert_root(a)
  PROVE  IInv'
<1>0. /\ TypeOK /\ pc[a] = "insert_root" /\ Holding(a) /\ arg[a].parent = NO_PARENT
      /\ arg[a].base_page \in Nat /\ arg[a].pages \in Nat /\ Done(a)
      /\ Placed(arg[a].base_page, arg[a].pages, NO_PARENT)
      /\ UNCHANGED <<objects, retyped, phantom>>
  BY ArgTypes, Zenon DEF IInv, Typed, insert_root, Holding, HolderOk
<1>1. CASE ~HasSlot
  <2>1. /\ free' = free \cup Run(arg[a].base_page, arg[a].pages)
        /\ UNCHANGED <<live, region, used>>
    BY <1>1, Zenon DEF insert_root
  <2> QED BY <1>0, <2>1, FreedKeeps, Zenon
<1>2. CASE HasSlot
  <2> DEFINE c == used + 1
  <2>0. PICK b, n : b = arg[a].base_page /\ n = arg[a].pages
    BY Zenon
  <2>1. /\ used < NumNames /\ used' = c /\ live' = live \cup {c}
        /\ region' = [region EXCEPT ![c] = Fresh(b, n, NO_PARENT)] /\ free' = free
    BY <1>2, <2>0, Zenon DEF insert_root, Insert
  <2>2. c \in Name /\ c \in 0 .. NumNames
    <3>1. used \in Nat /\ NumNames \in Nat
      BY <1>0, Names DEF TypeOK
    <3> QED BY <2>1, <3>1 DEF Name
  <2>3. c \notin live
    <3>1. \A m \in live : m <= used /\ m \in Nat
      BY <1>0, Names, Zenon DEF IInv, RegionOk, TypeOK
    <3>2. used \in Nat
      BY <1>0 DEF TypeOK
    <3> QED BY <3>1, <3>2
  <2>4. b \in Nat /\ n \in Nat /\ b \in Page /\ n \in 0 .. NumPages
    <3>1. n > 0 /\ b + n <= NumPages /\ NumPages \in Nat /\ b \in Nat /\ n \in Nat
      BY <1>0, <2>0, Names, Zenon DEF Placed
    <3> QED BY <3>1 DEF Page
  <2>5. /\ Fresh(b, n, NO_PARENT) \in Region
        /\ Fresh(b, n, NO_PARENT).base_page = b /\ Fresh(b, n, NO_PARENT).pages = n
        /\ Fresh(b, n, NO_PARENT).parent = NO_PARENT /\ Fresh(b, n, NO_PARENT).watermark = 0
        /\ Fresh(b, n, NO_PARENT).retyped_to = 0 /\ Fresh(b, n, NO_PARENT).children = 0
    BY <2>4, FreshIs
  <2>6. PICK d : d = c
    BY Zenon
  <2> HIDE DEF c
  <2>7. /\ region' \in [Name -> Region] /\ region'[d] = Fresh(b, n, NO_PARENT)
        /\ \A m \in Name \ {d} : region'[m] = region[m]
    BY <1>0, <2>1, <2>2, <2>5, <2>6, OneRegion, Zenon
  <2>8. /\ pc' \in [Actor -> PC] /\ arg' \in [Actor -> Arg] /\ pc'[a] = "idle"
        /\ \A o \in Actor \ {a} : SameHold(o)
    BY <1>0, GotoIs, Args, Zenon DEF Done, PC
  <2>9. Typed'
    BY <1>0, <2>1, <2>2, <2>7, <2>8, Zenon DEF IInv, Typed, TypeOK, SameHold
  <2>10. Born(b, n, NO_PARENT, d)
    <3>1. \A m \in live : region'[m] = region[m] /\ m # NO_PARENT
      BY <1>0, <2>3, <2>6, <2>7, Names, Zenon DEF TypeOK
    <3>2. LessHeld /\ \A o \in Actor : pc[o] = "revoke" => SameHold(o)
      BY <1>0, <2>8, Zenon DEF LessHeld, SameHold, Holding
    <3>3. d = used + 1
      BY <2>6, Zenon DEF c
    <3> QED BY <1>0, <2>1, <2>5, <2>6, <2>7, <3>1, <3>2, <3>3, Zenon DEF Born
  <2>11. Placed(b, n, NO_PARENT)'
    BY <1>0, <2>0, <2>1, Zenon DEF Placed
  <2>12. /\ \A m \in live : region[m].parent = NO_PARENT =>
              Apart(region[m].base_page, region[m].pages, b, n)
         /\ \A o \in Actor : Holding(o)' /\ arg[o].parent = NO_PARENT =>
              Apart(b, n, arg[o].base_page, arg[o].pages)
    BY <1>0, <2>0, <2>8, Zenon DEF IInv, SiblingsApart, Holding, SameHold
  <2> QED BY <2>2, <2>4, <2>6, <2>9, <2>10, <2>11, <2>12, BirthKeeps, Zenon
<1> QED BY <1>1, <1>2, Zenon

------------------------------------------------------------------------------
(* destroy.                                                                 *)

\* A region is destroyed only when nothing is out of it: no child, no child on
\* its way back, no child that got no slot.
LEMMA NothingOut ==
  ASSUME IInv, NEW r \in live, region[r].children = 0
  PROVE  /\ Children(r) = {} /\ Returning(r) = {}
         /\ \A m \in live : region[m].parent # r
         /\ \A o \in Actor : Holding(o) => arg[o].parent # r
<1>0. TypeOK /\ RegionOk(r) /\ r \in Name /\ r # NO_PARENT
  BY Names, Zenon DEF IInv, Typed, TypeOK
<1>1. /\ IsFiniteSet(Children(r)) /\ IsFiniteSet(Returning(r))
      /\ Cardinality(Children(r)) \in Nat /\ Cardinality(Returning(r)) \in Nat
      /\ phantom[r] \in Nat
  BY <1>0, Finite, Zenon DEF TypeOK
<1>2. 0 = Cardinality(Children(r)) + Cardinality(Returning(r)) + phantom[r]
  BY <1>0, Zenon DEF RegionOk, Counted
<1>3. Cardinality(Children(r)) = 0 /\ Cardinality(Returning(r)) = 0
  BY <1>1, <1>2
<1>4. Children(r) = {} /\ Returning(r) = {}
  BY <1>1, <1>3, FS_EmptySet, Zenon
<1>5. \A m \in live : region[m].parent # r
  BY <1>4, Zenon DEF Children
<1>6. \A o \in Actor : Holding(o) => arg[o].parent # r
  BY <1>0, <1>4, Zenon DEF Returning, Claims, Holding, IInv, HolderOk
<1> QED BY <1>4, <1>5, <1>6, Zenon

\* The claim takes the name and keeps the run: it passes from the region to the
\* call, and the parent counts it as before.
LEMMA ClaimGranted ==
  ASSUME IInv, NEW a \in Actor, pc[a] = "claim", NEW r \in live, region[r].children = 0,
         live' = live \ {r}, region' = [region EXCEPT ![r] = Vacant],
         retyped' = [retyped EXCEPT ![r] = {}],
         Goto(a, "revoke", [name |-> r, base_page |-> region[r].base_page,
                            pages |-> region[r].pages, parent |-> region[r].parent]),
         UNCHANGED <<used, free, objects, phantom>>
  PROVE  IInv'
<1>0. TypeOK /\ r \in Name /\ live \subseteq Name /\ RegionOk(r) /\ SiblingsApart
  BY Zenon DEF IInv, Typed, TypeOK
<1>1. PICK x : x = [name |-> r, base_page |-> region[r].base_page,
                    pages |-> region[r].pages, parent |-> region[r].parent]
  BY Zenon
<1>2. /\ x \in Arg /\ x.base_page = region[r].base_page /\ x.pages = region[r].pages
      /\ x.parent = region[r].parent
  <2>1. /\ region[r].base_page \in Nat /\ region[r].pages \in Nat
        /\ region[r].parent \in Name \cup {NO_PARENT}
    BY <1>0, RegionTypes, Zenon
  <2> QED BY <1>0, <1>1, <2>1, Zenon DEF Arg
<1>3. /\ pc' \in [Actor -> PC] /\ arg' \in [Actor -> Arg] /\ pc'[a] = "revoke"
      /\ arg'[a] = x /\ \A o \in Actor \ {a} : SameHold(o)
  BY <1>0, <1>1, <1>2, GotoIs, Zenon DEF PC
<1>4. /\ region' \in [Name -> Region] /\ \A m \in Name \ {r} : region'[m] = region[m]
      /\ retyped' \in [Name -> SUBSET Page] /\ retyped'[r] = {}
      /\ \A m \in Name \ {r} : retyped'[m] = retyped[m]
  <2>1. Vacant \in Region
    <3>1. 0 \in Page /\ 0 \in 0 .. NumPages /\ NO_PARENT \in Name \cup {NO_PARENT}
      BY RegionsAssumption DEF Page
    <3> QED BY <3>1, FreshIs, Zenon DEF Vacant
  <2>2. {} \in SUBSET Page
    BY Zenon
  <2> QED BY <1>0, <2>1, <2>2, OneRegion, Zenon DEF TypeOK
<1>5. Typed'
  BY <1>0, <1>3, <1>4, Zenon DEF IInv, Typed, TypeOK, SameHold
<1>6. /\ \A m \in live : region[m].parent # r
      /\ \A o \in Actor : Holding(o) => arg[o].parent # r
  BY NothingOut, Zenon
<1>7. ASSUME NEW m \in live' PROVE m \in live /\ m # r /\ SameShape(m) /\ SameLevel(m)
  BY <1>0, <1>4, <1>7, OtherRegions, Zenon
<1>8. ASSUME NEW y, NEW c, NEW q, Placed(y, c, q), q # r PROVE Placed(y, c, q)'
  <2>1. q # NO_PARENT =>
          q \in live' /\ region'[q].base_page = region[q].base_page /\ SameLevel(q)
    BY <1>7, <1>8, Zenon DEF Placed, SameShape
  <2> QED BY <1>8, <2>1, PlacedStays, Zenon
<1>9. ASSUME NEW m \in live' PROVE RegionOk(m)'
  <2>0. /\ m \in live /\ m # r /\ m \in Name /\ RegionOk(m) /\ SameShape(m) /\ SameLevel(m)
        /\ region'[m].children = region[m].children
    BY <1>0, <1>4, <1>7, <1>9, Zenon DEF IInv
  <2>1. Placed(region[m].base_page, region[m].pages, region[m].parent)'
    BY <1>6, <1>8, <2>0, Zenon DEF RegionOk, SameShape
  <2>2. \A c \in live' : region'[c].parent = region[c].parent
    BY <1>7, Zenon DEF SameShape
  <2>3. Counted(m)'
    <3>1. CASE region[r].parent # m
      <4>1. Children(m)' = Children(m)
        BY <2>2, <3>1, Zenon DEF Children
      <4>2. Returning(m)' = Returning(m)
        BY <1>2, <1>3, <3>1, Zenon DEF Returning, Claims, SameHold
      <4> QED BY <2>0, <4>1, <4>2, CountStays, Zenon DEF RegionOk
    <3>2. CASE region[r].parent = m
      <4>1. Children(m)' = Children(m) \ {r} /\ r \in Children(m)
        BY <2>2, <3>2, Zenon DEF Children
      <4>2. Returning(m)' = Returning(m) \cup {a} /\ a \notin Returning(m)
        BY <1>2, <1>3, <3>2, Zenon DEF Returning, Claims, SameHold
      <4>3. /\ IsFiniteSet(Children(m)) /\ IsFiniteSet(Returning(m))
            /\ Cardinality(Children(m)) \in Nat /\ Cardinality(Returning(m)) \in Nat
            /\ phantom[m] \in Nat
        BY <1>0, <2>0, Finite, Zenon DEF TypeOK
      <4>4. /\ Cardinality(Children(m)') = Cardinality(Children(m)) - 1
            /\ Cardinality(Returning(m)') = Cardinality(Returning(m)) + 1
        <5>1. Cardinality(Children(m) \ {r}) = Cardinality(Children(m)) - 1
          BY <4>1, <4>3, FS_RemoveElement, Zenon
        <5>2. Cardinality(Returning(m) \cup {a}) = Cardinality(Returning(m)) + 1
          BY <4>2, <4>3, FS_AddElement, Zenon
        <5> QED BY <4>1, <4>2, <5>1, <5>2, Zenon
      <4>5. region[m].children =
              Cardinality(Children(m)) + Cardinality(Returning(m)) + phantom[m]
        BY <2>0, Zenon DEF RegionOk, Counted
      <4>6. region[m].children =
              Cardinality(Children(m)') + Cardinality(Returning(m)') + phantom[m]
        BY <4>3, <4>4, <4>5
      <4> QED BY <2>0, <4>6, Zenon DEF RegionOk, Counted, SameLevel
    <3> QED BY <3>1, <3>2, Zenon
  <2> QED BY <2>0, <2>1, <2>3, SpentStays, Zenon DEF RegionOk
<1>10. ASSUME NEW o \in Actor PROVE HolderOk(o)'
  <2>1. CASE o = a
    <3>1. Placed(region[r].base_page, region[r].pages, region[r].parent)
      BY <1>0, Zenon DEF RegionOk
    <3>2. PICK y, c, q : y = region[r].base_page /\ c = region[r].pages /\ q = region[r].parent
      BY Zenon
    <3>3. Placed(y, c, q)'
      BY <1>6, <1>8, <3>1, <3>2, Zenon
    <3> QED BY <1>2, <1>3, <2>1, <3>2, <3>3, Zenon DEF HolderOk
  <2>2. CASE o # a
    <3>1. SameHold(o)
      BY <1>3, <2>2, Zenon
    <3> QED BY <1>6, <1>8, <3>1, Zenon DEF IInv, HolderOk, Holding, SameHold
  <2> QED BY <2>1, <2>2, Zenon
<1>11. SiblingsApart'
  <2>1. \A o \in Actor : Holding(o)' =>
           \/ /\ o = a /\ arg'[o].base_page = region[r].base_page
              /\ arg'[o].pages = region[r].pages /\ arg'[o].parent = region[r].parent
           \/ o # a /\ Holding(o) /\ arg'[o] = arg[o]
    BY <1>2, <1>3, Zenon DEF Holding, SameHold
  <2>2. ASSUME NEW k \in live', NEW m \in live', k # m, region'[k].parent = region'[m].parent
        PROVE  Apart(region'[k].base_page, region'[k].pages,
                     region'[m].base_page, region'[m].pages)
    BY <1>0, <1>7, <2>2, Zenon DEF SiblingsApart, SameShape
  <2>3. ASSUME NEW k \in live', NEW o \in Actor, Holding(o)',
               region'[k].parent = arg'[o].parent
        PROVE  Apart(region'[k].base_page, region'[k].pages, arg'[o].base_page, arg'[o].pages)
    <3>1. k \in live /\ k # r /\ SameShape(k)
      BY <1>7, <2>3, Zenon
    <3>2. CASE o = a
      BY <1>0, <2>1, <2>3, <3>1, <3>2, Zenon DEF SiblingsApart, SameShape
    <3>3. CASE o # a
      BY <1>0, <2>1, <2>3, <3>1, <3>3, Zenon DEF SiblingsApart, SameShape
    <3> QED BY <3>2, <3>3, Zenon
  <2>4. ASSUME NEW o \in Actor, NEW q \in Actor, o # q, Holding(o)', Holding(q)',
               arg'[o].parent = arg'[q].parent
        PROVE  Apart(arg'[o].base_page, arg'[o].pages, arg'[q].base_page, arg'[q].pages)
    <3>1. ASSUME NEW u \in Actor, Holding(u), arg[u].parent = region[r].parent
          PROVE  /\ Apart(region[r].base_page, region[r].pages, arg[u].base_page, arg[u].pages)
                 /\ Apart(arg[u].base_page, arg[u].pages, region[r].base_page, region[r].pages)
      BY <1>0, <3>1, Zenon DEF SiblingsApart, Apart
    <3> QED BY <1>0, <2>1, <2>4, <3>1, Zenon DEF SiblingsApart
  <2> QED BY <2>2, <2>3, <2>4, Zenon DEF SiblingsApart
<1>12. Unborn'
  BY <1>0, <1>4, Zenon DEF IInv, Unborn
<1> QED BY <1>5, <1>9, <1>10, <1>11, <1>12, Zenon DEF IInv

\* claim_for_destroy grants the claim, or leaves all as it is.
LEMMA ClaimKeeps ==
  ASSUME IInv, NEW a \in Actor, claim_for_destroy(a)
  PROVE  IInv'
<1>0. TypeOK /\ pc[a] = "claim" /\ UNCHANGED <<used, free, objects, phantom>>
  BY Zenon DEF IInv, Typed, claim_for_destroy
<1>1. CASE Done(a) /\ UNCHANGED <<live, region, retyped>>
  <2>1. objects' \subseteq Page
    BY <1>0, Zenon DEF TypeOK
  <2> QED BY <1>0, <1>1, <2>1, GoesOn, Args, Zenon DEF Done, Holding, PC
<1>2. CASE ~(Done(a) /\ UNCHANGED <<live, region, retyped>>)
  <2>1. PICK r : r = arg[a].name
    BY Zenon
  <2>2. /\ r \in live /\ destroy_outcome(region[r]) = "Granted"
        /\ live' = live \ {r} /\ region' = [region EXCEPT ![r] = Vacant]
        /\ retyped' = [retyped EXCEPT ![r] = {}]
        /\ Goto(a, "revoke", [name |-> r, base_page |-> region[r].base_page,
                              pages |-> region[r].pages, parent |-> region[r].parent])
    BY <1>2, <2>1, Zenon DEF claim_for_destroy
  <2>3. region[r].children = 0
    <3>1. region[r].children \in Nat
      BY <1>0, <2>2, RegionTypes, Zenon DEF TypeOK
    <3>2. ~(region[r].children > 0)
      BY <2>2, Zenon DEF destroy_outcome
    <3> QED BY <3>1, <3>2
  <2> QED BY <1>0, <2>2, <2>3, ClaimGranted, Zenon
<1> QED BY <1>1, <1>2, Zenon

------------------------------------------------------------------------------
(* The pages go back.                                                       *)

\* When a run at the top of the watermark goes back, the watermark comes down to
\* where the run began: every piece apart from the run, and what was retyped
\* outside it, ends at or below that.
LEMMA Unbumped ==
  ASSUME NEW b \in Nat, NEW w \in Nat, NEW c \in Nat, NEW m \in Nat, m > 0, b <= c,
         c + m <= b + w, NEW v, v = w - (IF c + m = b + w THEN m ELSE 0)
  PROVE  /\ v \in Nat /\ v <= w
         /\ \A y, k \in Nat : k > 0 /\ y + k <= b + w /\ Apart(y, k, c, m) => y + k <= b + v
         /\ \A t \in Nat : t <= w /\ (t > 0 => ~Inside(c, m, b + t - 1)) => t <= v
BY DEF Apart, Inside

\* The children lie between the base and the watermark, so the end of the last one
\* is a number return_to_parent can compute; without children it is 0.
LEMMA LiveTo ==
  ASSUME IInv, NEW p \in live,
         NEW to, to = Max({0} \cup {region[k].base_page + region[k].pages
                                       - region[p].base_page : k \in Children(p)})
  PROVE  /\ to \in Nat
         /\ \A k \in Children(p) :
               region[k].base_page + region[k].pages <= region[p].base_page + to
         /\ Children(p) = {} => to = 0
<1> DEFINE end(k) == region[k].base_page + region[k].pages - region[p].base_page
           S == {0} \cup {end(k) : k \in Children(p)}
<1>0. TypeOK /\ p \in Name /\ p # NO_PARENT /\ live \subseteq Name
  BY Names, Zenon DEF IInv, Typed, TypeOK
<1>1. /\ region[p].base_page \in Nat /\ region[p].watermark \in Nat
  BY <1>0, RegionTypes, Zenon
<1>2. ASSUME NEW k \in Children(p)
      PROVE  /\ region[k].base_page \in Nat /\ region[k].pages \in Nat
             /\ end(k) \in Nat /\ end(k) <= region[p].watermark
  <2>1. k \in live /\ region[k].parent = p
    BY <1>2, Zenon DEF Children
  <2>2. region[k].base_page \in Nat /\ region[k].pages \in Nat
    BY <1>0, <2>1, RegionTypes, Zenon
  <2>3. /\ region[p].base_page <= region[k].base_page
        /\ region[k].base_page + region[k].pages <= region[p].base_page + region[p].watermark
    BY <1>0, <2>1, Zenon DEF IInv, RegionOk, Placed
  <2> QED BY <1>1, <2>2, <2>3
<1>3. S \in SUBSET Nat /\ S # {} /\ (\A x \in S : x <= region[p].watermark)
  <2>1. 0 \in Nat /\ 0 <= region[p].watermark
    BY <1>1
  <2> HIDE DEF end
  <2> QED BY <1>2, <2>1, Zenon
<1>4. to \in S /\ \A y \in S : y <= to
  <2>1. to = Max(S)
    BY Zenon
  <2> HIDE DEF S
  <2> QED BY <1>1, <1>3, <2>1, MaxIs, Zenon
<1>5. to \in Nat /\ \A k \in Children(p) : end(k) <= to
  <2> HIDE DEF end
  <2> QED BY <1>3, <1>4, Zenon
<1>6. ASSUME NEW k \in Children(p)
      PROVE  region[k].base_page + region[k].pages <= region[p].base_page + to
  <2>1. end(k) <= to /\ region[k].base_page \in Nat /\ region[k].pages \in Nat
    BY <1>2, <1>5, <1>6, Zenon
  <2> QED BY <1>1, <1>5, <2>1
<1>7. Children(p) = {} => to = 0
  <2> HIDE DEF end
  <2> QED BY <1>4, Zenon
<1> QED BY <1>5, <1>6, <1>7, Zenon

\* The parent counts the run that goes back. When every child it still counts is
\* in the table, no other run of it is on its way.
LEMMA LastReturn ==
  ASSUME IInv, NEW a \in Actor, pc[a] = "revoke", NEW p \in live, arg[a].parent = p
  PROVE  /\ region[p].children \in Nat /\ region[p].children > 0
         /\ Cardinality(Returning(p)) > 0
         /\ region[p].children - 1 = Cardinality(Children(p)) =>
               \A o \in Actor \ {a} : Holding(o) => arg[o].parent # p
         /\ region[p].children - 1 = 0 => Children(p) = {} /\ Cardinality(Children(p)) = 0
<1>0. TypeOK /\ p \in Name /\ p # NO_PARENT
  BY Names, Zenon DEF IInv, Typed, TypeOK
<1>1. /\ IsFiniteSet(Children(p)) /\ IsFiniteSet(Returning(p))
      /\ Cardinality(Children(p)) \in Nat /\ Cardinality(Returning(p)) \in Nat
      /\ phantom[p] \in Nat /\ region[p].children \in Nat
  BY <1>0, Finite, RegionTypes, Zenon DEF TypeOK
<1>2. a \in Returning(p)
  BY Zenon DEF Returning, Claims
<1>3. Cardinality(Returning(p)) # 0
  BY <1>1, <1>2, FS_EmptySet, Zenon
<1>4. region[p].children = Cardinality(Children(p)) + Cardinality(Returning(p)) + phantom[p]
  BY Zenon DEF IInv, RegionOk, Counted
<1>5. /\ region[p].children > 0 /\ Cardinality(Returning(p)) > 0
      /\ region[p].children - 1 = Cardinality(Children(p)) => Cardinality(Returning(p)) = 1
      /\ region[p].children - 1 = 0 => Cardinality(Children(p)) = 0
  BY <1>1, <1>3, <1>4
<1>6. ASSUME Cardinality(Returning(p)) = 1, NEW o \in Actor \ {a}, Holding(o)
      PROVE  arg[o].parent # p
  <2>1. PICK z : Returning(p) = {z}
    BY <1>1, <1>6, FS_Singleton, Zenon
  <2>2. o \notin Returning(p)
    BY <1>2, <2>1, Zenon
  <2> QED BY <1>0, <1>6, <2>2, Zenon DEF IInv, HolderOk, Holding, Returning, Claims
<1>7. Cardinality(Children(p)) = 0 => Children(p) = {}
  BY <1>1, FS_EmptySet, Zenon
<1> QED BY <1>1, <1>5, <1>6, <1>7, Zenon

\* The level w fits p once the run of a is back: it covers what p retyped and the
\* pieces of p that are still out, and nothing more when none is.
Fitting(a, p, w) ==
    /\ w \in Nat /\ region[p].retyped_to <= w /\ w <= region[p].watermark
    /\ \A k \in Children(p) :
          region[k].base_page + region[k].pages <= region[p].base_page + w
    /\ \A o \in Actor \ {a} : Holding(o) /\ arg[o].parent = p =>
          arg[o].base_page + arg[o].pages <= region[p].base_page + w
    /\ region[p].children - 1 = 0 => w = region[p].retyped_to

\* The watermark without the run that was at its top covers all that is still out.
LEMMA UnbumpFits ==
  ASSUME IInv, NEW a \in Actor, pc[a] = "revoke", NEW p \in live, arg[a].parent = p,
         NEW v, v = region[p].watermark
                      - (IF arg[a].base_page + arg[a].pages
                              = region[p].base_page + region[p].watermark
                         THEN arg[a].pages ELSE 0)
  PROVE  /\ v \in Nat /\ region[p].retyped_to <= v /\ v <= region[p].watermark
         /\ \A k \in Children(p) :
               region[k].base_page + region[k].pages <= region[p].base_page + v
         /\ \A o \in Actor \ {a} : Holding(o) /\ arg[o].parent = p =>
               arg[o].base_page + arg[o].pages <= region[p].base_page + v
<1>0. TypeOK /\ p \in Name /\ p # NO_PARENT /\ live \subseteq Name /\ SiblingsApart /\ Holding(a)
  BY Names, Zenon DEF IInv, Typed, TypeOK, Holding
<1>1. PICK b, w, c, m, t : /\ b = region[p].base_page /\ w = region[p].watermark
                           /\ c = arg[a].base_page /\ m = arg[a].pages
                           /\ t = region[p].retyped_to
  BY Zenon
<1>2. b \in Nat /\ w \in Nat /\ t \in Nat /\ c \in Nat /\ m \in Nat
  BY <1>0, <1>1, RegionTypes, ArgTypes, Zenon
<1>3. Placed(c, m, p)
  BY <1>0, <1>1, Zenon DEF IInv, HolderOk
<1>4. /\ m > 0 /\ b <= c /\ c + m <= b + w
      /\ \A x \in retyped[p] : ~Inside(c, m, x)
  BY <1>0, <1>1, <1>3, Zenon DEF Placed
<1>5. v = w - (IF c + m = b + w THEN m ELSE 0)
  BY <1>1, Zenon
<1>6. /\ v \in Nat /\ v <= w
      /\ \A y, k \in Nat : k > 0 /\ y + k <= b + w /\ Apart(y, k, c, m) => y + k <= b + v
      /\ \A u \in Nat : u <= w /\ (u > 0 => ~Inside(c, m, b + u - 1)) => u <= v
  BY <1>2, <1>4, <1>5, Unbumped, Zenon
<1>7. t <= v
  <2>1. t <= w /\ (t > 0 => b + t - 1 \in retyped[p])
    BY <1>1, Zenon DEF IInv, RegionOk, Spent
  <2> QED BY <1>2, <1>4, <1>6, <2>1, Zenon
<1>8. ASSUME NEW k \in Children(p)
      PROVE  region[k].base_page + region[k].pages <= b + v
  <2>1. k \in live /\ region[k].parent = p
    BY <1>8, Zenon DEF Children
  <2>2. region[k].base_page \in Nat /\ region[k].pages \in Nat
    BY <1>0, <2>1, RegionTypes, Zenon
  <2>3. region[k].pages > 0 /\ region[k].base_page + region[k].pages <= b + w
    BY <1>0, <1>1, <2>1, Zenon DEF IInv, RegionOk, Placed
  <2>4. Apart(region[k].base_page, region[k].pages, c, m)
    BY <1>0, <1>1, <2>1, Zenon DEF SiblingsApart
  <2> QED BY <1>6, <2>2, <2>3, <2>4, Zenon
<1>9. ASSUME NEW o \in Actor \ {a}, Holding(o), arg[o].parent = p
      PROVE  arg[o].base_page + arg[o].pages <= b + v
  <2>1. arg[o].base_page \in Nat /\ arg[o].pages \in Nat
    BY <1>0, ArgTypes, Zenon
  <2>2. arg[o].pages > 0 /\ arg[o].base_page + arg[o].pages <= b + w
    <3>1. Placed(arg[o].base_page, arg[o].pages, p)
      BY <1>9, Zenon DEF IInv, HolderOk
    <3> QED BY <1>0, <1>1, <3>1, Zenon DEF Placed
  <2>3. Apart(arg[o].base_page, arg[o].pages, c, m)
    BY <1>0, <1>1, <1>9, Zenon DEF SiblingsApart
  <2> QED BY <1>6, <2>1, <2>2, <2>3, Zenon
<1> QED BY <1>1, <1>6, <1>7, <1>8, <1>9, Zenon

\* The level coalesced_watermark computes fits.
LEMMA CoalescedFits ==
  ASSUME IInv, NEW a \in Actor, pc[a] = "revoke", NEW p \in live, arg[a].parent = p,
         NEW v, v = region[p].watermark
                      - (IF arg[a].base_page + arg[a].pages
                              = region[p].base_page + region[p].watermark
                         THEN arg[a].pages ELSE 0),
         NEW to, to = Max({0} \cup {region[k].base_page + region[k].pages
                                       - region[p].base_page : k \in Children(p)})
  PROVE  Fitting(a, p, coalesced_watermark(v, region[p].retyped_to, to,
                          region[p].children - 1 = Cardinality(Children(p))))
<1>0. TypeOK /\ p \in Name
  BY Zenon DEF IInv, Typed, TypeOK
<1>1. PICK b, t, c : /\ b = region[p].base_page /\ t = region[p].retyped_to
                     /\ c = region[p].children - 1
  BY Zenon
<1>2. b \in Nat /\ t \in Nat /\ region[p].watermark \in Nat
  BY <1>0, <1>1, RegionTypes, Zenon
<1>3. /\ v \in Nat /\ t <= v /\ v <= region[p].watermark
      /\ \A k \in Children(p) : region[k].base_page + region[k].pages <= b + v
      /\ \A o \in Actor \ {a} : Holding(o) /\ arg[o].parent = p =>
            arg[o].base_page + arg[o].pages <= b + v
  BY <1>1, UnbumpFits, Zenon
<1>4. /\ to \in Nat
      /\ \A k \in Children(p) : region[k].base_page + region[k].pages <= b + to
      /\ Children(p) = {} => to = 0
  BY <1>1, LiveTo, Zenon
<1>5. /\ c = Cardinality(Children(p)) => \A o \in Actor \ {a} : Holding(o) => arg[o].parent # p
      /\ c = 0 => Children(p) = {} /\ Cardinality(Children(p)) = 0
  BY <1>1, LastReturn, Zenon
<1>6. CASE c = Cardinality(Children(p))
  <2>1. PICK w : w = coalesced_watermark(v, t, to, TRUE)
    BY Zenon
  <2>2. /\ w \in Nat /\ t <= w /\ w <= v /\ (to = 0 => w = t) /\ (w = v \/ to <= w)
    <3>1. PICK x : x = Max({t, to})
      BY Zenon
    <3>2. x = IF t <= to THEN to ELSE t
      BY <1>2, <1>4, <3>1, MinMaxOfTwo, Zenon
    <3>3. x \in Nat
      BY <1>2, <1>4, <3>2, Zenon
    <3>4. w = Min({x, v})
      BY <2>1, <3>1, Zenon DEF coalesced_watermark
    <3>5. w = IF x <= v THEN x ELSE v
      <4>1. Min({x, v}) = IF x <= v THEN x ELSE v
        BY <1>3, <3>3, MinMaxOfTwo, Zenon
      <4> QED BY <3>4, <4>1, Zenon
    <3> QED BY <1>2, <1>3, <1>4, <3>2, <3>5
  <2>3. \A k \in Children(p) : region[k].base_page + region[k].pages <= b + w
    <3>1. CASE w = v
      BY <1>3, <3>1, Zenon
    <3>2. CASE to <= w
      <4> SUFFICES ASSUME NEW k \in Children(p)
                   PROVE  region[k].base_page + region[k].pages <= b + w
        BY Zenon
      <4>1. region[k].base_page \in Nat /\ region[k].pages \in Nat
        BY <1>0, RegionTypes, Zenon DEF Children, TypeOK
      <4>2. region[k].base_page + region[k].pages <= b + to
        BY <1>4, Zenon
      <4> QED BY <1>2, <1>4, <2>2, <3>2, <4>1, <4>2
    <3> QED BY <2>2, <3>1, <3>2, Zenon
  <2>4. w <= region[p].watermark
    BY <1>2, <1>3, <2>2
  <2>5. c = 0 => w = t
    BY <1>4, <1>5, <2>2, Zenon
  <2>6. Fitting(a, p, w)
    BY <1>1, <1>5, <1>6, <2>2, <2>3, <2>4, <2>5, Zenon DEF Fitting
  <2>7. w = coalesced_watermark(v, t, to, c = Cardinality(Children(p)))
    BY <1>6, <2>1, Zenon DEF coalesced_watermark
  <2> QED BY <1>1, <2>6, <2>7, Zenon
<1>7. CASE c # Cardinality(Children(p))
  <2>1. coalesced_watermark(v, t, to, c = Cardinality(Children(p))) = v
    BY <1>7, Zenon DEF coalesced_watermark
  <2>2. Fitting(a, p, v)
    BY <1>1, <1>3, <1>5, <1>7, Zenon DEF Fitting
  <2> QED BY <1>1, <2>1, <2>2, Zenon
<1> QED BY <1>6, <1>7, Zenon

\* return_to_parent lowers the parent's watermark to a level that fits and counts
\* one child less.
LEMMA ReturnedIs ==
  ASSUME IInv, NEW a \in Actor, pc[a] = "revoke", NEW p \in live, arg[a].parent = p,
         return_to_parent(arg[a])
  PROVE  /\ region' \in [Name -> Region] /\ SameShape(p)
         /\ region'[p].retyped_to = region[p].retyped_to
         /\ region'[p].children = region[p].children - 1
         /\ Fitting(a, p, region'[p].watermark)
         /\ \A m \in Name \ {p} : region'[m] = region[m]
<1>0. TypeOK /\ p \in Name /\ region[p].watermark \in 0 .. NumPages /\ region[p] \in Region
  BY Zenon DEF IInv, Typed, TypeOK, Region
<1>11. PICK z : z = arg[a]
  BY Zenon
<1>12. z.parent = p /\ return_to_parent(z)
  BY <1>11, Zenon
<1>1. PICK v, to :
        /\ v = region[p].watermark
                 - (IF arg[a].base_page + arg[a].pages
                         = region[p].base_page + region[p].watermark
                    THEN arg[a].pages ELSE 0)
        /\ to = Max({0} \cup {region[k].base_page + region[k].pages
                                 - region[p].base_page : k \in Children(p)})
  BY Zenon
<1>2. PICK c, w : /\ c = region[p].children - 1
                  /\ w = coalesced_watermark(v, region[p].retyped_to, to,
                            region[p].children - 1 = Cardinality(Children(p)))
  BY Zenon
<1>3. Fitting(a, p, w)
  BY <1>1, <1>2, CoalescedFits, Zenon
<1>4. region[p].children \in Nat /\ region[p].children > 0
  BY LastReturn, Zenon
<1>5. region' = [region EXCEPT ![p].children = c, ![p].watermark = w]
  <2>1. c = IF region[p].children > 0 THEN region[p].children - 1 ELSE 0
    BY <1>2, <1>4, Zenon
  <2>2. w = coalesced_watermark(v, region[p].retyped_to, to, c = Cardinality(Children(p)))
    BY <1>2, Zenon
  <2>3. /\ v = region[p].watermark
                 - (IF z.base_page + z.pages = region[p].base_page + region[p].watermark
                    THEN z.pages ELSE 0)
    BY <1>1, <1>11, Zenon
  <2>4. region' = [region EXCEPT ![z.parent].children = c, ![z.parent].watermark = w]
    BY <1>1, <1>12, <2>1, <2>2, <2>3, SMT DEF return_to_parent
  <2> QED BY <1>12, <2>4, Zenon
<1>6. w \in 0 .. NumPages /\ c \in Nat
  <2>1. w \in Nat /\ w <= region[p].watermark
    BY <1>3, Zenon DEF Fitting
  <2> QED BY <1>0, <1>2, <1>4, <2>1, Names
<1>7. PICK x : x = [region[p] EXCEPT !.children = c, !.watermark = w]
  BY Zenon
<1>8. /\ x \in Region /\ x.children = c /\ x.watermark = w
      /\ x.base_page = region[p].base_page /\ x.pages = region[p].pages
      /\ x.parent = region[p].parent /\ x.retyped_to = region[p].retyped_to
  <2>1. PICK r : r = region[p]
    BY Zenon
  <2>2. r \in Region /\ x = [r EXCEPT !.children = c, !.watermark = w]
    BY <1>0, <1>7, <2>1, Zenon
  <2>3. /\ x \in Region /\ x.children = c /\ x.watermark = w
        /\ x.base_page = r.base_page /\ x.pages = r.pages
        /\ x.parent = r.parent /\ x.retyped_to = r.retyped_to
    BY <1>6, <2>2, Zenon DEF Region
  <2> QED BY <2>1, <2>3, Zenon
<1>9. region' = [region EXCEPT ![p] = x]
  BY <1>0, <1>5, <1>7, Zenon DEF TypeOK
<1>10. /\ region' \in [Name -> Region] /\ region'[p] = x
       /\ \A m \in Name \ {p} : region'[m] = region[m]
  BY <1>0, <1>8, <1>9, OneRegion, Zenon
<1> QED BY <1>2, <1>3, <1>8, <1>10, Zenon DEF SameShape

\* A run goes back to its parent: what the parent spent and what is still out stay
\* below the new watermark.
LEMMA ReturnKeeps ==
  ASSUME IInv, NEW a \in Actor, pc[a] = "revoke", NEW p \in live, arg[a].parent = p,
         return_to_parent(arg[a]), Done(a),
         UNCHANGED <<live, used, free, objects, retyped, phantom>>
  PROVE  IInv'
<1>0. TypeOK /\ p \in Name /\ p # NO_PARENT /\ live \subseteq Name /\ SiblingsApart
  BY Names, Zenon DEF IInv, Typed, TypeOK
<1>1. /\ pc' \in [Actor -> PC] /\ arg' \in [Actor -> Arg] /\ pc'[a] = "idle"
      /\ \A o \in Actor \ {a} : SameHold(o)
  BY <1>0, GotoIs, Args, Zenon DEF Done, PC
<1>2. /\ region' \in [Name -> Region] /\ SameShape(p)
      /\ region'[p].retyped_to = region[p].retyped_to
      /\ region'[p].children = region[p].children - 1
      /\ Fitting(a, p, region'[p].watermark)
      /\ \A m \in Name \ {p} : region'[m] = region[m]
  BY ReturnedIs, Zenon
<1>3. Typed'
  BY <1>0, <1>1, <1>2, Zenon DEF IInv, Typed, TypeOK, SameHold
<1>4. LessHeld /\ ~Holding(a)'
  BY <1>1, Zenon DEF LessHeld, Holding, SameHold
<1>5. \A m \in live : SameShape(m)
  BY <1>0, <1>2, Zenon DEF SameShape
<1>6. ASSUME NEW y, NEW c, NEW q, Placed(y, c, q),
             q = p => y + c <= region[p].base_page + region'[p].watermark
      PROVE  Placed(y, c, q)'
  <2>1. CASE q = p
    BY <1>0, <1>2, <1>6, <2>1, Zenon DEF Placed, SameShape
  <2>2. CASE q # p
    <3>1. q # NO_PARENT =>
            q \in live /\ region'[q].base_page = region[q].base_page /\ SameLevel(q)
      BY <1>0, <1>2, <1>6, <2>2, Zenon DEF Placed, SameLevel
    <3> QED BY <1>6, <3>1, PlacedStays, Zenon
  <2> QED BY <2>1, <2>2, Zenon
<1>7. ASSUME NEW m \in live PROVE Counted(m)'
  <2>0. m \in Name /\ Counted(m) /\ Children(m)' = Children(m)
    BY <1>0, <1>5, ChildrenStay, Zenon DEF IInv, RegionOk, SameShape
  <2>1. CASE m # p
    <3>1. region'[m] = region[m]
      BY <1>2, <2>0, <2>1, Zenon
    <3>2. Returning(m)' = Returning(m)
      BY <1>1, <2>1, Zenon DEF Returning, Claims, SameHold
    <3> QED BY <2>0, <3>1, <3>2, CountStays, Zenon DEF SameLevel
  <2>2. CASE m = p
    <3>1. Returning(p)' = Returning(p) \ {a} /\ a \in Returning(p)
      BY <1>1, Zenon DEF Returning, Claims, SameHold
    <3>2. /\ IsFiniteSet(Returning(p)) /\ Cardinality(Children(p)) \in Nat
          /\ Cardinality(Returning(p)) \in Nat /\ phantom[p] \in Nat
      BY <1>0, Finite, Zenon DEF TypeOK
    <3>3. Cardinality(Returning(p) \ {a}) = Cardinality(Returning(p)) - 1
      BY <3>1, <3>2, FS_RemoveElement, Zenon
    <3>4. region[p].children =
            Cardinality(Children(p)) + Cardinality(Returning(p)) + phantom[p]
      BY <2>0, <2>2, Zenon DEF Counted
    <3>5. region[p].children - 1 =
            Cardinality(Children(p)) + Cardinality(Returning(p) \ {a}) + phantom[p]
      BY <3>2, <3>3, <3>4
    <3>6. region[p].children - 1 = 0 => region'[p].watermark = region[p].retyped_to
      BY <1>2, Zenon DEF Fitting
    <3> QED BY <1>2, <2>0, <2>2, <3>1, <3>5, <3>6, Zenon DEF Counted
  <2> QED BY <2>1, <2>2, Zenon
<1>8. ASSUME NEW m \in live PROVE Spent(m)'
  <2>0. m \in Name /\ Spent(m) /\ SameShape(m)
    BY <1>0, <1>5, Zenon DEF IInv, RegionOk
  <2>1. CASE m # p
    BY <1>2, <2>0, <2>1, OtherRegions, SpentStays, Zenon
  <2>2. CASE m = p
    <3>1. /\ region[p].watermark \in Nat /\ region[p].pages \in Nat
          /\ region'[p].watermark \in Nat /\ region[p].retyped_to <= region'[p].watermark
          /\ region'[p].watermark <= region[p].watermark
          /\ region[p].watermark <= region[p].pages
      BY <1>0, <1>2, <2>0, <2>2, RegionTypes, Zenon DEF Fitting, Spent
    <3>2. region'[p].watermark <= region[p].pages
      BY <3>1
    <3> QED BY <1>2, <2>0, <2>2, <3>1, <3>2, Zenon DEF Spent, SameShape
  <2> QED BY <2>1, <2>2, Zenon
<1>9. ASSUME NEW m \in live PROVE RegionOk(m)'
  <2>1. region[m].parent = p =>
          region[m].base_page + region[m].pages <= region[p].base_page + region'[p].watermark
    BY <1>2, Zenon DEF Fitting, Children
  <2>2. Placed(region[m].base_page, region[m].pages, region[m].parent)'
    BY <1>6, <1>5, <2>1, Zenon DEF IInv, RegionOk, SameShape
  <2> QED BY <1>7, <1>8, <2>2, Zenon DEF IInv, RegionOk
<1>10. ASSUME NEW o \in Actor PROVE HolderOk(o)'
  <2> SUFFICES ASSUME Holding(o)' PROVE HolderOk(o)'
    BY Zenon DEF HolderOk
  <2>1. Holding(o) /\ SameHold(o) /\ o # a
    BY <1>4, Zenon DEF LessHeld
  <2>2. arg[o].parent = p =>
          arg[o].base_page + arg[o].pages <= region[p].base_page + region'[p].watermark
    BY <1>2, <2>1, Zenon DEF Fitting
  <2> QED BY <1>6, <2>1, <2>2, Zenon DEF IInv, HolderOk, SameHold
<1>11. SiblingsApart'
  BY <1>0, <1>4, <1>5, ApartStays, Zenon
<1>12. Unborn'
  BY Zenon DEF IInv, Unborn
<1> QED BY <1>3, <1>9, <1>10, <1>11, <1>12, Zenon DEF IInv

\* GiveBack: the run goes to the parent, or to the frame allocator.
LEMMA GiveBackKeeps ==
  ASSUME IInv, NEW a \in Actor, GiveBack(a)
  PROVE  IInv'
<1>0. /\ pc[a] = "revoke" /\ Done(a) /\ Holding(a)
      /\ UNCHANGED <<live, used, objects, retyped, phantom>>
  BY Zenon DEF GiveBack, Holding
<1>1. CASE arg[a].parent = NO_PARENT
  BY <1>0, <1>1, FreedKeeps, Zenon DEF GiveBack
<1>2. CASE arg[a].parent # NO_PARENT
  <2>1. arg[a].parent \in live
    BY <1>0, <1>2, Zenon DEF IInv, HolderOk, Placed
  <2> QED BY <1>0, <1>2, <2>1, ReturnKeeps, Zenon DEF GiveBack
<1> QED BY <1>1, <1>2, Zenon

------------------------------------------------------------------------------
(* The inductive invariant.                                                 *)

\* At boot there is no region and no call holds memory.
LEMMA InitIInv == Init => IInv
<1> SUFFICES ASSUME Init PROVE IInv
  BY Zenon
<1>1. live = {} /\ \A a \in Actor : pc[a] = "idle"
  BY Zenon DEF Init
<1>2. Typed
  <2>1. Vacant \in Region
    <3>1. 0 \in Page /\ 0 \in 0 .. NumPages /\ NO_PARENT \in Name \cup {NO_PARENT}
      BY RegionsAssumption DEF Page
    <3> QED BY <3>1, FreshIs, Zenon DEF Vacant
  <2>2. 0 \in 0 .. NumNames
    BY Names
  <2>3. 0 \in Nat
    BY Zenon
  <2> QED BY <2>1, <2>2, <2>3, Args, Zenon DEF Init, Typed, TypeOK, PC
<1>3. (\A a \in Actor : HolderOk(a)) /\ SiblingsApart
  BY <1>1, Zenon DEF HolderOk, SiblingsApart, Holding
<1>4. Unborn
  BY Zenon DEF Init, Unborn
<1> QED BY <1>1, <1>2, <1>3, <1>4, Zenon DEF IInv

\* Every step of every call keeps the memory accounted for.
THEOREM NextIInv == IInv /\ [Next]_vars => IInv'
<1> SUFFICES ASSUME IInv, [Next]_vars PROVE IInv'
  BY Zenon
<1>1. CASE UNCHANGED vars
  <2>1. UNCHANGED <<live, region, used, free, objects, pc, arg, retyped, phantom>>
    BY <1>1, Zenon DEF vars
  <2>2. Typed'
    BY <2>1, Zenon DEF IInv, Typed, TypeOK
  <2> QED BY <2>1, <2>2, Quiet, Zenon DEF SameShape, SameHold
<1>2. CASE Next
  <2>1. PICK a \in Actor :
          \/ alloc_contiguous(a) \/ insert_root(a)
          \/ insert_from_page(a)
          \/ claim_for_destroy(a) \/ GiveBack(a)
          \/ region_bounds(a) \/ reap_region_objects(a) \/ unpin(a)
          \/ \E r \in Name :
               \/ split(a, r) \/ retype_run(a, r) \/ create_rendezvous(a, r)
               \/ create_thread_control_block(a, r) \/ destroy(a, r) \/ reclaim_region(a, r)
    BY <1>2, Zenon DEF Next
  <2>2. CASE alloc_contiguous(a)
    BY <2>2, AllocKeeps, Zenon
  <2>3. CASE insert_root(a)
    BY <2>3, InsertRootKeeps, Zenon
  <2>4. CASE \/ insert_from_page(a) \/ region_bounds(a) \/ reap_region_objects(a)
             \/ \E r \in Name : destroy(a, r) \/ reclaim_region(a, r)
    BY <2>4, ReadersKeep, Zenon
  <2>5. CASE claim_for_destroy(a)
    BY <2>5, ClaimKeeps, Zenon
  <2>6. CASE GiveBack(a)
    BY <2>6, GiveBackKeeps, Zenon
  <2>7. CASE unpin(a)
    BY <2>7, UnpinKeeps, Zenon
  <2>8. CASE \E r \in Name : split(a, r)
    BY <2>8, SplitKeeps, Zenon
  <2>9. CASE \E r \in Name : \/ retype_run(a, r) \/ create_rendezvous(a, r)
                             \/ create_thread_control_block(a, r)
    BY <2>9, RetypeKeeps, Zenon
  <2> QED BY <2>1, <2>2, <2>3, <2>4, <2>5, <2>6, <2>7, <2>8, <2>9, Zenon
<1> QED BY <1>1, <1>2, Zenon

\* The accounting of memory holds in every reachable state.
THEOREM SpecIInv == Spec => []IInv
BY InitIInv, NextIInv, PTL DEF Spec

------------------------------------------------------------------------------
(* What the invariant says.                                                 *)

\* A page of a run is a number inside it, and runs that are apart share no page.
LEMMA RunIs ==
  ASSUME NEW b \in Nat, NEW n \in Nat
  PROVE  /\ \A x \in Run(b, n) : x \in Page /\ Inside(b, n, x)
         /\ \A c, m \in Nat : Apart(b, n, c, m) => Run(b, n) \cap Run(c, m) = {}
         /\ \A c, m \in Nat : c <= b /\ b + n <= c + m => Run(b, n) \subseteq Run(c, m)
<1>1. \A x \in Run(b, n) : x \in Page /\ Inside(b, n, x)
  BY Zenon DEF Run, Inside
<1>2. ASSUME NEW c \in Nat, NEW m \in Nat, Apart(b, n, c, m), NEW x \in Page,
             b <= x, x < b + n, c <= x, x < c + m
      PROVE  FALSE
  BY <1>2 DEF Apart, Page
<1>3. ASSUME NEW c \in Nat, NEW m \in Nat, c <= b, b + n <= c + m, NEW x \in Page,
             b <= x, x < b + n
      PROVE  c <= x /\ x < c + m
  BY <1>3 DEF Page
<1> QED BY <1>1, <1>2, <1>3, Zenon DEF Run

\* What a run placed in p is in terms of pages.
LEMMA PlacedPages ==
  ASSUME TypeOK, NEW b \in Nat, NEW n \in Nat, NEW p, Placed(b, n, p)
  PROVE  /\ p = NO_PARENT => Run(b, n) \cap free = {}
         /\ p # NO_PARENT =>
               /\ Run(b, n) \subseteq Run(region[p].base_page, region[p].watermark)
               /\ Run(b, n) \cap retyped[p] = {}
<1>1. \A x \in Run(b, n) : Inside(b, n, x)
  BY RunIs, Zenon
<1>2. p = NO_PARENT => Run(b, n) \cap free = {}
  BY <1>1, Zenon DEF Placed
<1>3. ASSUME p # NO_PARENT
      PROVE  /\ Run(b, n) \subseteq Run(region[p].base_page, region[p].watermark)
             /\ Run(b, n) \cap retyped[p] = {}
  <2>1. p \in Name
    BY <1>3, Zenon DEF Placed, TypeOK
  <2>2. region[p].base_page \in Nat /\ region[p].watermark \in Nat
    BY <2>1, RegionTypes, Zenon
  <2>3. /\ region[p].base_page <= b /\ b + n <= region[p].base_page + region[p].watermark
        /\ \A x \in retyped[p] : ~Inside(b, n, x)
    BY <1>3, Zenon DEF Placed
  <2>4. Run(b, n) \subseteq Run(region[p].base_page, region[p].watermark)
    <3>1. \A c, m \in Nat : c <= b /\ b + n <= c + m => Run(b, n) \subseteq Run(c, m)
      BY RunIs, Zenon
    <3> QED BY <2>2, <2>3, <3>1, Zenon
  <2> QED BY <1>1, <2>3, <2>4, Zenon
<1> QED BY <1>2, <1>3, Zenon

\* Where the pieces of a region and of the frame allocator lie.
LEMMA PiecesLie ==
  ASSUME IInv
  PROVE  /\ \A c \in live :
               /\ region[c].parent = NO_PARENT => Span(c) \cap free = {}
               /\ region[c].parent # NO_PARENT =>
                     /\ Span(c) \subseteq Run(region[region[c].parent].base_page,
                                              region[region[c].parent].watermark)
                     /\ Span(c) \cap retyped[region[c].parent] = {}
         /\ \A a \in Actor : Holding(a) =>
               /\ arg[a].parent = NO_PARENT =>
                     Run(arg[a].base_page, arg[a].pages) \cap free = {}
               /\ arg[a].parent # NO_PARENT =>
                     /\ Run(arg[a].base_page, arg[a].pages) \subseteq
                           Run(region[arg[a].parent].base_page, region[arg[a].parent].watermark)
                     /\ Run(arg[a].base_page, arg[a].pages) \cap retyped[arg[a].parent] = {}
<1>0. TypeOK /\ live \subseteq Name
  BY Zenon DEF IInv, Typed, TypeOK
<1>1. ASSUME NEW c \in live
      PROVE  /\ region[c].parent = NO_PARENT => Span(c) \cap free = {}
             /\ region[c].parent # NO_PARENT =>
                   /\ Span(c) \subseteq Run(region[region[c].parent].base_page,
                                            region[region[c].parent].watermark)
                   /\ Span(c) \cap retyped[region[c].parent] = {}
  <2>1. /\ Placed(region[c].base_page, region[c].pages, region[c].parent)
        /\ region[c].base_page \in Nat /\ region[c].pages \in Nat
    BY <1>0, RegionTypes, Zenon DEF IInv, RegionOk
  <2> QED BY <1>0, <2>1, PlacedPages, Zenon DEF Span
<1>2. ASSUME NEW a \in Actor, Holding(a)
      PROVE  /\ arg[a].parent = NO_PARENT =>
                   Run(arg[a].base_page, arg[a].pages) \cap free = {}
             /\ arg[a].parent # NO_PARENT =>
                   /\ Run(arg[a].base_page, arg[a].pages) \subseteq
                         Run(region[arg[a].parent].base_page, region[arg[a].parent].watermark)
                   /\ Run(arg[a].base_page, arg[a].pages) \cap retyped[arg[a].parent] = {}
  <2>1. /\ Placed(arg[a].base_page, arg[a].pages, arg[a].parent)
        /\ arg[a].base_page \in Nat /\ arg[a].pages \in Nat
    BY <1>0, <1>2, ArgTypes, Zenon DEF IInv, HolderOk
  <2> QED BY <1>0, <2>1, PlacedPages, Zenon
<1> QED BY <1>1, <1>2, Zenon

\* Pieces of one parent share no page.
LEMMA PiecesApart ==
  ASSUME IInv
  PROVE  /\ \A c, d \in live : c # d /\ region[c].parent = region[d].parent =>
               Span(c) \cap Span(d) = {}
         /\ \A c \in live, a \in Actor : Holding(a) /\ region[c].parent = arg[a].parent =>
               Span(c) \cap Run(arg[a].base_page, arg[a].pages) = {}
         /\ \A a, b \in Actor :
               a # b /\ Holding(a) /\ Holding(b) /\ arg[a].parent = arg[b].parent =>
                  Run(arg[a].base_page, arg[a].pages)
                     \cap Run(arg[b].base_page, arg[b].pages) = {}
<1>0. TypeOK /\ live \subseteq Name /\ SiblingsApart
  BY Zenon DEF IInv, Typed, TypeOK
<1>1. \A c \in live : region[c].base_page \in Nat /\ region[c].pages \in Nat
  BY <1>0, RegionTypes, Zenon
<1>2. \A a \in Actor : arg[a].base_page \in Nat /\ arg[a].pages \in Nat
  BY <1>0, ArgTypes, Zenon
<1>3. \A b, n, c, m \in Nat : Apart(b, n, c, m) => Run(b, n) \cap Run(c, m) = {}
  BY RunIs, Zenon
<1>4. ASSUME NEW c \in live, NEW d \in live, c # d, region[c].parent = region[d].parent
      PROVE  Span(c) \cap Span(d) = {}
  <2>1. Apart(region[c].base_page, region[c].pages, region[d].base_page, region[d].pages)
    BY <1>0, <1>4, Zenon DEF SiblingsApart
  <2> QED BY <1>1, <1>3, <2>1, Zenon DEF Span
<1>5. ASSUME NEW c \in live, NEW a \in Actor, Holding(a), region[c].parent = arg[a].parent
      PROVE  Span(c) \cap Run(arg[a].base_page, arg[a].pages) = {}
  <2>1. Apart(region[c].base_page, region[c].pages, arg[a].base_page, arg[a].pages)
    BY <1>0, <1>5, Zenon DEF SiblingsApart
  <2> QED BY <1>1, <1>2, <1>3, <2>1, Zenon DEF Span
<1>6. ASSUME NEW a \in Actor, NEW b \in Actor, a # b, Holding(a), Holding(b),
             arg[a].parent = arg[b].parent
      PROVE  Run(arg[a].base_page, arg[a].pages) \cap Run(arg[b].base_page, arg[b].pages) = {}
  <2>1. Apart(arg[a].base_page, arg[a].pages, arg[b].base_page, arg[b].pages)
    BY <1>0, <1>6, Zenon DEF SiblingsApart
  <2> QED BY <1>2, <1>3, <2>1, Zenon
<1> QED BY <1>4, <1>5, <1>6, Zenon

\* What a region hands out it hands out once.
LEMMA HandedOutOnce == IInv => PageHandedOutOnce
<1> SUFFICES ASSUME IInv, NEW n \in live
             PROVE
               LET below == Run(region[n].base_page, region[n].watermark)
               IN  /\ retyped[n] \subseteq below
                   /\ \A x \in Pieces(n) : x \subseteq below /\ x \cap retyped[n] = {}
                   /\ \A x, y \in Pieces(n) : x # y => x \cap y = {}
                   /\ \A c, d \in Children(n) : c # d => Span(c) \cap Span(d) = {}
                   /\ \A c \in Children(n), a \in Claims :
                         arg[a].parent = n
                           => Span(c) \cap Run(arg[a].base_page, arg[a].pages) = {}
  BY Zenon DEF PageHandedOutOnce
<1>0. TypeOK /\ n \in Name /\ n # NO_PARENT /\ RegionOk(n) /\ retyped[n] \subseteq Page
  BY Names, Zenon DEF IInv, Typed, TypeOK
<1>1. PICK below : below = Run(region[n].base_page, region[n].watermark)
  BY Zenon
<1>2. retyped[n] \subseteq below
  <2> SUFFICES ASSUME NEW x \in retyped[n] PROVE x \in below
    BY Zenon
  <2>1. /\ region[n].base_page \in Nat /\ region[n].watermark \in Nat
        /\ region[n].retyped_to \in Nat
    BY <1>0, RegionTypes, Zenon
  <2>2. /\ region[n].retyped_to <= region[n].watermark
        /\ region[n].base_page <= x /\ x < region[n].base_page + region[n].retyped_to
        /\ x \in Page
    BY <1>0, Zenon DEF RegionOk, Spent, Inside
  <2>3. x < region[n].base_page + region[n].watermark
    BY <2>1, <2>2 DEF Page
  <2> QED BY <1>1, <2>2, <2>3, Zenon DEF Run
<1>3. \A c \in Children(n) : c \in live /\ region[c].parent = n
  BY Zenon DEF Children
<1>4. \A a \in Claims : a \in Actor /\ Holding(a)
  BY Zenon DEF Claims, Holding
<1>5. \A c \in Children(n) : Span(c) \subseteq below /\ Span(c) \cap retyped[n] = {}
  BY <1>0, <1>1, <1>3, PiecesLie, Zenon
<1>6. \A a \in Claims : arg[a].parent = n =>
         /\ Run(arg[a].base_page, arg[a].pages) \subseteq below
         /\ Run(arg[a].base_page, arg[a].pages) \cap retyped[n] = {}
  BY <1>0, <1>1, <1>4, PiecesLie, Zenon
<1>7. \A x \in Pieces(n) : x \subseteq below /\ x \cap retyped[n] = {}
  BY <1>5, <1>6, Zenon DEF Pieces
<1>8. \A c, d \in Children(n) : c # d => Span(c) \cap Span(d) = {}
  BY <1>3, PiecesApart, Zenon
<1>9. \A c \in Children(n), a \in Claims :
         arg[a].parent = n => Span(c) \cap Run(arg[a].base_page, arg[a].pages) = {}
  BY <1>3, <1>4, PiecesApart, Zenon
<1>10. \A a, b \in Claims : a # b /\ arg[a].parent = n /\ arg[b].parent = n =>
         Run(arg[a].base_page, arg[a].pages) \cap Run(arg[b].base_page, arg[b].pages) = {}
  BY <1>4, PiecesApart, Zenon
<1>11. \A x, y \in Pieces(n) : x # y => x \cap y = {}
  <2> SUFFICES ASSUME NEW x \in Pieces(n), NEW y \in Pieces(n), x # y PROVE x \cap y = {}
    BY Zenon
  <2>1. ASSUME NEW z \in Pieces(n)
        PROVE  \/ \E c \in Children(n) : z = Span(c)
               \/ \E a \in Claims : arg[a].parent = n /\ z = Run(arg[a].base_page, arg[a].pages)
    BY <2>1, Zenon DEF Pieces
  <2>2. CASE (\E c \in Children(n) : x = Span(c)) /\ (\E d \in Children(n) : y = Span(d))
    BY <1>8, <2>2, Zenon
  <2>3. ASSUME NEW a \in Claims, arg[a].parent = n, x = Run(arg[a].base_page, arg[a].pages)
        PROVE  x \cap y = {}
    <3>1. CASE \E c \in Children(n) : y = Span(c)
      BY <1>9, <2>3, <3>1, Zenon
    <3>2. CASE \E b \in Claims : arg[b].parent = n /\ y = Run(arg[b].base_page, arg[b].pages)
      BY <1>10, <2>3, <3>2, Zenon
    <3> QED BY <2>1, <3>1, <3>2, Zenon
  <2>4. ASSUME NEW c \in Children(n), x = Span(c),
               NEW a \in Claims, arg[a].parent = n, y = Run(arg[a].base_page, arg[a].pages)
        PROVE  x \cap y = {}
    BY <1>9, <2>4, Zenon
  <2> QED BY <2>1, <2>2, <2>3, <2>4, Zenon
<1> QED BY <1>1, <1>2, <1>7, <1>8, <1>9, <1>11, Zenon

\* What the frame allocator hands out it hands out once.
LEMMA RootsOwnedOnce == IInv => RootPagesOwnedOnce
<1> SUFFICES ASSUME IInv PROVE RootPagesOwnedOnce
  BY Zenon
<1>1. ASSUME NEW n \in live, region[n].parent = NO_PARENT PROVE Span(n) \cap free = {}
  BY <1>1, PiecesLie, Zenon
<1>2. ASSUME NEW n \in live, NEW m \in live, region[n].parent = NO_PARENT,
             region[m].parent = NO_PARENT, m # n
      PROVE  Span(n) \cap Span(m) = {}
  BY <1>2, PiecesApart, Zenon
<1>3. \A a \in Actor : RootActor(a) => Holding(a) /\ arg[a].parent = NO_PARENT
  BY Zenon DEF RootActor, Holding, IInv, HolderOk
<1>4. ASSUME NEW a \in Actor, RootActor(a)
      PROVE  /\ Run(arg[a].base_page, arg[a].pages) \cap free = {}
             /\ \A n \in live : region[n].parent = NO_PARENT =>
                   Run(arg[a].base_page, arg[a].pages) \cap Span(n) = {}
             /\ \A b \in Actor : RootActor(b) /\ b # a =>
                   Run(arg[a].base_page, arg[a].pages)
                     \cap Run(arg[b].base_page, arg[b].pages) = {}
  <2>1. Run(arg[a].base_page, arg[a].pages) \cap free = {}
    BY <1>3, <1>4, PiecesLie, Zenon
  <2>2. \A n \in live : region[n].parent = NO_PARENT =>
           Span(n) \cap Run(arg[a].base_page, arg[a].pages) = {}
    BY <1>3, <1>4, PiecesApart, Zenon
  <2>3. \A b \in Actor : RootActor(b) /\ b # a =>
           Run(arg[a].base_page, arg[a].pages) \cap Run(arg[b].base_page, arg[b].pages) = {}
    BY <1>3, <1>4, PiecesApart, Zenon
  <2> QED BY <2>1, <2>2, <2>3, Zenon
<1> QED BY <1>1, <1>2, <1>4, Zenon DEF RootPagesOwnedOnce

\* No page ever has two owners, for any number of pages, regions and callers
\* (split, retype_run, claim_for_destroy, return_to_parent, create).
THEOREM PagesOwnedOnceHolds == Spec => []PagesOwnedOnce
<1>1. IInv => PagesOwnedOnce
  BY HandedOutOnce, RootsOwnedOnce, Zenon DEF PagesOwnedOnce, IInv, Typed
<1> QED BY <1>1, SpecIInv, PTL

\* A parent counts its live children, those on their way back and those a full
\* table refused, and outlives them all (split, claim_for_destroy,
\* return_to_parent).
THEOREM ChildrenCountedHolds == Spec => []ChildrenCounted
<1>1. IInv => ChildrenCounted
  <2> SUFFICES ASSUME IInv PROVE ChildrenCounted
    BY Zenon
  <2>1. \A n \in live : region[n].children =
          Cardinality(Children(n)) + Cardinality({a \in Claims : arg[a].parent = n}) + phantom[n]
    BY Zenon DEF IInv, RegionOk, Counted, Returning
  <2>2. \A n \in live : region[n].parent \in live \cup {NO_PARENT}
    BY Zenon DEF IInv, RegionOk, Placed
  <2>3. \A a \in Claims : arg[a].parent \in live \cup {NO_PARENT}
    BY Zenon DEF IInv, HolderOk, Holding, Claims, Placed
  <2> QED BY <2>1, <2>2, <2>3, Zenon DEF ChildrenCounted
<1> QED BY <1>1, SpecIInv, PTL

\* A region nothing is out of has spent exactly what it retyped, whatever the order
\* in which its children came back (coalesced_watermark).
THEOREM HolesComeBackHolds == Spec => []HolesComeBack
<1>1. IInv => HolesComeBack
  BY Zenon DEF IInv, RegionOk, Counted, HolesComeBack
<1> QED BY <1>1, SpecIInv, PTL

------------------------------------------------------------------------------
(* No page is lost.                                                         *)

\* Who a page may belong to: the three alternatives of NoPageLost.
Owned(p) ==
    \/ p \in free
    \/ \E n \in live : region[n].parent = NO_PARENT /\ p \in Span(n)
    \/ \E a \in Actor : RootActor(a) /\ p \in Run(arg[a].base_page, arg[a].pages)

\* A step loses no page when the free pages, each root region and each call that
\* holds pages of the allocator's stay, or their pages pass to another owner.
LEMMA StillOwned ==
  ASSUME NoPageLost,
         \A p \in free : Owned(p)',
         \A n \in live : region[n].parent = NO_PARENT =>
             (n \in live' /\ SameShape(n)) \/ \A p \in Span(n) : Owned(p)',
         \A b \in Actor : RootActor(b) =>
             SameHold(b) \/ \A p \in Run(arg[b].base_page, arg[b].pages) : Owned(p)'
  PROVE  NoPageLost'
<1> SUFFICES ASSUME NEW p \in Page PROVE Owned(p)'
  BY Zenon DEF NoPageLost, Owned
<1>1. Owned(p)
  BY Zenon DEF NoPageLost, Owned
<1>2. ASSUME NEW n \in live, region[n].parent = NO_PARENT, p \in Span(n) PROVE Owned(p)'
  <2>1. CASE n \in live' /\ SameShape(n)
    <3>1. region'[n].parent = NO_PARENT /\ p \in Span(n)'
      BY <1>2, <2>1, Zenon DEF SameShape, Span
    <3> QED BY <2>1, <3>1, Zenon DEF Owned
  <2> QED BY <1>2, <2>1, Zenon
<1>3. ASSUME NEW b \in Actor, RootActor(b), p \in Run(arg[b].base_page, arg[b].pages)
      PROVE  Owned(p)'
  <2>1. CASE SameHold(b)
    <3>1. RootActor(b)' /\ p \in Run(arg'[b].base_page, arg'[b].pages)
      BY <1>3, <2>1, Zenon DEF SameHold, RootActor
    <3> QED BY <3>1, Zenon DEF Owned
  <2> QED BY <1>3, <2>1, Zenon
<1> QED BY <1>1, <1>2, <1>3, Zenon DEF Owned

\* A call that holds no such pages goes on, and every region keeps its run.
LEMMA NothingTaken ==
  ASSUME TypeOK, NoPageLost, NEW a \in Actor, ~RootActor(a), \A b \in Actor \ {a} : SameHold(b),
         free' = free, live \subseteq live', \A n \in live : SameShape(n)
  PROVE  NoPageLost'
<1>1. \A p \in free : Owned(p)'
  BY Zenon DEF Owned
<1> QED BY <1>1, StillOwned, Zenon

\* Readers, unpin and the carves move no run.
LEMMA ReadersLoseNone ==
  ASSUME IInv, NoPageLost, NEW a \in Actor,
         \/ insert_from_page(a) \/ region_bounds(a) \/ reap_region_objects(a) \/ unpin(a)
         \/ \E r \in Name : \/ retype_run(a, r) \/ create_rendezvous(a, r)
                            \/ create_thread_control_block(a, r)
                            \/ destroy(a, r) \/ reclaim_region(a, r)
  PROVE  NoPageLost'
<1>0. TypeOK
  BY Zenon DEF IInv, Typed
<1>1. ~RootActor(a) /\ free' = free /\ live' = live
  BY Zenon DEF insert_from_page, region_bounds, reap_region_objects, unpin, retype_run,
     create_rendezvous, create_thread_control_block, destroy, reclaim_region, Idle, RootActor
<1>2. \A b \in Actor \ {a} : SameHold(b)
  <2>1. \/ UNCHANGED <<pc, arg>>
        \/ \E label, x : Goto(a, label, x)
    BY Zenon DEF insert_from_page, region_bounds, reap_region_objects, unpin, retype_run,
       create_rendezvous, create_thread_control_block, destroy, reclaim_region, Done
  <2> QED BY <1>0, <2>1, Zenon DEF Goto, SameHold, TypeOK
<1>3. ASSUME NEW n \in live PROVE SameShape(n)
  <2>0. n \in Name /\ region[n] \in Region /\ region \in [Name -> Region]
    BY <1>0, Zenon DEF TypeOK
  <2>1. CASE region' = region
    BY <2>1, Zenon DEF SameShape
  <2>2. ASSUME NEW r, region' = [region EXCEPT ![r].pinned = FALSE] PROVE SameShape(n)
    BY <2>0, <2>2, Zenon DEF SameShape, Region
  <2>3. ASSUME NEW r, NEW v, region' = [region EXCEPT ![r].watermark = region[r].watermark + v,
                                       ![r].retyped_to = region[r].watermark + v]
        PROVE  SameShape(n)
    BY <2>0, <2>3, Zenon DEF SameShape, Region
  <2>4. ASSUME NEW r, region' = [region EXCEPT ![r].pinned = TRUE,
                                       ![r].watermark = region[r].watermark + 1,
                                       ![r].retyped_to = region[r].watermark + 1]
        PROVE  SameShape(n)
    BY <2>0, <2>4, Zenon DEF SameShape, Region
  <2>5. CASE \/ insert_from_page(a) \/ region_bounds(a) \/ reap_region_objects(a)
             \/ \E r \in Name : destroy(a, r) \/ reclaim_region(a, r)
    BY <2>1, <2>5, Zenon DEF insert_from_page, region_bounds, reap_region_objects, destroy,
       reclaim_region
  <2>6. CASE unpin(a)
    BY <2>1, <2>2, <2>6, Zenon DEF unpin
  <2>7. CASE \E r \in Name : retype_run(a, r)
    BY <2>3, <2>7, Zenon DEF retype_run
  <2>8. CASE \E r \in Name : create_rendezvous(a, r) \/ create_thread_control_block(a, r)
    BY <2>4, <2>8, Zenon DEF create_rendezvous, create_thread_control_block,
       retype_object_page
  <2> QED BY <2>5, <2>6, <2>7, <2>8, Zenon
<1> QED BY <1>0, <1>1, <1>2, <1>3, NothingTaken, Zenon

\* A split keeps the run of its parent, slot or no slot.
LEMMA SplitLosesNone ==
  ASSUME IInv, NoPageLost, NEW a \in Actor, NEW p \in Name, split(a, p)
  PROVE  NoPageLost'
<1>0. /\ TypeOK /\ p \in live /\ used \in Nat /\ pc[a] = "idle" /\ UNCHANGED <<free, pc, arg>>
  BY SMT DEF IInv, Typed, split, Idle, TypeOK
<1>1. PICK n \in 1 .. NumPages :
        LET bumped == [region EXCEPT ![p].watermark = @ + n, ![p].children = @ + 1]
            child  == Fresh(region[p].base_page + region[p].watermark, n, p)
        IN  /\ Fits(region[p], n)
            /\ \/ /\ HasSlot
                  /\ used' = used + 1
                  /\ live' = live \cup {used + 1}
                  /\ region' = [bumped EXCEPT ![used + 1] = child]
                  /\ UNCHANGED phantom
               \/ /\ ~HasSlot
                  /\ region' = bumped
                  /\ phantom' = [phantom EXCEPT ![p] = @ + 1]
                  /\ UNCHANGED <<used, live>>
  BY Zenon DEF split
<1>2. PICK bumped : bumped = [region EXCEPT ![p].watermark = region[p].watermark + n,
                                            ![p].children = region[p].children + 1]
  BY Zenon
<1>3. n \in Nat /\ Fits(region[p], n)
  BY <1>1, Names
<1>4. /\ bumped \in [Name -> Region]
      /\ bumped[p].base_page = region[p].base_page /\ bumped[p].pages = region[p].pages
      /\ bumped[p].parent = region[p].parent
      /\ \A m \in Name \ {p} : bumped[m] = region[m]
  BY <1>0, <1>2, <1>3, BumpedIs
<1>5. /\ live \subseteq live'
      /\ region' = bumped \/ \E child : region' = [bumped EXCEPT ![used + 1] = child]
  BY <1>1, <1>2, Zenon
<1>6. used + 1 \notin live
  <2>1. \A m \in live : m <= used /\ m \in Nat
    BY <1>0, Names, Zenon DEF IInv, RegionOk, TypeOK
  <2> QED BY <1>0, <2>1
<1>7. ASSUME NEW m \in live PROVE SameShape(m)
  <2>1. m \in Name /\ m # used + 1
    BY <1>0, <1>6, Zenon DEF TypeOK
  <2>2. region'[m] = bumped[m]
    BY <1>4, <1>5, <2>1, Zenon
  <2> QED BY <1>4, <2>1, <2>2, Zenon DEF SameShape
<1>8. ~RootActor(a) /\ \A b \in Actor \ {a} : SameHold(b)
  BY <1>0, Zenon DEF RootActor, SameHold
<1> QED BY <1>0, <1>5, <1>7, <1>8, NothingTaken, Zenon

\* What the allocator gives is in the hands of the call that asked.
LEMMA AllocLosesNone ==
  ASSUME IInv, NoPageLost, NEW a \in Actor, alloc_contiguous(a)
  PROVE  NoPageLost'
<1>0. TypeOK /\ pc[a] = "idle" /\ UNCHANGED <<live, region>>
  BY Zenon DEF IInv, Typed, alloc_contiguous, Idle
<1>1. PICK b \in Page, n \in 1 .. NumPages :
        /\ free' = free \ Run(b, n)
        /\ Goto(a, "insert_root", [NoArg EXCEPT !.base_page = b, !.pages = n])
  BY Zenon DEF alloc_contiguous
<1>2. b \in Nat /\ n \in Nat
  BY Names DEF Page
<1>3. PICK x : x = [NoArg EXCEPT !.base_page = b, !.pages = n]
  BY Zenon
<1>4. x \in Arg /\ x.base_page = b /\ x.pages = n
  BY <1>2, <1>3, Args, Zenon
<1>5. pc'[a] = "insert_root" /\ arg'[a] = x /\ \A o \in Actor \ {a} : SameHold(o)
  BY <1>0, <1>1, <1>3, <1>4, GotoIs, Zenon DEF PC
<1>6. ASSUME NEW p \in free PROVE Owned(p)'
  <2>1. CASE p \in Run(b, n)
    BY <1>4, <1>5, <2>1, Zenon DEF Owned, RootActor
  <2>2. CASE p \notin Run(b, n)
    BY <1>1, <2>2, Zenon DEF Owned
  <2> QED BY <2>1, <2>2, Zenon
<1>7. \A o \in Actor : RootActor(o) => SameHold(o)
  BY <1>0, <1>5, Zenon DEF RootActor
<1>8. \A n_1 \in live : n_1 \in live' /\ SameShape(n_1)
  BY <1>0, Zenon DEF SameShape
<1> QED BY <1>6, <1>7, <1>8, StillOwned, Zenon

\* A call lets go of its run by freeing it.
LEMMA FreedLosesNone ==
  ASSUME IInv, NoPageLost, NEW a \in Actor, Done(a), UNCHANGED <<live, region>>,
         free' = free \cup Run(arg[a].base_page, arg[a].pages)
  PROVE  NoPageLost'
<1>0. TypeOK
  BY Zenon DEF IInv, Typed
<1>1. \A o \in Actor \ {a} : SameHold(o)
  BY <1>0, GotoIs, Args, Zenon DEF Done, PC
<1>2. /\ \A p \in free : Owned(p)'
      /\ \A p \in Run(arg[a].base_page, arg[a].pages) : Owned(p)'
  BY Zenon DEF Owned
<1>3. \A n \in live : n \in live' /\ SameShape(n)
  BY Zenon DEF SameShape
<1> QED BY <1>1, <1>2, <1>3, StillOwned, Zenon

\* create names its run, or finds the table full and frees it.
LEMMA InsertRootLosesNone ==
  ASSUME IInv, NoPageLost, NEW a \in Actor, insert_root(a)
  PROVE  NoPageLost'
<1>0. /\ TypeOK /\ pc[a] = "insert_root" /\ arg[a].base_page \in Nat /\ arg[a].pages \in Nat
      /\ Done(a) /\ Placed(arg[a].base_page, arg[a].pages, NO_PARENT)
  BY ArgTypes, Zenon DEF IInv, Typed, insert_root, Holding, HolderOk
<1>1. CASE ~HasSlot
  <2>1. /\ free' = free \cup Run(arg[a].base_page, arg[a].pages)
        /\ UNCHANGED <<live, region>>
    BY <1>1, Zenon DEF insert_root
  <2> QED BY <1>0, <2>1, FreedLosesNone, Zenon
<1>2. CASE HasSlot
  <2>0. PICK b, n, c : b = arg[a].base_page /\ n = arg[a].pages /\ c = used + 1
    BY Zenon
  <2>1. /\ used < NumNames /\ live' = live \cup {c}
        /\ region' = [region EXCEPT ![c] = Fresh(b, n, NO_PARENT)] /\ free' = free
    BY <1>2, <2>0, Zenon DEF insert_root, Insert
  <2>2. used \in Nat /\ NumNames \in Nat
    BY <1>0, Names DEF TypeOK
  <2>3. c \in Name
    BY <2>0, <2>1, <2>2 DEF Name
  <2>4. c \notin live
    <3>1. \A m \in live : m <= used /\ m \in Nat
      BY <1>0, Names, Zenon DEF IInv, RegionOk, TypeOK
    <3> QED BY <2>0, <2>2, <3>1
  <2>5. b \in Page /\ n \in 0 .. NumPages
    <3>1. n > 0 /\ b + n <= NumPages /\ NumPages \in Nat /\ b \in Nat /\ n \in Nat
      BY <1>0, <2>0, Names, Zenon DEF Placed
    <3> QED BY <3>1 DEF Page
  <2>6. PICK x : x = Fresh(b, n, NO_PARENT)
    BY Zenon
  <2>7. x \in Region /\ x.base_page = b /\ x.pages = n /\ x.parent = NO_PARENT
    BY <2>5, <2>6, FreshIs
  <2>8. region'[c] = x /\ \A m \in Name \ {c} : region'[m] = region[m]
    BY <1>0, <2>1, <2>3, <2>6, <2>7, OneRegion, Zenon
  <2>9. \A o \in Actor \ {a} : SameHold(o)
    BY <1>0, GotoIs, Args, Zenon DEF Done, PC
  <2>10. ASSUME NEW m \in live PROVE m \in live' /\ SameShape(m)
    <3>1. m \in Name /\ m # c /\ m \in live'
      BY <1>0, <2>1, <2>4, Zenon DEF TypeOK
    <3>2. region'[m] = region[m]
      BY <2>8, <3>1, Zenon
    <3> QED BY <3>1, <3>2, Zenon DEF SameShape
  <2>11. \A p \in Run(b, n) : Owned(p)'
    <3>1. Span(c)' = Run(b, n) /\ region'[c].parent = NO_PARENT /\ c \in live'
      BY <2>1, <2>7, <2>8, Zenon DEF Span
    <3> QED BY <3>1, Zenon DEF Owned
  <2>12. \A p \in free : Owned(p)'
    BY <2>1, Zenon DEF Owned
  <2> QED BY <2>0, <2>9, <2>10, <2>11, <2>12, StillOwned, Zenon
<1> QED BY <1>1, <1>2, Zenon

\* A claim takes the run of a root with the name.
LEMMA ClaimLosesNone ==
  ASSUME IInv, NoPageLost, NEW a \in Actor, claim_for_destroy(a)
  PROVE  NoPageLost'
<1>0. TypeOK /\ pc[a] = "claim" /\ free' = free /\ ~RootActor(a)
  BY Zenon DEF IInv, Typed, claim_for_destroy, RootActor
<1>1. CASE Done(a) /\ UNCHANGED <<live, region, retyped>>
  <2>1. \A o \in Actor \ {a} : SameHold(o)
    BY <1>0, <1>1, GotoIs, Args, Zenon DEF Done, PC
  <2>2. live \subseteq live' /\ \A n \in live : SameShape(n)
    BY <1>1, Zenon DEF SameShape
  <2> QED BY <1>0, <2>1, <2>2, NothingTaken, Zenon
<1>2. CASE ~(Done(a) /\ UNCHANGED <<live, region, retyped>>)
  <2>1. PICK r : r = arg[a].name
    BY Zenon
  <2>2. PICK x : x = [name |-> r, base_page |-> region[r].base_page,
                      pages |-> region[r].pages, parent |-> region[r].parent]
    BY Zenon
  <2>3. /\ r \in live /\ live' = live \ {r} /\ region' = [region EXCEPT ![r] = Vacant]
        /\ Goto(a, "revoke", x)
    BY <1>2, <2>1, <2>2, Zenon DEF claim_for_destroy
  <2>4. /\ x \in Arg /\ x.base_page = region[r].base_page /\ x.pages = region[r].pages
        /\ x.parent = region[r].parent
    <3>1. r \in Name /\ /\ region[r].base_page \in Nat /\ region[r].pages \in Nat
                        /\ region[r].parent \in Name \cup {NO_PARENT}
      BY <1>0, <2>3, RegionTypes, Zenon DEF TypeOK
    <3> QED BY <2>2, <3>1, Zenon DEF Arg
  <2>5. pc'[a] = "revoke" /\ arg'[a] = x /\ \A o \in Actor \ {a} : SameHold(o)
    BY <1>0, <2>3, <2>4, GotoIs, Zenon DEF PC
  <2>6. ASSUME NEW n \in live, region[n].parent = NO_PARENT
        PROVE  (n \in live' /\ SameShape(n)) \/ \A p \in Span(n) : Owned(p)'
    <3>1. CASE n # r
      BY <1>0, <2>3, <3>1, Zenon DEF SameShape, TypeOK
    <3>2. CASE n = r
      <4>1. RootActor(a)' /\ Run(arg'[a].base_page, arg'[a].pages) = Span(n)
        BY <2>4, <2>5, <2>6, <3>2, Zenon DEF RootActor, Span
      <4> QED BY <4>1, Zenon DEF Owned
    <3> QED BY <3>1, <3>2, Zenon
  <2>7. /\ \A o \in Actor : RootActor(o) => SameHold(o)
        /\ \A p \in free : Owned(p)'
    BY <1>0, <2>5, Zenon DEF Owned
  <2> QED BY <2>6, <2>7, StillOwned, Zenon
<1> QED BY <1>1, <1>2, Zenon

\* A root's run goes to the allocator; a child's is the parent's already.
LEMMA GiveBackLosesNone ==
  ASSUME IInv, NoPageLost, NEW a \in Actor, GiveBack(a)
  PROVE  NoPageLost'
<1>0. TypeOK /\ pc[a] = "revoke" /\ Done(a) /\ Holding(a) /\ live' = live
  BY Zenon DEF IInv, Typed, GiveBack, Holding
<1>1. CASE arg[a].parent = NO_PARENT
  BY <1>0, <1>1, FreedLosesNone, Zenon DEF GiveBack
<1>2. CASE arg[a].parent # NO_PARENT
  <2>0. PICK p : p = arg[a].parent
    BY Zenon
  <2>1. p \in live /\ return_to_parent(arg[a]) /\ free' = free
    BY <1>0, <1>2, <2>0, Zenon DEF IInv, HolderOk, Placed, GiveBack
  <2>2. SameShape(p) /\ \A m \in Name \ {p} : region'[m] = region[m]
    BY <1>0, <2>0, <2>1, ReturnedIs, Zenon
  <2>3. \A n \in live : SameShape(n)
    BY <1>0, <2>2, Zenon DEF SameShape, TypeOK
  <2>4. ~RootActor(a) /\ \A o \in Actor \ {a} : SameHold(o)
    BY <1>0, <1>2, GotoIs, Args, Zenon DEF Done, PC, RootActor
  <2> QED BY <1>0, <2>1, <2>3, <2>4, NothingTaken, Zenon
<1> QED BY <1>1, <1>2, Zenon

\* No page of memory is ever lost, for any number of pages, regions and callers:
\* it is free, a live root region's, or in the hands of a call that will name it
\* or free it (create, destroy).
THEOREM NoPageLostHolds == Spec => []NoPageLost
<1>1. Init => NoPageLost
  BY Zenon DEF Init, NoPageLost
<1>2. ASSUME IInv, NoPageLost, [Next]_vars PROVE NoPageLost'
  <2>1. CASE UNCHANGED vars
    <3>1. UNCHANGED <<live, region, free, pc, arg>>
      BY <2>1, Zenon DEF vars
    <3>2. /\ \A n \in live : n \in live' /\ SameShape(n)
          /\ \A b \in Actor : SameHold(b)
          /\ \A p \in free : Owned(p)'
      BY <3>1, Zenon DEF SameShape, SameHold, Owned
    <3> QED BY <1>2, <3>2, StillOwned, Zenon
  <2>2. CASE Next
    <3>1. PICK a \in Actor :
            \/ alloc_contiguous(a) \/ insert_root(a)
            \/ insert_from_page(a)
            \/ claim_for_destroy(a) \/ GiveBack(a)
            \/ region_bounds(a) \/ reap_region_objects(a) \/ unpin(a)
            \/ \E r \in Name :
                 \/ split(a, r) \/ retype_run(a, r) \/ create_rendezvous(a, r)
                 \/ create_thread_control_block(a, r) \/ destroy(a, r) \/ reclaim_region(a, r)
      BY <2>2, Zenon DEF Next
    <3>2. CASE alloc_contiguous(a)
      BY <1>2, <3>2, AllocLosesNone, Zenon
    <3>3. CASE insert_root(a)
      BY <1>2, <3>3, InsertRootLosesNone, Zenon
    <3>4. CASE claim_for_destroy(a)
      BY <1>2, <3>4, ClaimLosesNone, Zenon
    <3>5. CASE GiveBack(a)
      BY <1>2, <3>5, GiveBackLosesNone, Zenon
    <3>6. CASE \E r \in Name : split(a, r)
      BY <1>2, <3>6, SplitLosesNone, Zenon
    <3>7. CASE \/ insert_from_page(a) \/ region_bounds(a) \/ reap_region_objects(a) \/ unpin(a)
               \/ \E r \in Name : \/ retype_run(a, r) \/ create_rendezvous(a, r)
                                  \/ create_thread_control_block(a, r)
                                  \/ destroy(a, r) \/ reclaim_region(a, r)
      BY <1>2, <3>7, ReadersLoseNone, Zenon
    <3> QED BY <3>1, <3>2, <3>3, <3>4, <3>5, <3>6, <3>7, Zenon
  <2> QED BY <1>2, <2>1, <2>2, Zenon
<1> QED BY <1>1, <1>2, SpecIInv, PTL DEF Spec
==============================================================================
