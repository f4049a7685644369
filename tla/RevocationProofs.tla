-------------------------- MODULE RevocationProofs --------------------------
(***************************************************************************)
(* Proofs about Revocation, for any processes, runs, address spaces and    *)
(* log capacities.                                                         *)
(*                                                                         *)
(* A page table and its log are written in two critical sections, so the   *)
(* inductive invariant says how far each call has come: which address is   *)
(* mapped and not recorded, or unmapped and not forgotten, and that the    *)
(* addresses behind the loop hold pages of the run the call works on.  A   *)
(* destroy is safe because it is alone and because, after its sweep, no    *)
(* table, hand-off slot or call under way holds a run it could map again.  *)
(***************************************************************************)
EXTENDS Revocation, FiniteSetTheorems, TLAPS

Entry  == [phys : Page, va : Va, object : Page]
Object == {r \in Page \X (Nat \ {0}) : PagesOf(r) \subseteq Page}

TypeOK ==
    /\ caps \in [Proc -> SUBSET Run]
    /\ outgoing \in [Proc -> Run \cup {None}]
    /\ pte \in [Proc -> [Va -> Page \cup {None}]]
    /\ log \in [Proc -> SUBSET Entry]
    /\ region \in {"live", "claimed", "freed"}
    /\ watermark \in Nat
    /\ pc \in [Proc -> {"user", "parked", "map", "record", "unmap", "forget", "grant",
                        "send", "revoke", "unmap_run", "retype", "retype_run", "claim", "sweep",
                        "scan", "unmap_victim", "free"}]
    /\ run \in [Proc -> Object \cup {None}]
    /\ va \in [Proc -> Va \cup {None}]
    /\ k \in [Proc -> Nat]
    /\ n \in [Proc -> Nat]
    /\ straddled \in BOOLEAN

\* What a call works on.
Looping(p) == pc[p] \in {"map", "record", "unmap", "forget"}

CallOk(p) ==
    /\ Looping(p) =>
          /\ run[p] \in Object /\ va[p] \in Va
          /\ k[p] < n[p] /\ n[p] <= count(run[p]) /\ va[p] + n[p] - 1 \in Va
    /\ pc[p] \in {"map", "record"} => n[p] = count(run[p])
    /\ pc[p] \in {"grant", "send", "revoke"} => run[p] \in Run
    /\ pc[p] = "unmap_run" => run[p] \in Object
    /\ pc[p] = "retype" => va[p] \in Va /\ k[p] = 0 /\ n[p] = 1
    /\ pc[p] = "unmap_victim" => run[p] \in Object /\ base(run[p]) \in RegionPages

\* The addresses behind the mapping loop, and those ahead of the unmapping one.
Behind(p, a) ==
    \/ pc[p] \in {"map", "record"} /\ va[p] <= a /\ a < va[p] + k[p]
    \/ pc[p] \in {"unmap", "forget"} /\ va[p] + k[p] <= a /\ a < va[p] + n[p]

\* How a page table and its log differ while a call is under way.
LogOk(p) ==
    /\ \A e, f \in log[p] : e.va = f.va => e = f
    /\ \A e \in log[p] :
          (pc[p] = "forget" /\ e.va = VaNow(p)) \/ pte[p][e.va] = e.phys
    /\ \A a \in Va : pte[p][a] # None =>
          (pc[p] = "record" /\ a = VaNow(p)) \/ \E e \in log[p] : e.va = a
    /\ pc[p] = "record" =>
          pte[p][VaNow(p)] = PageNow(p) /\ \A e \in log[p] : e.va # VaNow(p)
    /\ pc[p] = "forget" => pte[p][VaNow(p)] = None
    /\ \A e \in log[p] : Behind(p, e.va) => e.phys + va[p] = base(run[p]) + e.va

PaidFor(p) == IsFiniteSet(log[p]) /\ Cardinality(log[p]) <= LogCapacity[p]

\* At most one destroy is under way, and it holds the claim.
Destroying(p) == pc[p] \in {"sweep", "scan", "unmap_victim", "free"}

OneDestroyer ==
    /\ \A p \in Proc : Destroying(p) => region = "claimed"
    /\ \A p, q \in Proc : Destroying(p) /\ Destroying(q) => p = q

\* What a destroy has swept stays away from the region's pages.
Outside(r) == PagesOf(r) \cap RegionPages = {}

Swept   == region = "freed" \/ \E p \in Proc : pc[p] \in {"scan", "unmap_victim", "free"}
Scanned == region = "freed" \/ \E p \in Proc : pc[p] = "free"

CapsOutside(p) ==
    /\ \A r \in caps[p] : Outside(r)
    /\ outgoing[p] # None => Outside(outgoing[p])
    /\ HoldsCopy(p) => Outside(run[p])

TableOutside(p) == \A a \in Va : pte[p][a] \notin RegionPages

Cleared ==
    ~straddled =>
        /\ Swept => \A p \in Proc : CapsOutside(p)
        /\ Scanned => \A p \in Proc : TableOutside(p)

IInv ==
    /\ TypeOK
    /\ \A p \in Proc : CallOk(p) /\ LogOk(p) /\ PaidFor(p)
    /\ OneDestroyer
    /\ Cleared

------------------------------------------------------------------------------
(* Runs, pages and addresses.                                               *)

\* An object a capability names is a run of page frames that exist.
LEMMA RunIsObject == Run \subseteq Object
  BY RevocationAssumption, Zenon DEF Object

\* Pages and addresses are numbers, and None is no page.
LEMMA Numbers ==
  Page \subseteq Nat /\ Va \subseteq Nat /\ None \notin Page /\ None \notin RegionPages
  BY RevocationAssumption, Zenon

\* The region's pages are page frames.
LEMMA RegionIsPages == RegionPages \subseteq Page
  BY RevocationAssumption, Zenon

\* The region's watermark starts at a page number.
LEMMA FirstFreeIsNat == FirstFree \in Nat
<1>1. /\ RegionBase \in Nat /\ RegionSize \in Nat
      /\ FirstFree \in RegionBase .. RegionBase + RegionSize
  BY RevocationAssumption, Zenon
<1> QED BY <1>1

\* What a record holds.
LEMMA Records ==
  ASSUME TypeOK, NEW p \in Proc, NEW e \in log[p]
  PROVE  e.va \in Va /\ e.phys \in Page /\ e.phys # None
<1>1. e \in Entry
  BY Zenon DEF TypeOK
<1>2. e.va \in Va /\ e.phys \in Page
  BY <1>1, Zenon DEF Entry
<1> QED BY <1>2, Numbers, Zenon

\* Where the loop of a call is: at an address of its address space, and at a
\* page of its run.
LEMMA InLoop ==
  ASSUME TypeOK, NEW p \in Proc, CallOk(p), Looping(p)
  PROVE  /\ va[p] \in Nat /\ k[p] \in Nat /\ n[p] \in Nat
         /\ base(run[p]) \in Page /\ base(run[p]) \in Nat
         /\ VaNow(p) \in Va /\ VaNow(p) \in Nat
         /\ PageNow(p) \in Page /\ PageNow(p) \in PagesOf(run[p])
<1>1. /\ run[p] \in Object /\ va[p] \in Va
      /\ k[p] < n[p] /\ n[p] <= count(run[p]) /\ va[p] + n[p] - 1 \in Va
  BY Zenon DEF CallOk
<1>2. /\ va[p] \in Nat /\ k[p] \in Nat /\ n[p] \in Nat
  BY <1>1, Numbers, Zenon DEF TypeOK
<1>3. /\ base(run[p]) \in Page /\ base(run[p]) \in Nat /\ count(run[p]) \in Nat
      /\ PagesOf(run[p]) \subseteq Page
  BY <1>1, Numbers, Zenon DEF Object, base, count
<1>4. VaNow(p) \in va[p] .. (va[p] + n[p] - 1) /\ VaNow(p) \in Nat
  BY <1>1, <1>2 DEF VaNow
<1>5. VaNow(p) \in Va
  BY <1>1, <1>4, RevocationAssumption, Zenon
<1>6. PageNow(p) \in PagesOf(run[p])
  BY <1>1, <1>2, <1>3 DEF PageNow, PagesOf
<1> QED BY <1>2, <1>3, <1>4, <1>5, <1>6, Zenon

\* A log that shrinks stays within what is paid for.
LEMMA Shrinks ==
  ASSUME NEW p \in Proc, PaidFor(p), NEW S \in SUBSET log[p]
  PROVE  IsFiniteSet(S) /\ Cardinality(S) <= LogCapacity[p]
<1>1. IsFiniteSet(log[p]) /\ Cardinality(log[p]) <= LogCapacity[p]
  BY Zenon DEF PaidFor
<1>2. /\ IsFiniteSet(S) /\ Cardinality(S) \in Nat /\ Cardinality(log[p]) \in Nat
      /\ Cardinality(S) <= Cardinality(log[p])
  BY <1>1, FS_Subset, FS_CardinalityType, Zenon
<1>3. LogCapacity[p] \in Nat
  BY RevocationAssumption, Zenon
<1>4. Cardinality(S) <= LogCapacity[p]
  BY <1>1, <1>2, <1>3
<1> QED BY <1>2, <1>4, Zenon

------------------------------------------------------------------------------
(* Steps that leave a process alone, and steps that leave its tables alone. *)

SameFor(q) ==
    /\ pte'[q] = pte[q] /\ log'[q] = log[q]
    /\ pc'[q] = pc[q] /\ run'[q] = run[q] /\ va'[q] = va[q] /\ k'[q] = k[q] /\ n'[q] = n[q]

\* A process no step touches keeps its part of the invariant.
LEMMA Frame ==
  ASSUME NEW q \in Proc, CallOk(q), LogOk(q), PaidFor(q), SameFor(q)
  PROVE  CallOk(q)' /\ LogOk(q)' /\ PaidFor(q)'
<1>1. CallOk(q)'
  BY Zenon DEF CallOk, SameFor, Looping
<1>2. VaNow(q)' = VaNow(q) /\ PageNow(q)' = PageNow(q)
  BY Zenon DEF SameFor, VaNow, PageNow
<1>3. \A a : Behind(q, a)' <=> Behind(q, a)
  BY Zenon DEF SameFor, Behind
<1>4. LogOk(q)'
  BY <1>2, <1>3, Zenon DEF LogOk, SameFor
<1>5. PaidFor(q)'
  BY Zenon DEF PaidFor, SameFor
<1> QED BY <1>1, <1>4, <1>5, Zenon

\* A call that is between two of its pages, and has no more behind it afterwards.
LEMMA BetweenPages ==
  ASSUME NEW p \in Proc, LogOk(p), PaidFor(p), pte'[p] = pte[p], log'[p] = log[p],
         pc[p] \notin {"record", "forget"}, pc'[p] \notin {"record", "forget"},
         \A a \in Va : Behind(p, a)' =>
            Behind(p, a) /\ va'[p] = va[p] /\ base(run'[p]) = base(run[p]),
         TypeOK
  PROVE  LogOk(p)' /\ PaidFor(p)'
<1>1. \A e \in log[p] : e.va \in Va
  BY DEF TypeOK, Entry
<1>2. LogOk(p)'
  BY <1>1, Zenon DEF LogOk
<1>3. PaidFor(p)'
  BY Zenon DEF PaidFor
<1> QED BY <1>2, <1>3, Zenon

\* A step that leaves the destroy alone.
NoDestroy ==
    /\ region' = region /\ straddled' = straddled
    /\ \A q \in Proc : Destroying(q) \/ Destroying(q)' => pc'[q] = pc[q]

\* What such a step has to show.
LEMMA PlainStep ==
  ASSUME IInv, TypeOK', NoDestroy,
         \A q \in Proc : CallOk(q)' /\ LogOk(q)' /\ PaidFor(q)',
         Swept /\ (\A o \in Proc : CapsOutside(o)) => \A q \in Proc : CapsOutside(q)',
         (\A o \in Proc : CapsOutside(o) /\ TableOutside(o)) => \A q \in Proc : TableOutside(q)'
  PROVE  IInv'
<1>1. OneDestroyer'
  BY Zenon DEF IInv, OneDestroyer, NoDestroy, Destroying
<1>2. (Swept' <=> Swept) /\ (Scanned' <=> Scanned) /\ (Scanned => Swept)
  BY Zenon DEF NoDestroy, Destroying, Swept, Scanned
<1>3. Cleared'
  BY <1>2, Zenon DEF IInv, Cleared, NoDestroy
<1> QED BY <1>1, <1>3, Zenon DEF IInv

------------------------------------------------------------------------------
(* The system calls.                                                        *)

\* A step of p alone: the others keep their part, so only p's is to show.
LEMMA StepOf ==
  ASSUME IInv, NEW p \in Proc, \A q \in Proc \ {p} : SameFor(q),
         CallOk(p)', LogOk(p)', PaidFor(p)'
  PROVE  \A q \in Proc : CallOk(q)' /\ LogOk(q)' /\ PaidFor(q)'
<1> SUFFICES ASSUME NEW q \in Proc, q # p PROVE CallOk(q)' /\ LogOk(q)' /\ PaidFor(q)'
  BY Zenon
<1>1. CallOk(q) /\ LogOk(q) /\ PaidFor(q) /\ SameFor(q)
  BY Zenon DEF IInv
<1> QED BY <1>1, Frame, Zenon

\* invoke looks a capability up and copies what it names.
LEMMA CallKeeps ==
  ASSUME IInv, NEW p \in Proc,
         \/ PageFrameMap(p) \/ PageFrameSlice(p) \/ SendCap(p) \/ PageFrameRevoke(p)
         \/ MemoryRegionMap(p) \/ MemoryRegionRetype(p) \/ MemoryRegionDestroy(p)
  PROVE  IInv'
<1>0. TypeOK /\ CallOk(p) /\ LogOk(p) /\ PaidFor(p)
  BY Zenon DEF IInv
<1>1. PICK where \in {"map", "grant", "send", "revoke", "retype", "retype_run", "claim"},
           r \in Run \cup {None}, at \in Va \cup {None}, bound \in Nat :
        /\ Call(p, where, r, at, bound)
        /\ where \in {"map", "grant", "send", "revoke"} =>
              r \in Run /\ \E s \in caps[p] : PagesOf(r) \subseteq PagesOf(s)
        /\ where = "map" => at \in Va /\ bound = count(r) /\ at + count(r) - 1 \in Va
        /\ where = "retype" => at \in Va /\ bound = 1
  <2>0. /\ caps[p] \subseteq Run /\ 0 \in Nat /\ 1 \in Nat
        /\ \A r \in Run : count(r) \in Nat /\ PagesOf(r) \subseteq PagesOf(r)
    BY <1>0, RevocationAssumption, Zenon DEF TypeOK, count
  <2>1. CASE PageFrameMap(p)
    BY <2>0, <2>1, Zenon DEF PageFrameMap
  <2>2. CASE PageFrameSlice(p)
    BY <2>0, <2>2, Zenon DEF PageFrameSlice
  <2>3. CASE SendCap(p)
    BY <2>0, <2>3, Zenon DEF SendCap
  <2>4. CASE PageFrameRevoke(p)
    BY <2>0, <2>4, Zenon DEF PageFrameRevoke
  <2>5. CASE MemoryRegionMap(p)
    BY <2>0, <2>5, Zenon DEF MemoryRegionMap
  <2>6. CASE MemoryRegionDestroy(p)
    BY <2>0, <2>6, Zenon DEF MemoryRegionDestroy
  <2>7. CASE MemoryRegionRetype(p)
    BY <2>0, <2>7, Zenon DEF MemoryRegionRetype
  <2> QED BY <2>1, <2>2, <2>3, <2>4, <2>5, <2>6, <2>7, Zenon
<1>2. /\ pc[p] = "user" /\ pc' = [pc EXCEPT ![p] = where] /\ run' = [run EXCEPT ![p] = r]
      /\ va' = [va EXCEPT ![p] = at] /\ k' = [k EXCEPT ![p] = 0]
      /\ n' = [n EXCEPT ![p] = bound]
      /\ UNCHANGED <<caps, outgoing, pte, log, region, watermark, straddled>>
  BY <1>1, Zenon DEF Call, Goto
<1>3. r \in Object \cup {None} /\ (r \in Run => r \in Object)
  BY <1>1, RunIsObject, Zenon
<1>4. TypeOK'
  BY <1>0, <1>1, <1>2, <1>3, Zenon DEF TypeOK
<1>5. /\ pc'[p] = where /\ run'[p] = r /\ va'[p] = at /\ k'[p] = 0 /\ n'[p] = bound
      /\ \A q \in Proc \ {p} : SameFor(q)
  BY <1>0, <1>2, Zenon DEF TypeOK, SameFor
<1>6. where = "map" => bound > 0
  BY <1>1, RevocationAssumption DEF count
<1>7. CallOk(p)'
  BY <1>1, <1>3, <1>5, <1>6 DEF CallOk, Looping
<1>8. LogOk(p)' /\ PaidFor(p)'
  <2>1. \A a \in Va : ~Behind(p, a)'
    BY <1>1, <1>5, Numbers DEF Behind
  <2> QED BY <1>0, <1>1, <1>2, <1>5, <2>1, BetweenPages, Zenon
<1>9. NoDestroy
  BY <1>1, <1>2, <1>5, Zenon DEF NoDestroy, Destroying, SameFor
<1>10. (\A o \in Proc : CapsOutside(o)) => \A q \in Proc : CapsOutside(q)'
  <2> SUFFICES ASSUME \A o \in Proc : CapsOutside(o), NEW q \in Proc PROVE CapsOutside(q)'
    BY Zenon
  <2>1. HoldsCopy(q)' => Outside(run'[q])
    <3>1. CASE q # p
      BY <1>5, <3>1, Zenon DEF CapsOutside, HoldsCopy, SameFor
    <3>2. CASE q = p
      BY <1>1, <1>5, <3>2, Zenon DEF CapsOutside, HoldsCopy, Outside
    <3> QED BY <3>1, <3>2, Zenon
  <2> QED BY <1>2, <2>1, Zenon DEF CapsOutside
<1>11. (\A o \in Proc : TableOutside(o)) => \A q \in Proc : TableOutside(q)'
  BY <1>2, Zenon DEF TableOutside
<1> QED BY <1>4, <1>5, <1>7, <1>8, <1>9, <1>10, <1>11, StepOf, PlainStep, Zenon

------------------------------------------------------------------------------
(* The mapping loop.                                                        *)

\* The variables of the call under way.
CallTypes ==
    /\ pc' \in [Proc -> {"user", "parked", "map", "record", "unmap", "forget", "grant",
                         "send", "revoke", "unmap_run", "retype", "retype_run", "claim", "sweep",
                         "scan", "unmap_victim", "free"}]
    /\ run' \in [Proc -> Object \cup {None}]
    /\ va' \in [Proc -> Va \cup {None}]
    /\ k' \in [Proc -> Nat]
    /\ n' \in [Proc -> Nat]

SameCall(q) ==
    pc'[q] = pc[q] /\ run'[q] = run[q] /\ va'[q] = va[q] /\ k'[q] = k[q] /\ n'[q] = n[q]

\* A call that is over works on nothing.
LEMMA LeaveKeeps ==
  ASSUME TypeOK, NEW p \in Proc, NEW where \in {"user", "parked"}, Leave(p, where)
  PROVE  /\ CallTypes /\ CallOk(p)' /\ pc'[p] = where
         /\ \A q \in Proc \ {p} : SameCall(q)
         /\ \A a \in Va : ~Behind(p, a)'
         /\ ~HoldsCopy(p)' /\ ~Destroying(p)'
<1>1. /\ pc' = [pc EXCEPT ![p] = where] /\ run' = [run EXCEPT ![p] = None]
      /\ va' = [va EXCEPT ![p] = None] /\ k' = [k EXCEPT ![p] = 0]
      /\ n' = [n EXCEPT ![p] = 0]
  BY Zenon DEF Leave, Goto
<1>2. CallTypes /\ pc'[p] = where /\ \A q \in Proc \ {p} : SameCall(q)
  BY <1>1, Zenon DEF TypeOK, CallTypes, SameCall
<1> QED BY <1>2, Zenon DEF CallOk, Looping, Behind, HoldsCopy, Destroying

\* memory_region_map takes a page only of a region that is live: none that a
\* destroy has claimed.
LEMMA RetypeKeeps ==
  ASSUME IInv, NEW p \in Proc, Retype(p)
  PROVE  IInv'
<1>0. TypeOK /\ CallOk(p) /\ LogOk(p) /\ PaidFor(p) /\ OneDestroyer
  BY Zenon DEF IInv
<1>1. pc[p] = "retype" /\ UNCHANGED <<caps, outgoing, pte, log, region, straddled>>
  BY Zenon DEF Retype
<1>2. /\ CallTypes /\ watermark' \in Nat /\ CallOk(p)'
      /\ \A q \in Proc \ {p} : SameCall(q)
      /\ \A a \in Va : ~Behind(p, a)'
      /\ pc'[p] \in {"user", "map"} /\ (HoldsCopy(p)' => region = "live")
  <2>1. CASE region = "live" /\ watermark \in RegionPages
    <3>1. /\ pc' = [pc EXCEPT ![p] = "map"] /\ run' = [run EXCEPT ![p] = <<watermark, 1>>]
          /\ watermark' = watermark + 1 /\ UNCHANGED <<va, k, n>>
      BY <2>1, Zenon DEF Retype, Goto
    <3>2. <<watermark, 1>> \in Object /\ count(<<watermark, 1>>) = 1 /\ watermark' \in Nat
      <4>1. watermark \in Page /\ watermark \in Nat
        BY <2>1, RevocationAssumption, Zenon
      <4>2. PagesOf(<<watermark, 1>>) = {watermark}
        BY <4>1 DEF PagesOf, base, count
      <4> QED BY <3>1, <4>1, <4>2 DEF Object, count
    <3>3. /\ CallTypes /\ pc'[p] = "map" /\ run'[p] = <<watermark, 1>>
          /\ \A q \in Proc \ {p} : SameCall(q)
      BY <1>0, <3>1, <3>2, Zenon DEF TypeOK, CallTypes, SameCall
    <3>4. va'[p] \in Va /\ va'[p] \in Nat /\ k'[p] = 0 /\ n'[p] = 1
      BY <1>0, <1>1, <3>1, Numbers, Zenon DEF CallOk
    <3>5. CallOk(p)'
      BY <3>2, <3>3, <3>4 DEF CallOk, Looping
    <3>6. \A a \in Va : ~Behind(p, a)'
      BY <3>3, <3>4, Numbers DEF Behind
    <3> QED BY <2>1, <3>2, <3>3, <3>5, <3>6, Zenon
  <2>2. CASE ~(region = "live" /\ watermark \in RegionPages)
    <3>1. Leave(p, "user") /\ watermark' = watermark
      BY <2>2, Zenon DEF Retype, Return
    <3> QED BY <1>0, <3>1, LeaveKeeps, Zenon DEF TypeOK
  <2> QED BY <2>1, <2>2, Zenon
<1>3. TypeOK'
  BY <1>0, <1>1, <1>2, Zenon DEF TypeOK, CallTypes
<1>4. LogOk(p)' /\ PaidFor(p)'
  BY <1>0, <1>1, <1>2, BetweenPages, Zenon
<1>5. \A q \in Proc \ {p} : SameFor(q)
  BY <1>1, <1>2, Zenon DEF SameFor, SameCall
<1>6. NoDestroy
  BY <1>1, <1>2, <1>5, Zenon DEF NoDestroy, Destroying, SameFor
<1>7. Swept /\ (\A o \in Proc : CapsOutside(o)) => \A q \in Proc : CapsOutside(q)'
  <2>1. Swept => region # "live"
    BY <1>0, Zenon DEF Swept, OneDestroyer, Destroying
  <2> QED BY <1>1, <1>2, <1>5, <2>1, Zenon DEF CapsOutside, HoldsCopy, SameFor
<1>8. (\A o \in Proc : TableOutside(o)) => \A q \in Proc : TableOutside(q)'
  BY <1>1, Zenon DEF TableOutside
<1> QED BY <1>2, <1>3, <1>4, <1>5, <1>6, <1>7, <1>8, StepOf, PlainStep, Zenon

\* memory_region_retype takes a run only of a region that is live, too.
LEMMA RetypeRunKeeps ==
  ASSUME IInv, NEW p \in Proc, RetypeRun(p)
  PROVE  IInv'
<1>0. TypeOK /\ CallOk(p) /\ LogOk(p) /\ PaidFor(p) /\ OneDestroyer
  BY Zenon DEF IInv
<1>1. pc[p] = "retype_run" /\ UNCHANGED <<caps, outgoing, pte, log, region, straddled>>
  BY Zenon DEF RetypeRun
<1> DEFINE TookRun ==
      /\ CallTypes /\ watermark' \in Nat /\ CallOk(p)'
      /\ \A q \in Proc \ {p} : SameCall(q)
      /\ \A a \in Va : ~Behind(p, a)'
      /\ pc'[p] \in {"user", "grant"} /\ (HoldsCopy(p)' => region = "live")
<1>2. TookRun
  <2>1. ASSUME NEW r \in Run, region = "live", Goto(p, "grant"),
               run' = [run EXCEPT ![p] = r], watermark' = watermark + count(r),
               UNCHANGED <<va, k, n>>
        PROVE  TookRun
    <3>1. r \in Object /\ pc' = [pc EXCEPT ![p] = "grant"]
      BY <2>1, RunIsObject, Zenon DEF Goto
    <3>2. /\ CallTypes /\ pc'[p] = "grant" /\ run'[p] = r
          /\ \A q \in Proc \ {p} : SameCall(q)
      BY <1>0, <2>1, <3>1, Zenon DEF TypeOK, CallTypes, SameCall
    <3>3. count(r) \in Nat /\ watermark \in Nat
      BY <1>0, RevocationAssumption, Zenon DEF TypeOK, count
    <3>4. watermark' \in Nat
      BY <2>1, <3>3
    <3>5. CallOk(p)' /\ \A a \in Va : ~Behind(p, a)'
      BY <3>2, Zenon DEF CallOk, Looping, Behind
    <3> QED BY <2>1, <3>2, <3>4, <3>5, Zenon
  <2>2. CASE Return(p) /\ watermark' = watermark
    <3>1. Leave(p, "user")
      BY <2>2, Zenon DEF Return
    <3> QED BY <1>0, <2>2, <3>1, LeaveKeeps, Zenon DEF TypeOK
  <2> QED BY <2>1, <2>2, Zenon DEF RetypeRun
<1>3. TypeOK'
  BY <1>0, <1>1, <1>2, Zenon DEF TypeOK, CallTypes
<1>4. LogOk(p)' /\ PaidFor(p)'
  BY <1>0, <1>1, <1>2, BetweenPages, Zenon
<1>5. \A q \in Proc \ {p} : SameFor(q)
  BY <1>1, <1>2, Zenon DEF SameFor, SameCall
<1>6. NoDestroy
  BY <1>1, <1>2, <1>5, Zenon DEF NoDestroy, Destroying, SameFor
<1>7. Swept /\ (\A o \in Proc : CapsOutside(o)) => \A q \in Proc : CapsOutside(q)'
  <2>1. Swept => region # "live"
    BY <1>0, Zenon DEF Swept, OneDestroyer, Destroying
  <2> QED BY <1>1, <1>2, <1>5, <2>1, Zenon DEF CapsOutside, HoldsCopy, SameFor
<1>8. (\A o \in Proc : TableOutside(o)) => \A q \in Proc : TableOutside(q)'
  BY <1>1, Zenon DEF TableOutside
<1> QED BY <1>2, <1>3, <1>4, <1>5, <1>6, <1>7, <1>8, StepOf, PlainStep, Zenon

\* A write of one entry of one page table.
LEMMA EntryWritten ==
  ASSUME TypeOK, NEW p \in Proc, NEW at \in Va, NEW x \in Page \cup {None},
         pte' = [pte EXCEPT ![p][at] = x]
  PROVE  /\ pte' \in [Proc -> [Va -> Page \cup {None}]]
         /\ pte'[p][at] = x
         /\ \A a \in Va \ {at} : pte'[p][a] = pte[p][a]
         /\ \A q \in Proc \ {p} : pte'[q] = pte[q]
<1>1. pte \in [Proc -> [Va -> Page \cup {None}]] /\ pte[p] \in [Va -> Page \cup {None}]
  BY Zenon DEF TypeOK
<1>2. /\ pte' = [pte EXCEPT ![p] = [pte[p] EXCEPT ![at] = x]]
      /\ [pte[p] EXCEPT ![at] = x] \in [Va -> Page \cup {None}]
  BY <1>1, Zenon
<1> QED BY <1>1, <1>2, Zenon

\* unmap_run_prefix goes over the addresses that are behind the mapping loop.
LEMMA RollbackKeeps ==
  ASSUME TypeOK, NEW p \in Proc, CallOk(p), pc[p] \in {"map", "record"}, Rollback(p)
  PROVE  /\ CallTypes /\ CallOk(p)' /\ pc'[p] \in {"user", "unmap"}
         /\ \A q \in Proc \ {p} : SameCall(q)
         /\ \A a \in Va : Behind(p, a)' =>
               Behind(p, a) /\ va'[p] = va[p] /\ run'[p] = run[p]
<1>1. CASE k[p] = 0
  <2>1. Leave(p, "user")
    BY <1>1, Zenon DEF Rollback, Return
  <2> QED BY <2>1, LeaveKeeps, Zenon
<1>2. CASE k[p] # 0
  <2>1. /\ pc' = [pc EXCEPT ![p] = "unmap"] /\ n' = [n EXCEPT ![p] = k[p]]
        /\ k' = [k EXCEPT ![p] = 0] /\ UNCHANGED <<run, va>>
    BY <1>2, Zenon DEF Rollback, Goto
  <2>2. /\ CallTypes /\ pc'[p] = "unmap" /\ n'[p] = k[p] /\ k'[p] = 0
        /\ \A q \in Proc \ {p} : SameCall(q)
    BY <2>1, Zenon DEF TypeOK, CallTypes, SameCall
  <2>3. Looping(p) /\ va[p] \in Nat /\ k[p] \in Nat /\ n[p] \in Nat /\ k[p] < n[p]
    BY InLoop, Zenon DEF Looping, CallOk
  <2>4. run[p] \in Object /\ va[p] \in Va /\ n[p] = count(run[p]) /\ va[p] + n[p] - 1 \in Va
    BY <2>3, Zenon DEF CallOk
  <2>5. va[p] + k[p] - 1 \in Va
    <3>1. va[p] + k[p] - 1 \in va[p] .. (va[p] + n[p] - 1)
      BY <1>2, <2>3
    <3> QED BY <2>4, <3>1, RevocationAssumption, Zenon
  <2>6. CallOk(p)'
    <3>1. 0 < k[p] /\ k[p] <= count(run[p])
      BY <1>2, <2>3, <2>4
    <3> QED BY <2>1, <2>2, <2>4, <2>5, <3>1, Zenon DEF CallOk, Looping
  <2>7. \A a \in Va : Behind(p, a)' => Behind(p, a)
    BY <2>1, <2>2, <2>3, Numbers DEF Behind
  <2> QED BY <2>1, <2>2, <2>6, <2>7, Zenon
<1> QED BY <1>1, <1>2, Zenon

\* The address is taken: nothing of this page is there to undo.
LEMMA MapFailsKeeps ==
  ASSUME IInv, NEW p \in Proc, MapFails(p)
  PROVE  IInv'
<1>0. TypeOK /\ CallOk(p) /\ LogOk(p) /\ PaidFor(p)
  BY Zenon DEF IInv
<1>1. /\ pc[p] = "map" /\ Rollback(p)
      /\ UNCHANGED <<caps, outgoing, pte, log, region, watermark, straddled>>
  BY Zenon DEF MapFails
<1>2. /\ CallTypes /\ CallOk(p)' /\ pc'[p] \in {"user", "unmap"}
      /\ \A q \in Proc \ {p} : SameCall(q)
      /\ \A a \in Va : Behind(p, a)' => Behind(p, a) /\ va'[p] = va[p] /\ run'[p] = run[p]
  BY <1>0, <1>1, RollbackKeeps, Zenon
<1>3. TypeOK'
  BY <1>0, <1>1, <1>2, Zenon DEF TypeOK, CallTypes
<1>4. LogOk(p)' /\ PaidFor(p)'
  BY <1>0, <1>1, <1>2, BetweenPages, Zenon
<1>5. \A q \in Proc \ {p} : SameFor(q)
  BY <1>1, <1>2, Zenon DEF SameFor, SameCall
<1>6. NoDestroy
  BY <1>1, <1>2, <1>5, Zenon DEF NoDestroy, Destroying, SameFor
<1>7. (\A o \in Proc : CapsOutside(o)) => \A q \in Proc : CapsOutside(q)'
  BY <1>1, <1>2, <1>5, Zenon DEF CapsOutside, HoldsCopy, SameFor
<1>8. (\A o \in Proc : TableOutside(o)) => \A q \in Proc : TableOutside(q)'
  BY <1>1, Zenon DEF TableOutside
<1> QED BY <1>2, <1>3, <1>4, <1>5, <1>6, <1>7, <1>8, StepOf, PlainStep, Zenon

\* A page is mapped where nothing was, so where the log has no record.
LEMMA MapPageKeeps ==
  ASSUME IInv, NEW p \in Proc, MapPage(p)
  PROVE  IInv'
<1>0. TypeOK /\ CallOk(p) /\ LogOk(p) /\ PaidFor(p)
  BY Zenon DEF IInv
<1>1. /\ pc[p] = "map" /\ pte[p][VaNow(p)] = None
      /\ pte' = [pte EXCEPT ![p][VaNow(p)] = PageNow(p)]
      /\ pc' = [pc EXCEPT ![p] = "record"]
      /\ UNCHANGED <<caps, outgoing, log, region, watermark, run, va, k, n, straddled>>
  BY Zenon DEF MapPage, Goto, callVars
<1>2. /\ VaNow(p) \in Va /\ PageNow(p) \in Page /\ PageNow(p) \in PagesOf(run[p])
  BY <1>0, <1>1, InLoop, Zenon DEF Looping
<1>3. /\ pte' \in [Proc -> [Va -> Page \cup {None}]] /\ pte'[p][VaNow(p)] = PageNow(p)
      /\ \A a \in Va \ {VaNow(p)} : pte'[p][a] = pte[p][a]
      /\ \A q \in Proc \ {p} : pte'[q] = pte[q]
  BY <1>0, <1>1, <1>2, EntryWritten, Zenon
<1>4. TypeOK'
  BY <1>0, <1>1, <1>3, Zenon DEF TypeOK
<1>5. pc'[p] = "record" /\ \A q \in Proc \ {p} : SameFor(q)
  BY <1>0, <1>1, <1>3, Zenon DEF TypeOK, SameFor
<1>6. CallOk(p)'
  BY <1>0, <1>1, <1>5, Zenon DEF CallOk, Looping
<1>7. LogOk(p)' /\ PaidFor(p)'
  <2>1. \A e \in log[p] : e.va \in Va /\ e.phys # None
    BY <1>0, Records, Zenon
  <2>2. \A e \in log[p] : e.va # VaNow(p) /\ pte[p][e.va] = e.phys
    BY <1>0, <1>1, <2>1, Zenon DEF LogOk
  <2>3. VaNow(p)' = VaNow(p) /\ PageNow(p)' = PageNow(p)
    BY <1>1, Zenon DEF VaNow, PageNow
  <2>4. \A a \in Va : Behind(p, a)' => Behind(p, a)
    BY <1>1, <1>5, Zenon DEF Behind
  <2>5. \A a \in Va : pte'[p][a] # None => a = VaNow(p) \/ \E e \in log[p] : e.va = a
    BY <1>0, <1>1, <1>3, Zenon DEF LogOk
  <2> QED BY <1>0, <1>1, <1>3, <1>5, <2>1, <2>2, <2>3, <2>4, <2>5, Zenon DEF LogOk, PaidFor
<1>8. NoDestroy
  BY <1>1, <1>5, Zenon DEF NoDestroy, Destroying, SameFor
<1>9. (\A o \in Proc : CapsOutside(o)) => \A q \in Proc : CapsOutside(q)'
  BY <1>1, <1>5, Zenon DEF CapsOutside, HoldsCopy, SameFor
<1>10. (\A o \in Proc : CapsOutside(o) /\ TableOutside(o)) => \A q \in Proc : TableOutside(q)'
  BY <1>1, <1>2, <1>3, Zenon DEF CapsOutside, HoldsCopy, TableOutside, Outside
<1> QED BY <1>4, <1>5, <1>6, <1>7, <1>8, <1>9, <1>10, StepOf, PlainStep, Zenon

\* record_mapping closes the gap, by a record or by taking the page out again.
LEMMA RecordKeeps ==
  ASSUME IInv, NEW p \in Proc, record_mapping(p)
  PROVE  IInv'
<1>r. PICK E : E = LogEntry(PageNow(p), VaNow(p), base(run[p]))
  BY Zenon
<1>0. TypeOK /\ CallOk(p) /\ LogOk(p) /\ PaidFor(p)
  BY Zenon DEF IInv
<1>1. pc[p] = "record" /\ UNCHANGED <<caps, outgoing, region, watermark, straddled>>
  BY Zenon DEF record_mapping
<1>2. /\ VaNow(p) \in Va /\ VaNow(p) \in Nat /\ PageNow(p) \in Page /\ base(run[p]) \in Page
      /\ va[p] \in Nat /\ k[p] \in Nat /\ n[p] \in Nat /\ base(run[p]) \in Nat
  BY <1>0, <1>1, InLoop, Zenon DEF Looping
<1>3. /\ pte[p][VaNow(p)] = PageNow(p)
      /\ \A e \in log[p] : /\ e.va \in Va /\ e.va # VaNow(p) /\ e.phys # None
                           /\ pte[p][e.va] = e.phys
      /\ \A a \in Va : pte[p][a] # None => a = VaNow(p) \/ \E e \in log[p] : e.va = a
  <2>1. \A e \in log[p] : e.va \in Va /\ e.phys # None
    BY <1>0, Records, Zenon
  <2> QED BY <1>0, <1>1, <2>1, Zenon DEF LogOk
<1>4. CASE Cardinality(log[p]) < LogCapacity[p]
  <2>1. /\ log' = [log EXCEPT ![p] = log[p] \cup {E}] /\ pte' = pte
        /\ IF k[p] + 1 < n[p]
           THEN /\ pc' = [pc EXCEPT ![p] = "map"] /\ k' = [k EXCEPT ![p] = k[p] + 1]
                /\ UNCHANGED <<run, va, n>>
           ELSE Leave(p, "user")
    BY <1>4, <1>r, Zenon DEF record_mapping, Goto, Return
  <2>2. E \in Entry /\ E.va = VaNow(p) /\ E.phys = PageNow(p)
    BY <1>2, <1>r, Zenon DEF LogEntry, Entry
  <2>3. /\ log' \in [Proc -> SUBSET Entry] /\ log'[p] = log[p] \cup {E}
        /\ \A q \in Proc \ {p} : log'[q] = log[q]
    BY <1>0, <2>1, <2>2, Zenon DEF TypeOK
  <2>4. /\ CallTypes /\ CallOk(p)' /\ pc'[p] \in {"map", "user"}
        /\ \A q \in Proc \ {p} : SameCall(q)
        /\ \A a \in Va : Behind(p, a)' =>
              (Behind(p, a) \/ a = VaNow(p)) /\ va'[p] = va[p] /\ run'[p] = run[p]
        /\ pc'[p] = "map" => run'[p] = run[p]
    <3>1. CASE k[p] + 1 < n[p]
      <4>1. /\ pc' = [pc EXCEPT ![p] = "map"] /\ k' = [k EXCEPT ![p] = k[p] + 1]
            /\ UNCHANGED <<run, va, n>>
        BY <2>1, <3>1, Zenon
      <4>2. /\ CallTypes /\ pc'[p] = "map" /\ k'[p] = k[p] + 1
            /\ \A q \in Proc \ {p} : SameCall(q)
        BY <1>0, <4>1 DEF TypeOK, CallTypes, SameCall
      <4>3. CallOk(p)'
        BY <1>0, <1>1, <3>1, <4>1, <4>2, Zenon DEF CallOk, Looping
      <4>4. \A a \in Va : Behind(p, a)' => Behind(p, a) \/ a = VaNow(p)
        <5> SUFFICES ASSUME NEW a \in Va, Behind(p, a)'
                     PROVE  Behind(p, a) \/ a = VaNow(p)
          BY Zenon
        <5>1. va[p] <= a /\ a < va[p] + (k[p] + 1)
          BY <4>1, <4>2, Zenon DEF Behind
        <5>2. a \in Nat
          BY Numbers, Zenon
        <5>3. a < va[p] + k[p] \/ a = va[p] + k[p]
          BY <1>2, <5>1, <5>2
        <5> QED BY <1>1, <5>1, <5>3, Zenon DEF Behind, VaNow
      <4> QED BY <4>1, <4>2, <4>3, <4>4, Zenon
    <3>2. CASE ~(k[p] + 1 < n[p])
      BY <1>0, <2>1, <3>2, LeaveKeeps, Zenon
    <3> QED BY <3>1, <3>2, Zenon
  <2>5. TypeOK'
    BY <1>0, <1>1, <2>1, <2>3, <2>4, Zenon DEF TypeOK, CallTypes
  <2>6. LogOk(p)'
    <3>1. PageNow(p) + va[p] = base(run[p]) + VaNow(p)
      BY <1>2 DEF PageNow, VaNow
    <3>2. \A e \in log'[p] : Behind(p, e.va)' => e.phys + va'[p] = base(run'[p]) + e.va
      <4>1. ASSUME NEW e \in log[p], Behind(p, e.va)'
            PROVE  e.phys + va'[p] = base(run'[p]) + e.va
        BY <1>0, <1>3, <2>4, <4>1, Zenon DEF LogOk
      <4>2. ASSUME Behind(p, E.va)' PROVE E.phys + va'[p] = base(run'[p]) + E.va
        <5>1. va'[p] = va[p] /\ run'[p] = run[p]
          BY <1>2, <2>2, <2>4, <4>2, Zenon
        <5> QED BY <2>2, <3>1, <5>1, Zenon
      <4> QED BY <2>3, <4>1, <4>2, Zenon
    <3>3. \A e, f \in log'[p] : e.va = f.va => e = f
      BY <1>0, <1>3, <2>2, <2>3, Zenon DEF LogOk
    <3>4. \A e \in log'[p] : pte'[p][e.va] = e.phys
      BY <1>3, <2>1, <2>2, <2>3, Zenon
    <3>5. \A a \in Va : pte'[p][a] # None => \E e \in log'[p] : e.va = a
      BY <1>3, <2>1, <2>2, <2>3, Zenon
    <3> QED BY <2>4, <3>2, <3>3, <3>4, <3>5, Zenon DEF LogOk
  <2>7. PaidFor(p)'
    <3>1. IsFiniteSet(log[p]) /\ E \notin log[p]
      BY <1>0, <1>3, <2>2, Zenon DEF PaidFor
    <3>2. /\ IsFiniteSet(log[p] \cup {E}) /\ Cardinality(log[p]) \in Nat
          /\ Cardinality(log[p] \cup {E}) = Cardinality(log[p]) + 1
      BY <3>1, FS_AddElement, FS_CardinalityType, Zenon
    <3>3. LogCapacity[p] \in Nat
      BY RevocationAssumption, Zenon
    <3>4. Cardinality(log[p]) + 1 <= LogCapacity[p]
      BY <1>4, <3>2, <3>3
    <3> QED BY <2>3, <3>2, <3>4, Zenon DEF PaidFor
  <2>8. \A q \in Proc \ {p} : SameFor(q)
    BY <2>1, <2>3, <2>4, Zenon DEF SameFor, SameCall
  <2>9. NoDestroy
    BY <1>1, <2>4, <2>8, Zenon DEF NoDestroy, Destroying, SameFor
  <2>10. (\A o \in Proc : CapsOutside(o)) => \A q \in Proc : CapsOutside(q)'
    BY <1>1, <2>4, <2>8, Zenon DEF CapsOutside, HoldsCopy, SameFor
  <2>11. (\A o \in Proc : TableOutside(o)) => \A q \in Proc : TableOutside(q)'
    BY <2>1, Zenon DEF TableOutside
  <2> QED BY <2>4, <2>5, <2>6, <2>7, <2>8, <2>9, <2>10, <2>11, StepOf, PlainStep, Zenon
<1>5. CASE ~(Cardinality(log[p]) < LogCapacity[p])
  <2>1. pte' = [pte EXCEPT ![p][VaNow(p)] = None] /\ Rollback(p) /\ log' = log
    BY <1>5, Zenon DEF record_mapping, Unrecorded
  <2>2. /\ pte' \in [Proc -> [Va -> Page \cup {None}]] /\ pte'[p][VaNow(p)] = None
        /\ \A a \in Va \ {VaNow(p)} : pte'[p][a] = pte[p][a]
        /\ \A q \in Proc \ {p} : pte'[q] = pte[q]
    BY <1>0, <1>2, <2>1, EntryWritten, Zenon
  <2>3. /\ CallTypes /\ CallOk(p)' /\ pc'[p] \in {"user", "unmap"}
        /\ \A q \in Proc \ {p} : SameCall(q)
        /\ \A a \in Va : Behind(p, a)' => Behind(p, a) /\ va'[p] = va[p] /\ run'[p] = run[p]
    BY <1>0, <1>1, <2>1, RollbackKeeps, Zenon
  <2>4. TypeOK'
    BY <1>0, <1>1, <2>1, <2>2, <2>3, Zenon DEF TypeOK, CallTypes
  <2>5. LogOk(p)' /\ PaidFor(p)'
    BY <1>0, <1>3, <2>1, <2>2, <2>3, Zenon DEF LogOk, PaidFor
  <2>6. \A q \in Proc \ {p} : SameFor(q)
    BY <2>1, <2>2, <2>3, Zenon DEF SameFor, SameCall
  <2>7. NoDestroy
    BY <1>1, <2>3, <2>6, Zenon DEF NoDestroy, Destroying, SameFor
  <2>8. (\A o \in Proc : CapsOutside(o)) => \A q \in Proc : CapsOutside(q)'
    BY <1>1, <2>3, <2>6, Zenon DEF CapsOutside, HoldsCopy, SameFor
  <2>9. (\A o \in Proc : TableOutside(o)) => \A q \in Proc : TableOutside(q)'
    BY <2>2, Numbers, Zenon DEF TableOutside
  <2> QED BY <2>3, <2>4, <2>5, <2>6, <2>7, <2>8, <2>9, StepOf, PlainStep, Zenon
<1> QED BY <1>4, <1>5, Zenon

\* unmap_run_prefix takes a page out of the table before its record.
LEMMA UnmapPrefixKeeps ==
  ASSUME IInv, NEW p \in Proc, UnmapPrefix(p)
  PROVE  IInv'
<1>0. TypeOK /\ CallOk(p) /\ LogOk(p) /\ PaidFor(p)
  BY Zenon DEF IInv
<1>1. /\ pc[p] = "unmap" /\ pte' = [pte EXCEPT ![p][VaNow(p)] = None]
      /\ pc' = [pc EXCEPT ![p] = "forget"]
      /\ UNCHANGED <<caps, outgoing, log, region, watermark, run, va, k, n, straddled>>
  BY Zenon DEF UnmapPrefix, Goto, callVars
<1>2. VaNow(p) \in Va
  BY <1>0, <1>1, InLoop, Zenon DEF Looping
<1>3. /\ pte' \in [Proc -> [Va -> Page \cup {None}]] /\ pte'[p][VaNow(p)] = None
      /\ \A a \in Va \ {VaNow(p)} : pte'[p][a] = pte[p][a]
      /\ \A q \in Proc \ {p} : pte'[q] = pte[q]
  BY <1>0, <1>1, <1>2, EntryWritten, Zenon
<1>4. TypeOK'
  BY <1>0, <1>1, <1>3, Zenon DEF TypeOK
<1>5. pc'[p] = "forget" /\ \A q \in Proc \ {p} : SameFor(q)
  BY <1>0, <1>1, <1>3, Zenon DEF TypeOK, SameFor
<1>6. CallOk(p)'
  BY <1>0, <1>1, <1>5, Zenon DEF CallOk, Looping
<1>7. LogOk(p)' /\ PaidFor(p)'
  <2>1. \A e \in log[p] : e.va \in Va
    BY <1>0, Records, Zenon
  <2>2. VaNow(p)' = VaNow(p) /\ \A a \in Va : Behind(p, a)' => Behind(p, a)
    BY <1>1, <1>5, Zenon DEF VaNow, Behind
  <2> QED BY <1>0, <1>1, <1>3, <1>5, <2>1, <2>2, Zenon DEF LogOk, PaidFor
<1>8. NoDestroy
  BY <1>1, <1>5, Zenon DEF NoDestroy, Destroying, SameFor
<1>9. (\A o \in Proc : CapsOutside(o)) => \A q \in Proc : CapsOutside(q)'
  BY <1>1, <1>5, Zenon DEF CapsOutside, HoldsCopy, SameFor
<1>10. (\A o \in Proc : TableOutside(o)) => \A q \in Proc : TableOutside(q)'
  BY <1>3, Numbers, Zenon DEF TableOutside
<1> QED BY <1>4, <1>5, <1>6, <1>7, <1>8, <1>9, <1>10, StepOf, PlainStep, Zenon

\* forget_mapping finds the record by page and address: what it looks for is
\* what the call mapped there.
LEMMA ForgetKeeps ==
  ASSUME IInv, NEW p \in Proc, forget_mapping(p)
  PROVE  IInv'
<1>0. TypeOK /\ CallOk(p) /\ LogOk(p) /\ PaidFor(p)
  BY Zenon DEF IInv
<1>1. /\ pc[p] = "forget"
      /\ log' = [log EXCEPT ![p] =
                   {e \in log[p] : ~(e.phys = PageNow(p) /\ e.va = VaNow(p))}]
      /\ IF k[p] + 1 < n[p]
         THEN /\ pc' = [pc EXCEPT ![p] = "unmap"] /\ k' = [k EXCEPT ![p] = k[p] + 1]
              /\ UNCHANGED <<run, va, n>>
         ELSE Leave(p, "user")
      /\ UNCHANGED <<caps, outgoing, pte, region, watermark, straddled>>
  BY Zenon DEF forget_mapping, Goto, Return
<1>2. /\ VaNow(p) \in Va /\ VaNow(p) \in Nat /\ PageNow(p) \in Page /\ base(run[p]) \in Nat
      /\ va[p] \in Nat /\ k[p] \in Nat /\ n[p] \in Nat /\ k[p] < n[p]
  BY <1>0, <1>1, InLoop, Zenon DEF Looping, CallOk
<1>3. \A e \in log[p] : e.va = VaNow(p) => e.phys = PageNow(p)
  <2> SUFFICES ASSUME NEW e \in log[p], e.va = VaNow(p) PROVE e.phys = PageNow(p)
    BY Zenon
  <2>1. Behind(p, e.va)
    <3>1. va[p] + k[p] <= VaNow(p) /\ VaNow(p) < va[p] + n[p]
      BY <1>2 DEF VaNow
    <3> QED BY <1>1, <3>1, Zenon DEF Behind
  <2>2. e.phys + va[p] = base(run[p]) + VaNow(p)
    BY <1>0, <2>1, Zenon DEF LogOk
  <2>3. e.phys \in Nat
    BY <1>0, Records, Numbers, Zenon
  <2> QED BY <1>2, <2>2, <2>3 DEF PageNow, VaNow
<1>4. /\ log' \in [Proc -> SUBSET Entry] /\ log'[p] = {e \in log[p] : e.va # VaNow(p)}
      /\ \A q \in Proc \ {p} : log'[q] = log[q]
  <2>1. log'[p] = {e \in log[p] : ~(e.phys = PageNow(p) /\ e.va = VaNow(p))}
    BY <1>0, <1>1, Zenon DEF TypeOK
  <2>2. log'[p] = {e \in log[p] : e.va # VaNow(p)}
    BY <1>3, <2>1, Zenon
  <2> QED BY <1>0, <1>1, <2>2, Zenon DEF TypeOK
<1>5. /\ CallTypes /\ CallOk(p)' /\ pc'[p] \in {"unmap", "user"}
      /\ \A q \in Proc \ {p} : SameCall(q)
      /\ \A a \in Va : Behind(p, a)' => Behind(p, a) /\ va'[p] = va[p] /\ run'[p] = run[p]
  <2>1. CASE k[p] + 1 < n[p]
    <3>1. /\ pc' = [pc EXCEPT ![p] = "unmap"] /\ k' = [k EXCEPT ![p] = k[p] + 1]
          /\ UNCHANGED <<run, va, n>>
      BY <1>1, <2>1, Zenon
    <3>2. /\ CallTypes /\ pc'[p] = "unmap" /\ k'[p] = k[p] + 1
          /\ \A q \in Proc \ {p} : SameCall(q)
      BY <1>0, <3>1 DEF TypeOK, CallTypes, SameCall
    <3>3. CallOk(p)'
      BY <1>0, <1>1, <2>1, <3>1, <3>2, Zenon DEF CallOk, Looping
    <3>4. \A a \in Va : Behind(p, a)' => Behind(p, a)
      <4> SUFFICES ASSUME NEW a \in Va, Behind(p, a)' PROVE Behind(p, a)
        BY Zenon
      <4>1. va[p] + (k[p] + 1) <= a /\ a < va[p] + n[p] /\ a \in Nat
        BY <3>1, <3>2, Numbers, Zenon DEF Behind
      <4>2. va[p] + k[p] <= a
        BY <1>2, <4>1
      <4> QED BY <1>1, <4>1, <4>2, Zenon DEF Behind
    <3> QED BY <3>1, <3>2, <3>3, <3>4, Zenon
  <2>2. CASE ~(k[p] + 1 < n[p])
    BY <1>0, <1>1, <2>2, LeaveKeeps, Zenon
  <2> QED BY <2>1, <2>2, Zenon
<1>6. TypeOK'
  BY <1>0, <1>1, <1>4, <1>5, Zenon DEF TypeOK, CallTypes
<1>7. LogOk(p)'
  <2>1. \A e \in log[p] : e.va \in Va
    BY <1>0, Records, Zenon
  <2>2. pte[p][VaNow(p)] = None
    BY <1>0, <1>1, Zenon DEF LogOk
  <2>3. \A e \in log'[p] : pte'[p][e.va] = e.phys
    BY <1>0, <1>1, <1>4, Zenon DEF LogOk
  <2>4. \A a \in Va : pte'[p][a] # None => \E e \in log'[p] : e.va = a
    BY <1>0, <1>1, <1>4, <2>2, Zenon DEF LogOk
  <2>5. \A e \in log'[p] : Behind(p, e.va)' => e.phys + va'[p] = base(run'[p]) + e.va
    BY <1>0, <1>4, <1>5, <2>1, Zenon DEF LogOk
  <2> QED BY <1>0, <1>4, <1>5, <2>3, <2>4, <2>5, Zenon DEF LogOk
<1>8. PaidFor(p)'
  <2>1. IsFiniteSet(log[p]) /\ Cardinality(log[p]) <= LogCapacity[p]
    BY <1>0, Zenon DEF PaidFor
  <2>2. log'[p] \in SUBSET log[p]
    BY <1>4, Zenon
  <2> QED BY <2>1, <2>2, Shrinks, Zenon DEF PaidFor
<1>9. \A q \in Proc \ {p} : SameFor(q)
  BY <1>1, <1>4, <1>5, Zenon DEF SameFor, SameCall
<1>10. NoDestroy
  BY <1>1, <1>5, <1>9, Zenon DEF NoDestroy, Destroying, SameFor
<1>11. (\A o \in Proc : CapsOutside(o)) => \A q \in Proc : CapsOutside(q)'
  BY <1>1, <1>5, <1>9, Zenon DEF CapsOutside, HoldsCopy, SameFor
<1>12. (\A o \in Proc : TableOutside(o)) => \A q \in Proc : TableOutside(q)'
  BY <1>1, Zenon DEF TableOutside
<1> QED BY <1>5, <1>6, <1>7, <1>8, <1>9, <1>10, <1>11, <1>12, StepOf, PlainStep, Zenon

------------------------------------------------------------------------------
(* Copies of a capability, and the sweep of REVOKE.                         *)

\* SLICE grants a part of the run it looked up, RETYPE the run it took.
LEMMA GrantKeeps ==
  ASSUME IInv, NEW p \in Proc, grant(p)
  PROVE  IInv'
<1>0. TypeOK /\ CallOk(p) /\ LogOk(p) /\ PaidFor(p)
  BY Zenon DEF IInv
<1>1. /\ pc[p] = "grant" /\ caps' = [caps EXCEPT ![p] = caps[p] \cup {run[p]}]
      /\ Leave(p, "user")
      /\ UNCHANGED <<outgoing, pte, log, region, watermark, straddled>>
  BY Zenon DEF grant, Return
<1>2. /\ CallTypes /\ CallOk(p)' /\ pc'[p] = "user" /\ \A q \in Proc \ {p} : SameCall(q)
      /\ \A a \in Va : ~Behind(p, a)'
  BY <1>0, <1>1, LeaveKeeps, Zenon
<1>3. run[p] \in Run /\ HoldsCopy(p)
  BY <1>0, <1>1, Zenon DEF CallOk, HoldsCopy
<1>4. /\ caps' \in [Proc -> SUBSET Run] /\ caps'[p] = caps[p] \cup {run[p]}
      /\ \A q \in Proc \ {p} : caps'[q] = caps[q]
  BY <1>0, <1>1, <1>3, Zenon DEF TypeOK
<1>5. TypeOK'
  BY <1>0, <1>1, <1>2, <1>4, Zenon DEF TypeOK, CallTypes
<1>6. LogOk(p)' /\ PaidFor(p)'
  BY <1>0, <1>1, <1>2, BetweenPages, Zenon
<1>7. \A q \in Proc \ {p} : SameFor(q)
  BY <1>1, <1>2, Zenon DEF SameFor, SameCall
<1>8. NoDestroy
  BY <1>1, <1>2, <1>7, Zenon DEF NoDestroy, Destroying, SameFor
<1>9. (\A o \in Proc : CapsOutside(o)) => \A q \in Proc : CapsOutside(q)'
  BY <1>1, <1>2, <1>3, <1>4, <1>7, Zenon DEF CapsOutside, HoldsCopy, SameFor
<1>10. (\A o \in Proc : TableOutside(o)) => \A q \in Proc : TableOutside(q)'
  BY <1>1, Zenon DEF TableOutside
<1> QED BY <1>2, <1>5, <1>6, <1>7, <1>8, <1>9, <1>10, StepOf, PlainStep, Zenon

\* SEND_CAP leaves its copy in the hand-off slot.
LEMMA SendParksKeeps ==
  ASSUME IInv, NEW p \in Proc, SendParks(p)
  PROVE  IInv'
<1>0. TypeOK /\ CallOk(p) /\ LogOk(p) /\ PaidFor(p)
  BY Zenon DEF IInv
<1>1. /\ pc[p] = "send" /\ outgoing' = [outgoing EXCEPT ![p] = run[p]]
      /\ Leave(p, "parked")
      /\ UNCHANGED <<caps, pte, log, region, watermark, straddled>>
  BY Zenon DEF SendParks
<1>2. /\ CallTypes /\ CallOk(p)' /\ pc'[p] = "parked" /\ \A q \in Proc \ {p} : SameCall(q)
      /\ \A a \in Va : ~Behind(p, a)'
  BY <1>0, <1>1, LeaveKeeps, Zenon
<1>3. run[p] \in Run /\ HoldsCopy(p)
  BY <1>0, <1>1, Zenon DEF CallOk, HoldsCopy
<1>4. /\ outgoing' \in [Proc -> Run \cup {None}] /\ outgoing'[p] = run[p]
      /\ \A q \in Proc \ {p} : outgoing'[q] = outgoing[q]
  BY <1>0, <1>1, <1>3, Zenon DEF TypeOK
<1>5. TypeOK'
  BY <1>0, <1>1, <1>2, <1>4, Zenon DEF TypeOK, CallTypes
<1>6. LogOk(p)' /\ PaidFor(p)'
  BY <1>0, <1>1, <1>2, BetweenPages, Zenon
<1>7. \A q \in Proc \ {p} : SameFor(q)
  BY <1>1, <1>2, Zenon DEF SameFor, SameCall
<1>8. NoDestroy
  BY <1>1, <1>2, <1>7, Zenon DEF NoDestroy, Destroying, SameFor
<1>9. (\A o \in Proc : CapsOutside(o)) => \A q \in Proc : CapsOutside(q)'
  BY <1>1, <1>2, <1>3, <1>4, <1>7, Zenon DEF CapsOutside, HoldsCopy, SameFor
<1>10. (\A o \in Proc : TableOutside(o)) => \A q \in Proc : TableOutside(q)'
  BY <1>1, Zenon DEF TableOutside
<1> QED BY <1>2, <1>5, <1>6, <1>7, <1>8, <1>9, <1>10, StepOf, PlainStep, Zenon

\* A receiver gets what the hand-off slot still holds.
LEMMA ReceiveCapKeeps ==
  ASSUME IInv, NEW p \in Proc, ReceiveCap(p)
  PROVE  IInv'
<1>1. PICK s \in Proc :
        /\ pc[s] = "parked"
        /\ caps' = [caps EXCEPT ![p] = caps[p] \cup ({outgoing[s]} \ {None})]
        /\ outgoing' = [outgoing EXCEPT ![s] = None]
        /\ pc' = [pc EXCEPT ![s] = "user"]
  BY Zenon DEF ReceiveCap, Goto
<1>2. UNCHANGED <<pte, log, region, watermark, run, va, k, n, straddled>>
  BY Zenon DEF ReceiveCap, callVars
<1>0. TypeOK /\ CallOk(s) /\ LogOk(s) /\ PaidFor(s)
  BY Zenon DEF IInv
<1>3. /\ caps' \in [Proc -> SUBSET Run] /\ caps'[p] = caps[p] \cup ({outgoing[s]} \ {None})
      /\ \A q \in Proc \ {p} : caps'[q] = caps[q]
  <2>1. outgoing[s] \in Run \cup {None}
    BY <1>0, Zenon DEF TypeOK
  <2>2. caps[p] \cup ({outgoing[s]} \ {None}) \in SUBSET Run
    BY <1>0, <2>1, Zenon DEF TypeOK
  <2> QED BY <1>0, <1>1, <2>2, Zenon DEF TypeOK
<1>4. /\ outgoing' \in [Proc -> Run \cup {None}] /\ outgoing'[s] = None
      /\ \A q \in Proc \ {s} : outgoing'[q] = outgoing[q]
  BY <1>0, <1>1, Zenon DEF TypeOK
<1>5. /\ TypeOK' /\ pc'[s] = "user" /\ \A q \in Proc \ {s} : SameFor(q)
  BY <1>0, <1>1, <1>2, <1>3, <1>4, Zenon DEF TypeOK, SameFor
<1>6. CallOk(s)' /\ \A a \in Va : ~Behind(s, a)'
  BY <1>5, Zenon DEF CallOk, Looping, Behind
<1>7. LogOk(s)' /\ PaidFor(s)'
  BY <1>0, <1>1, <1>2, <1>5, <1>6, BetweenPages, Zenon
<1>8. NoDestroy
  BY <1>1, <1>2, <1>5, Zenon DEF NoDestroy, Destroying, SameFor
<1>9. (\A o \in Proc : CapsOutside(o)) => \A q \in Proc : CapsOutside(q)'
  <2> SUFFICES ASSUME \A o \in Proc : CapsOutside(o), NEW q \in Proc PROVE CapsOutside(q)'
    BY Zenon
  <2>1. \A r \in caps'[q] : Outside(r)
    BY <1>3, Zenon DEF CapsOutside
  <2>2. outgoing'[q] # None => Outside(outgoing'[q])
    BY <1>4, Zenon DEF CapsOutside
  <2>3. HoldsCopy(q)' => Outside(run'[q])
    BY <1>2, <1>5, Zenon DEF CapsOutside, HoldsCopy, SameFor
  <2> QED BY <2>1, <2>2, <2>3, Zenon DEF CapsOutside
<1>10. (\A o \in Proc : TableOutside(o)) => \A q \in Proc : TableOutside(q)'
  BY <1>2, Zenon DEF TableOutside
<1> QED BY <1>5, <1>6, <1>7, <1>8, <1>9, <1>10, StepOf, PlainStep, Zenon

\* A sweep of the capabilities only takes away.
LEMMA CapsSwept ==
  ASSUME TypeOK, NEW S, delete_page_frame_caps_where(S)
  PROVE  /\ caps' \in [Proc -> SUBSET Run] /\ outgoing' \in [Proc -> Run \cup {None}]
         /\ \A q \in Proc : /\ caps'[q] = caps[q] \ S
                            /\ outgoing'[q] # None =>
                                  outgoing'[q] = outgoing[q] /\ outgoing[q] \notin S
<1>1. /\ caps' = [q \in Proc |-> caps[q] \ S]
      /\ outgoing' = [q \in Proc |-> IF outgoing[q] \in S THEN None ELSE outgoing[q]]
  BY Zenon DEF delete_page_frame_caps_where
<1>2. \A q \in Proc : caps[q] \ S \in SUBSET Run /\ outgoing[q] \in Run \cup {None}
  BY Zenon DEF TypeOK
<1> QED BY <1>1, <1>2, Zenon

\* REVOKE takes the capabilities first.
LEMMA RevokeCapsKeeps ==
  ASSUME IInv, NEW p \in Proc, RevokeCaps(p)
  PROVE  IInv'
<1>0. TypeOK /\ CallOk(p) /\ LogOk(p) /\ PaidFor(p)
  BY Zenon DEF IInv
<1>1. /\ pc[p] = "revoke" /\ delete_page_frame_caps_where({run[p]})
      /\ pc' = [pc EXCEPT ![p] = "unmap_run"]
      /\ UNCHANGED <<pte, log, region, watermark, run, va, k, n, straddled>>
  BY Zenon DEF RevokeCaps, delete_page_frame_caps, Goto, callVars
<1>2. /\ caps' \in [Proc -> SUBSET Run] /\ outgoing' \in [Proc -> Run \cup {None}]
      /\ \A q \in Proc : /\ caps'[q] \subseteq caps[q]
                         /\ outgoing'[q] # None => outgoing'[q] = outgoing[q]
  <2>1. /\ caps' \in [Proc -> SUBSET Run] /\ outgoing' \in [Proc -> Run \cup {None}]
        /\ \A q \in Proc : /\ caps'[q] = caps[q] \ {run[p]}
                           /\ outgoing'[q] # None =>
                                 outgoing'[q] = outgoing[q] /\ outgoing[q] \notin {run[p]}
    BY <1>0, <1>1, CapsSwept, Zenon
  <2> QED BY <2>1, Zenon
<1>3. TypeOK' /\ pc'[p] = "unmap_run" /\ \A q \in Proc \ {p} : SameFor(q)
  BY <1>0, <1>1, <1>2, Zenon DEF TypeOK, SameFor
<1>4. CallOk(p)' /\ \A a \in Va : ~Behind(p, a)'
  <2>1. run[p] \in Object
    BY <1>0, <1>1, RunIsObject, Zenon DEF CallOk
  <2> QED BY <1>1, <1>3, <2>1, Zenon DEF CallOk, Looping, Behind
<1>5. LogOk(p)' /\ PaidFor(p)'
  BY <1>0, <1>1, <1>3, <1>4, BetweenPages, Zenon
<1>6. NoDestroy
  BY <1>1, <1>3, Zenon DEF NoDestroy, Destroying, SameFor
<1>7. (\A o \in Proc : CapsOutside(o)) => \A q \in Proc : CapsOutside(q)'
  BY <1>1, <1>2, <1>3, Zenon DEF CapsOutside, HoldsCopy, SameFor
<1>8. (\A o \in Proc : TableOutside(o)) => \A q \in Proc : TableOutside(q)'
  BY <1>1, Zenon DEF TableOutside
<1> QED BY <1>3, <1>4, <1>5, <1>6, <1>7, <1>8, StepOf, PlainStep, Zenon

------------------------------------------------------------------------------
(* The sweeps of the mappings.                                              *)

\* A call the sweep does not step, or one that is in no mapping loop.
Apart(q) == SameCall(q) \/ (~Looping(q) /\ ~Looping(q)')

\* unmap_matching takes a mapping and its record together, so that every table
\* goes on matching its log, whatever call its process is in.
LEMMA UnmapMatching ==
  ASSUME IInv, NEW page, NEW objects, unmap_matching(page, objects), NEW q \in Proc
  PROVE  /\ pte' \in [Proc -> [Va -> Page \cup {None}]] /\ log' \in [Proc -> SUBSET Entry]
         /\ \A a \in Va : pte'[q][a] # None => pte'[q][a] = pte[q][a]
         /\ \A e \in log[q] : ~(e.phys = page /\ e.object \in objects) =>
               pte'[q][e.va] = pte[q][e.va]
         /\ Apart(q) => LogOk(q)' /\ PaidFor(q)'
<1> DEFINE hit(o) == {e \in log[o] : e.phys = page /\ e.object \in objects}
<1>0. TypeOK /\ CallOk(q) /\ LogOk(q) /\ PaidFor(q)
  BY Zenon DEF IInv
<1>1. /\ pte' = [o \in Proc |-> [a \in Va |->
                    IF \E e \in hit(o) : e.va = a THEN None ELSE pte[o][a]]]
      /\ log' = [o \in Proc |-> log[o] \ hit(o)]
  BY Zenon DEF unmap_matching
<1>2. /\ pte' \in [Proc -> [Va -> Page \cup {None}]] /\ log' \in [Proc -> SUBSET Entry]
  <2>1. \A o \in Proc : \A a \in Va : pte[o][a] \in Page \cup {None}
    BY <1>0, Zenon DEF TypeOK
  <2>2. \A o \in Proc : log[o] \ hit(o) \in SUBSET Entry
    BY <1>0, Zenon DEF TypeOK
  <2> QED BY <1>1, <2>1, <2>2, Zenon
<1>3. /\ log'[q] = log[q] \ hit(q)
      /\ \A a \in Va : (\E e \in hit(q) : e.va = a) => pte'[q][a] = None
      /\ \A a \in Va : ~(\E e \in hit(q) : e.va = a) => pte'[q][a] = pte[q][a]
  BY <1>1, Zenon
<1>4. \A e \in log[q] : e.va \in Va
  BY <1>0, Records, Zenon
<1>5. \A e \in log[q] : e \notin hit(q) => pte'[q][e.va] = pte[q][e.va]
  BY <1>0, <1>3, <1>4, Zenon DEF LogOk
<1>6. ASSUME Apart(q) PROVE LogOk(q)' /\ PaidFor(q)'
  <2> HIDE DEF hit
  <2>1. /\ pc'[q] \in {"record", "forget"} => pc'[q] = pc[q] /\ VaNow(q)' = VaNow(q)
        /\ pc[q] \in {"record", "forget"} => pc'[q] = pc[q] /\ VaNow(q)' = VaNow(q)
        /\ pc'[q] = "record" => PageNow(q)' = PageNow(q)
    BY <1>6, Zenon DEF Apart, SameCall, Looping, VaNow, PageNow
  <2>2. \A a \in Va : Behind(q, a)' => Behind(q, a) /\ va'[q] = va[q] /\ run'[q] = run[q]
    BY <1>6, Zenon DEF Apart, SameCall, Looping, Behind
  <2>3. pc[q] \in {"record", "forget"} => VaNow(q) \in Va
    BY <1>0, InLoop, Zenon DEF Looping
  <2>4. log'[q] \in SUBSET log[q] /\ \A e \in log'[q] : e \in log[q] /\ e \notin hit(q)
    BY <1>3, Zenon
  <2>5. PaidFor(q)'
    BY <1>0, <2>4, Shrinks, Zenon DEF PaidFor
  <2>6. \A e \in log'[q] :
          (pc'[q] = "forget" /\ e.va = VaNow(q)') \/ pte'[q][e.va] = e.phys
    BY <1>0, <1>5, <2>1, <2>4, Zenon DEF LogOk
  <2>7. \A a \in Va : pte'[q][a] # None =>
          (pc'[q] = "record" /\ a = VaNow(q)') \/ \E e \in log'[q] : e.va = a
    BY <1>0, <1>3, <2>1, Zenon DEF LogOk
  <2>8. pc'[q] = "record" =>
          pte'[q][VaNow(q)'] = PageNow(q)' /\ \A e \in log'[q] : e.va # VaNow(q)'
    <3> SUFFICES ASSUME pc'[q] = "record"
                 PROVE  pte'[q][VaNow(q)'] = PageNow(q)' /\ \A e \in log'[q] : e.va # VaNow(q)'
      BY Zenon
    <3>1. /\ pte[q][VaNow(q)] = PageNow(q) /\ VaNow(q) \in Va
          /\ \A e \in log[q] : e.va # VaNow(q)
      BY <1>0, <2>1, <2>3, Zenon DEF LogOk
    <3>2. pte'[q][VaNow(q)] = PageNow(q)
      BY <1>3, <3>1, Zenon DEF hit
    <3> QED BY <2>1, <2>4, <3>1, <3>2, Zenon
  <2>9. pc'[q] = "forget" => pte'[q][VaNow(q)'] = None
    <3>1. pc'[q] = "forget" => pte[q][VaNow(q)] = None /\ VaNow(q) \in Va
      BY <1>0, <2>1, <2>3, Zenon DEF LogOk
    <3> QED BY <1>3, <2>1, <3>1, Zenon
  <2>10. \A e \in log'[q] : Behind(q, e.va)' => e.phys + va'[q] = base(run'[q]) + e.va
    BY <1>0, <1>4, <2>2, <2>4, Zenon DEF LogOk
  <2>11. \A e, f \in log'[q] : e.va = f.va => e = f
    BY <1>0, <2>4, Zenon DEF LogOk
  <2> QED BY <2>5, <2>6, <2>7, <2>8, <2>9, <2>10, <2>11, Zenon DEF LogOk
<1>7. \A a \in Va : pte'[q][a] # None => pte'[q][a] = pte[q][a]
  BY <1>3, Zenon
<1> QED BY <1>2, <1>5, <1>6, <1>7, Zenon

\* The others go on with their calls while a sweep takes mappings from them.
LEMMA SweepOthers ==
  ASSUME IInv, NEW p \in Proc, NEW page, NEW objects, unmap_matching(page, objects),
         \A q \in Proc \ {p} : SameCall(q), ~Looping(p), ~Looping(p)', CallOk(p)'
  PROVE  /\ pte' \in [Proc -> [Va -> Page \cup {None}]] /\ log' \in [Proc -> SUBSET Entry]
         /\ \A q \in Proc : CallOk(q)' /\ LogOk(q)' /\ PaidFor(q)'
         /\ \A q \in Proc : TableOutside(q) => TableOutside(q)'
<1>1. \A q \in Proc : Apart(q)
  BY Zenon DEF Apart
<1>2. /\ pte' \in [Proc -> [Va -> Page \cup {None}]] /\ log' \in [Proc -> SUBSET Entry]
      /\ \A q \in Proc : LogOk(q)' /\ PaidFor(q)'
      /\ \A q \in Proc : \A a \in Va : pte'[q][a] # None => pte'[q][a] = pte[q][a]
  BY <1>1, UnmapMatching, Zenon
<1>3. \A q \in Proc : CallOk(q)'
  <2>1. ASSUME NEW q \in Proc, CallOk(q), SameCall(q) PROVE CallOk(q)'
    BY <2>1, Zenon DEF CallOk, SameCall, Looping
  <2> QED BY <2>1, Zenon DEF IInv
<1>4. \A q \in Proc : TableOutside(q) => TableOutside(q)'
  BY <1>2, Numbers, Zenon DEF TableOutside
<1> QED BY <1>2, <1>3, <1>4, Zenon

\* REVOKE unmaps the run page by page, under its object alone.
LEMMA RevokePageKeeps ==
  ASSUME IInv, NEW p \in Proc, RevokePage(p)
  PROVE  IInv'
<1>0. TypeOK /\ CallOk(p)
  BY Zenon DEF IInv
<1>1. /\ pc[p] = "unmap_run" /\ unmap_matching(PageNow(p), {base(run[p])})
      /\ IF k[p] + 1 < n[p]
         THEN k' = [k EXCEPT ![p] = k[p] + 1] /\ UNCHANGED <<pc, run, va, n>>
         ELSE Leave(p, "user")
      /\ UNCHANGED <<caps, outgoing, region, watermark, straddled>>
  BY Zenon DEF RevokePage, unmap_under_object, Return
<1>2. /\ CallTypes /\ CallOk(p)' /\ pc'[p] \in {"unmap_run", "user"}
      /\ \A q \in Proc \ {p} : SameCall(q)
  <2>1. CASE k[p] + 1 < n[p]
    <3>1. k' = [k EXCEPT ![p] = k[p] + 1] /\ UNCHANGED <<pc, run, va, n>>
      BY <1>1, <2>1, Zenon
    <3>2. CallTypes /\ \A q \in Proc \ {p} : SameCall(q)
      BY <1>0, <3>1 DEF TypeOK, CallTypes, SameCall
    <3> QED BY <1>0, <1>1, <3>1, <3>2, Zenon DEF CallOk, Looping
  <2>2. CASE ~(k[p] + 1 < n[p])
    BY <1>0, <1>1, <2>2, LeaveKeeps, Zenon
  <2> QED BY <2>1, <2>2, Zenon
<1>3. ~Looping(p) /\ ~Looping(p)'
  BY <1>1, <1>2, Zenon DEF Looping
<1>4. /\ pte' \in [Proc -> [Va -> Page \cup {None}]] /\ log' \in [Proc -> SUBSET Entry]
      /\ \A q \in Proc : CallOk(q)' /\ LogOk(q)' /\ PaidFor(q)'
      /\ \A q \in Proc : TableOutside(q) => TableOutside(q)'
  BY <1>1, <1>2, <1>3, SweepOthers, Zenon
<1>5. TypeOK'
  BY <1>0, <1>1, <1>2, <1>4, Zenon DEF TypeOK, CallTypes
<1>6. NoDestroy
  BY <1>1, <1>2, Zenon DEF NoDestroy, Destroying, SameCall
<1>7. (\A o \in Proc : CapsOutside(o)) => \A q \in Proc : CapsOutside(q)'
  BY <1>1, <1>2, Zenon DEF CapsOutside, HoldsCopy, SameCall
<1> QED BY <1>4, <1>5, <1>6, <1>7, PlainStep, Zenon

------------------------------------------------------------------------------
(* The destruction of a region.                                             *)

\* The claim is taken once: who steps through a destroy is alone in it.
LEMMA Alone ==
  ASSUME IInv, NEW p \in Proc, \A q \in Proc \ {p} : pc'[q] = pc[q],
         Destroying(p) \/ region = "live", Destroying(p)' => region' = "claimed"
  PROVE  OneDestroyer' /\ \A q \in Proc \ {p} : ~Destroying(q) /\ ~Destroying(q)'
<1>1. OneDestroyer
  BY Zenon DEF IInv
<1>2. \A q \in Proc \ {p} : ~Destroying(q)
  BY <1>1, Zenon DEF OneDestroyer
<1>3. \A q \in Proc \ {p} : ~Destroying(q)'
  BY <1>2, Zenon DEF Destroying
<1> QED BY <1>2, <1>3, Zenon DEF OneDestroyer

\* claim_for_destroy takes a region that is live, and no other.
LEMMA ClaimKeeps ==
  ASSUME IInv, NEW p \in Proc, claim_for_destroy(p)
  PROVE  IInv'
<1>0. TypeOK /\ CallOk(p) /\ LogOk(p) /\ PaidFor(p)
  BY Zenon DEF IInv
<1>1. pc[p] = "claim" /\ UNCHANGED <<caps, outgoing, pte, log, watermark, straddled>>
  BY Zenon DEF claim_for_destroy
<1>2. CASE region = "live"
  <2>1. region' = "claimed" /\ pc' = [pc EXCEPT ![p] = "sweep"] /\ UNCHANGED <<run, va, k, n>>
    BY <1>2, Zenon DEF claim_for_destroy, Goto, callVars
  <2>2. TypeOK' /\ pc'[p] = "sweep" /\ \A q \in Proc \ {p} : SameFor(q)
    BY <1>0, <1>1, <2>1, Zenon DEF TypeOK, SameFor
  <2>3. CallOk(p)' /\ \A a \in Va : ~Behind(p, a)'
    BY <2>2, Zenon DEF CallOk, Looping, Behind
  <2>4. LogOk(p)' /\ PaidFor(p)'
    BY <1>0, <1>1, <2>2, <2>3, BetweenPages, Zenon
  <2>5. \A q \in Proc : CallOk(q)' /\ LogOk(q)' /\ PaidFor(q)'
    BY <2>2, <2>3, <2>4, StepOf, Zenon
  <2>6. OneDestroyer' /\ \A q \in Proc \ {p} : ~Destroying(q)'
    BY <1>2, <2>1, <2>2, Alone, Zenon DEF SameFor
  <2>7. ~Swept' /\ ~Scanned'
    BY <2>1, <2>2, <2>6, Zenon DEF Swept, Scanned, Destroying
  <2> QED BY <2>2, <2>5, <2>6, <2>7, Zenon DEF IInv, Cleared
<1>3. CASE region # "live"
  <2>1. Leave(p, "user") /\ region' = region
    BY <1>3, Zenon DEF claim_for_destroy, Return
  <2>2. /\ CallTypes /\ CallOk(p)' /\ pc'[p] = "user" /\ \A q \in Proc \ {p} : SameCall(q)
        /\ \A a \in Va : ~Behind(p, a)'
    BY <1>0, <2>1, LeaveKeeps, Zenon
  <2>3. TypeOK'
    BY <1>0, <1>1, <2>1, <2>2, Zenon DEF TypeOK, CallTypes
  <2>4. LogOk(p)' /\ PaidFor(p)'
    BY <1>0, <1>1, <2>2, BetweenPages, Zenon
  <2>5. \A q \in Proc \ {p} : SameFor(q)
    BY <1>1, <2>2, Zenon DEF SameFor, SameCall
  <2>6. NoDestroy
    BY <1>1, <2>1, <2>2, <2>5, Zenon DEF NoDestroy, Destroying, SameFor
  <2>7. (\A o \in Proc : CapsOutside(o)) => \A q \in Proc : CapsOutside(q)'
    BY <1>1, <2>2, <2>5, Zenon DEF CapsOutside, HoldsCopy, SameFor
  <2>8. (\A o \in Proc : TableOutside(o)) => \A q \in Proc : TableOutside(q)'
    BY <1>1, Zenon DEF TableOutside
  <2> QED BY <2>2, <2>3, <2>4, <2>5, <2>6, <2>7, <2>8, StepOf, PlainStep, Zenon
<1> QED BY <1>2, <1>3, Zenon

\* delete_page_frame_caps_overlapping leaves no capability of the region's
\* pages, in a table or on its way to a receiver.
LEMMA SweepRegionKeeps ==
  ASSUME IInv, NEW p \in Proc, SweepRegion(p)
  PROVE  IInv'
<1>0. TypeOK /\ CallOk(p) /\ LogOk(p) /\ PaidFor(p) /\ OneDestroyer
  BY Zenon DEF IInv
<1> DEFINE S == {r \in Run : PagesOf(r) \cap RegionPages # {}}
<1>1. /\ pc[p] = "sweep" /\ delete_page_frame_caps_where(S)
      /\ straddled' = (\E q \in Proc : HoldsCopy(q))
      /\ pc' = [pc EXCEPT ![p] = "scan"]
      /\ UNCHANGED <<pte, log, region, watermark, run, va, k, n>>
  BY Zenon DEF SweepRegion, delete_page_frame_caps_overlapping, Goto, callVars
<1>2. \A r \in Run : r \notin S => Outside(r)
  BY Zenon DEF Outside
<1> HIDE DEF S
<1>3. /\ caps' \in [Proc -> SUBSET Run] /\ outgoing' \in [Proc -> Run \cup {None}]
      /\ \A q \in Proc : /\ caps'[q] = caps[q] \ S
                         /\ outgoing'[q] # None =>
                               outgoing'[q] = outgoing[q] /\ outgoing[q] \notin S
  BY <1>0, <1>1, CapsSwept, Zenon
<1>4. straddled' \in BOOLEAN
  BY <1>1, Zenon
<1>5. TypeOK' /\ pc'[p] = "scan" /\ \A q \in Proc \ {p} : SameFor(q)
  BY <1>0, <1>1, <1>3, <1>4, Zenon DEF TypeOK, SameFor
<1>6. CallOk(p)' /\ \A a \in Va : ~Behind(p, a)'
  BY <1>5, Zenon DEF CallOk, Looping, Behind
<1>7. LogOk(p)' /\ PaidFor(p)'
  BY <1>0, <1>1, <1>5, <1>6, BetweenPages, Zenon
<1>8. \A q \in Proc : CallOk(q)' /\ LogOk(q)' /\ PaidFor(q)'
  BY <1>5, <1>6, <1>7, StepOf, Zenon
<1>9. Destroying(p) /\ region = "claimed"
  BY <1>0, <1>1, Zenon DEF Destroying, OneDestroyer
<1>10. OneDestroyer' /\ \A q \in Proc \ {p} : ~Destroying(q)'
  BY <1>1, <1>5, <1>9, Alone, Zenon DEF SameFor
<1>11. ~Scanned'
  BY <1>1, <1>5, <1>9, <1>10, Zenon DEF Scanned, Destroying
<1>12. ~straddled' => \A q \in Proc : CapsOutside(q)'
  <2> SUFFICES ASSUME ~straddled', NEW q \in Proc PROVE CapsOutside(q)'
    BY Zenon
  <2>1. ~HoldsCopy(q)'
    BY <1>1, <1>5, Zenon DEF HoldsCopy, SameFor
  <2>2. \A r \in caps'[q] : Outside(r)
    BY <1>2, <1>3, Zenon
  <2>3. outgoing'[q] # None => Outside(outgoing'[q])
    BY <1>2, <1>3, Zenon
  <2> QED BY <2>1, <2>2, <2>3, Zenon DEF CapsOutside
<1> QED BY <1>5, <1>8, <1>10, <1>11, <1>12, Zenon DEF IInv, Cleared

\* When no log has a record of a page of the region, no table maps one: the only
\* mapping a log may lack is one a call has in hand, and that call's run is
\* outside the region.
LEMMA NothingLogged ==
  ASSUME IInv, \A o \in Proc : CapsOutside(o),
         \A q \in Proc : \A e \in log[q] : e.phys \notin RegionPages
  PROVE  \A q \in Proc : TableOutside(q)
<1> SUFFICES ASSUME NEW q \in Proc, NEW a \in Va, pte[q][a] \in RegionPages PROVE FALSE
  BY Zenon DEF TableOutside
<1>0. TypeOK /\ CallOk(q) /\ LogOk(q) /\ CapsOutside(q) /\ pte[q][a] # None
  BY Numbers, Zenon DEF IInv
<1>1. CASE pc[q] = "record" /\ a = VaNow(q)
  <2>1. pte[q][a] = PageNow(q)
    BY <1>0, <1>1, Zenon DEF LogOk
  <2>2. PageNow(q) \in PagesOf(run[q])
    BY <1>0, <1>1, InLoop, Zenon DEF Looping
  <2>3. Outside(run[q])
    BY <1>0, <1>1, Zenon DEF CapsOutside, HoldsCopy
  <2> QED BY <2>1, <2>2, <2>3, Zenon DEF Outside
<1>2. CASE ~(pc[q] = "record" /\ a = VaNow(q))
  <2>1. PICK e \in log[q] : e.va = a
    BY <1>0, <1>2, Zenon DEF LogOk
  <2>2. pte[q][a] = e.phys
    BY <1>0, <2>1, Zenon DEF LogOk
  <2> QED BY <2>2, Zenon
<1> QED BY <1>1, <1>2, Zenon

\* The scan ends when it finds nothing, or names a page of the region to unmap.
LEMMA ScanRegionKeeps ==
  ASSUME IInv, NEW p \in Proc, ScanRegion(p)
  PROVE  IInv'
<1>0. TypeOK /\ CallOk(p) /\ LogOk(p) /\ PaidFor(p) /\ OneDestroyer /\ Cleared
  BY Zenon DEF IInv
<1> DEFINE found == {e.phys : e \in UNION {log[q] : q \in Proc}} \cap RegionPages
<1>1. /\ pc[p] = "scan"
      /\ IF found = {}
         THEN pc' = [pc EXCEPT ![p] = "free"] /\ run' = run
         ELSE /\ \E phys \in found : run' = [run EXCEPT ![p] = <<phys, 1>>]
              /\ pc' = [pc EXCEPT ![p] = "unmap_victim"]
      /\ UNCHANGED <<caps, outgoing, pte, log, region, watermark, va, k, n, straddled>>
  BY Zenon DEF ScanRegion, Goto
<1>2. /\ found \subseteq RegionPages
      /\ \A q \in Proc : \A e \in log[q] : e.phys \in RegionPages => e.phys \in found
  BY Zenon
<1> HIDE DEF found
<1>3. Destroying(p) /\ region = "claimed" /\ Swept
  BY <1>0, <1>1, Zenon DEF Destroying, OneDestroyer, Swept
<1>4. /\ TypeOK' /\ CallOk(p)' /\ pc'[p] \in {"free", "unmap_victim"}
      /\ \A q \in Proc \ {p} : SameFor(q)
      /\ pc'[p] = "free" => found = {}
  <2>1. CASE found = {}
    <3>1. pc' = [pc EXCEPT ![p] = "free"] /\ run' = run
      BY <1>1, <2>1, Zenon
    <3>2. TypeOK' /\ pc'[p] = "free" /\ \A q \in Proc \ {p} : SameFor(q)
      BY <1>0, <1>1, <3>1, Zenon DEF TypeOK, SameFor
    <3> QED BY <2>1, <3>2, Zenon DEF CallOk, Looping
  <2>2. CASE found # {}
    <3>1. PICK phys \in found : run' = [run EXCEPT ![p] = <<phys, 1>>]
      BY <1>1, <2>2, Zenon
    <3>2. pc' = [pc EXCEPT ![p] = "unmap_victim"]
      BY <1>1, <2>2, Zenon
    <3>3. phys \in Page /\ phys \in Nat /\ phys \in RegionPages
      BY <1>2, Numbers, RegionIsPages, Zenon
    <3>4. <<phys, 1>> \in Object /\ base(<<phys, 1>>) = phys
      <4>1. PagesOf(<<phys, 1>>) = {phys}
        BY <3>3 DEF PagesOf, base, count
      <4> QED BY <3>3, <4>1 DEF Object, base
    <3>5. /\ TypeOK' /\ pc'[p] = "unmap_victim" /\ run'[p] = <<phys, 1>>
          /\ \A q \in Proc \ {p} : SameFor(q)
      BY <1>0, <1>1, <3>1, <3>2, <3>4, Zenon DEF TypeOK, SameFor
    <3> QED BY <3>3, <3>4, <3>5, Zenon DEF CallOk, Looping
  <2> QED BY <2>1, <2>2, Zenon
<1>5. \A a \in Va : ~Behind(p, a)'
  BY <1>4, Zenon DEF Behind
<1>6. LogOk(p)' /\ PaidFor(p)'
  BY <1>0, <1>1, <1>4, <1>5, BetweenPages, Zenon
<1>7. \A q \in Proc : CallOk(q)' /\ LogOk(q)' /\ PaidFor(q)'
  BY <1>4, <1>6, StepOf, Zenon
<1>8. OneDestroyer' /\ \A q \in Proc \ {p} : ~Destroying(q)'
  BY <1>1, <1>3, <1>4, Alone, Zenon DEF SameFor
<1>9. ~straddled => \A q \in Proc : CapsOutside(q) /\ CapsOutside(q)'
  BY <1>0, <1>1, <1>3, <1>4, Zenon DEF Cleared, CapsOutside, HoldsCopy, SameFor
<1>10. Scanned' => found = {}
  BY <1>1, <1>3, <1>4, <1>8, Zenon DEF Scanned, Destroying
<1>11. ~straddled /\ found = {} => \A q \in Proc : TableOutside(q)'
  <2>1. ~straddled /\ found = {} => \A q \in Proc : TableOutside(q)
    BY <1>2, <1>9, NothingLogged, Zenon
  <2> QED BY <1>1, <2>1, Zenon DEF TableOutside
<1> QED BY <1>1, <1>4, <1>7, <1>8, <1>9, <1>10, <1>11, Zenon DEF IInv, Cleared

\* A page of the region is unmapped everywhere, and the scan begins again.
LEMMA UnmapVictimKeeps ==
  ASSUME IInv, NEW p \in Proc, UnmapVictim(p)
  PROVE  IInv'
<1>0. TypeOK /\ OneDestroyer /\ Cleared
  BY Zenon DEF IInv
<1>1. /\ pc[p] = "unmap_victim" /\ unmap_matching(base(run[p]), Page)
      /\ pc' = [pc EXCEPT ![p] = "scan"]
      /\ UNCHANGED <<caps, outgoing, region, watermark, run, va, k, n, straddled>>
  BY Zenon DEF UnmapVictim, unmap_everywhere, Goto, callVars
<1>2. pc'[p] = "scan" /\ CallTypes /\ \A q \in Proc \ {p} : SameCall(q)
  BY <1>0, <1>1, Zenon DEF TypeOK, CallTypes, SameCall
<1>3. ~Looping(p) /\ ~Looping(p)' /\ CallOk(p)'
  BY <1>1, <1>2, Zenon DEF Looping, CallOk
<1>4. /\ pte' \in [Proc -> [Va -> Page \cup {None}]] /\ log' \in [Proc -> SUBSET Entry]
      /\ \A q \in Proc : CallOk(q)' /\ LogOk(q)' /\ PaidFor(q)'
  BY <1>1, <1>2, <1>3, SweepOthers, Zenon
<1>5. TypeOK'
  BY <1>0, <1>1, <1>2, <1>4, Zenon DEF TypeOK, CallTypes
<1>6. Destroying(p) /\ region = "claimed" /\ Swept
  BY <1>0, <1>1, Zenon DEF Destroying, OneDestroyer, Swept
<1>7. OneDestroyer' /\ \A q \in Proc \ {p} : ~Destroying(q)'
  BY <1>1, <1>2, <1>6, Alone, Zenon DEF SameCall
<1>8. ~straddled => \A q \in Proc : CapsOutside(q)'
  BY <1>0, <1>1, <1>2, <1>6, Zenon DEF Cleared, CapsOutside, HoldsCopy, SameCall
<1>9. ~Scanned'
  BY <1>1, <1>2, <1>6, <1>7, Zenon DEF Scanned, Destroying
<1> QED BY <1>1, <1>4, <1>5, <1>7, <1>8, <1>9, Zenon DEF IInv, Cleared

\* The pages go back only after a scan that found nothing.
LEMMA FreePagesKeeps ==
  ASSUME IInv, NEW p \in Proc, FreePages(p)
  PROVE  IInv'
<1>0. TypeOK /\ CallOk(p) /\ LogOk(p) /\ PaidFor(p) /\ Cleared
  BY Zenon DEF IInv
<1>1. /\ pc[p] = "free" /\ region' = "freed" /\ Leave(p, "user")
      /\ UNCHANGED <<caps, outgoing, pte, log, watermark, straddled>>
  BY Zenon DEF FreePages, Return
<1>2. /\ CallTypes /\ CallOk(p)' /\ pc'[p] = "user" /\ \A q \in Proc \ {p} : SameCall(q)
      /\ \A a \in Va : ~Behind(p, a)'
      /\ ~HoldsCopy(p)' /\ ~Destroying(p)'
  BY <1>0, <1>1, LeaveKeeps, Zenon
<1>3. TypeOK'
  BY <1>0, <1>1, <1>2, Zenon DEF TypeOK, CallTypes
<1>4. LogOk(p)' /\ PaidFor(p)'
  BY <1>0, <1>1, <1>2, BetweenPages, Zenon
<1>5. \A q \in Proc \ {p} : SameFor(q)
  BY <1>1, <1>2, Zenon DEF SameFor, SameCall
<1>6. \A q \in Proc : CallOk(q)' /\ LogOk(q)' /\ PaidFor(q)'
  BY <1>2, <1>4, <1>5, StepOf, Zenon
<1>7. OneDestroyer'
  <2>1. Destroying(p)
    BY <1>1, Zenon DEF Destroying
  <2> QED BY <1>2, <1>5, <2>1, Alone, Zenon DEF SameFor
<1>8. Swept /\ Scanned
  BY <1>1, Zenon DEF Swept, Scanned
<1>9. ~straddled => \A q \in Proc : CapsOutside(q)' /\ TableOutside(q)'
  BY <1>0, <1>1, <1>2, <1>5, <1>8, Zenon
     DEF Cleared, CapsOutside, TableOutside, HoldsCopy, SameFor
<1> QED BY <1>1, <1>3, <1>6, <1>7, <1>9, Zenon DEF IInv, Cleared

------------------------------------------------------------------------------
(* The theorems.                                                            *)

\* At the start nothing is mapped, recorded or under way.
LEMMA InitIInv == Init => IInv
<1> SUFFICES ASSUME Init PROVE IInv
  BY Zenon
<1>1. /\ caps = InitCaps /\ outgoing = [q \in Proc |-> None]
      /\ pte = [q \in Proc |-> [a \in Va |-> None]] /\ log = [q \in Proc |-> {}]
      /\ region = "live" /\ watermark = FirstFree /\ pc = [q \in Proc |-> "user"]
      /\ run = [q \in Proc |-> None] /\ va = [q \in Proc |-> None]
      /\ k = [q \in Proc |-> 0] /\ n = [q \in Proc |-> 0] /\ straddled = FALSE
  BY Zenon DEF Init
<1>2. watermark \in Nat
  BY <1>1, FirstFreeIsNat, Zenon
<1>3. InitCaps \in [Proc -> SUBSET Run]
  BY RevocationAssumption, Zenon
<1>4. TypeOK
  BY <1>1, <1>2, <1>3, Zenon DEF TypeOK
<1>5. \A p \in Proc : CallOk(p) /\ LogOk(p)
  BY <1>1, Zenon DEF CallOk, LogOk, Looping
<1>6. \A p \in Proc : PaidFor(p)
  <2>1. \A p \in Proc : LogCapacity[p] \in Nat
    BY RevocationAssumption, Zenon
  <2>2. IsFiniteSet({}) /\ Cardinality({}) = 0
    BY FS_EmptySet, Zenon
  <2> QED BY <1>1, <2>1, <2>2 DEF PaidFor
<1>7. OneDestroyer /\ Cleared
  BY <1>1, Zenon DEF OneDestroyer, Destroying, Cleared, Swept, Scanned
<1> QED BY <1>4, <1>5, <1>6, <1>7, Zenon DEF IInv

\* Every step of every call keeps the invariant, however the critical sections
\* of calls on other cores fall between its own (revoke.rs, invoke.rs).
THEOREM NextIInv == IInv /\ [Next]_vars => IInv'
<1> SUFFICES ASSUME IInv, [Next]_vars PROVE IInv'
  BY Zenon
<1>1. CASE Next
  <2>1. PICK p \in Proc : Invoke(p) \/ Kernel(p)
    BY <1>1, Zenon DEF Next
  <2>2. CASE Invoke(p)
    BY <2>2, CallKeeps, ReceiveCapKeeps, Zenon DEF Invoke
  <2>3. CASE Kernel(p)
    BY <2>3, RetypeKeeps, RetypeRunKeeps, MapFailsKeeps, MapPageKeeps, RecordKeeps, UnmapPrefixKeeps,
       ForgetKeeps, GrantKeeps, SendParksKeeps, RevokeCapsKeeps, RevokePageKeeps,
       ClaimKeeps, SweepRegionKeeps, ScanRegionKeeps, UnmapVictimKeeps, FreePagesKeeps,
       Zenon DEF Kernel
  <2> QED BY <2>1, <2>2, <2>3, Zenon
<1>2. CASE UNCHANGED vars
  <2>1. /\ UNCHANGED <<caps, outgoing, pte, log, region, watermark, pc, run, va, k, n,
                       straddled>>
    BY <1>2, Zenon DEF vars, callVars
  <2>2. TypeOK' /\ \A q \in Proc : SameFor(q)
    BY <2>1, Zenon DEF IInv, TypeOK, SameFor
  <2>3. \A q \in Proc : CallOk(q)' /\ LogOk(q)' /\ PaidFor(q)'
    BY <2>2, Frame, Zenon DEF IInv
  <2>4. NoDestroy
    BY <2>1, Zenon DEF NoDestroy
  <2>5. (\A o \in Proc : CapsOutside(o)) => \A q \in Proc : CapsOutside(q)'
    BY <2>1, Zenon DEF CapsOutside, HoldsCopy
  <2>6. (\A o \in Proc : TableOutside(o)) => \A q \in Proc : TableOutside(q)'
    BY <2>1, Zenon DEF TableOutside
  <2> QED BY <2>2, <2>3, <2>4, <2>5, <2>6, PlainStep, Zenon
<1> QED BY <1>1, <1>2, Zenon

\* The invariant holds throughout: how far each call has come, what its log may
\* lack meanwhile, and what a destroy has already swept.
THEOREM SpecIInv == Spec => []IInv
<1>1. Init => IInv
  BY InitIInv, Zenon
<1>2. IInv /\ [Next]_vars => IInv'
  BY NextIInv, Zenon
<1> QED BY <1>1, <1>2, PTL DEF Spec

\* The log of an address space says exactly what is mapped there, once the call
\* at hand is past that address, and holds no more than is paid for.
THEOREM LogMatchesTablesHolds == Spec => []LogMatchesTables
<1>1. IInv => LogMatchesTables
  <2> SUFFICES ASSUME IInv, NEW p \in Proc
               PROVE  /\ Cardinality(log[p]) <= LogCapacity[p]
                      /\ \A a \in Va \ InHand(p) :
                            {e.phys : e \in {f \in log[p] : f.va = a}} = {pte[p][a]} \ {None}
    BY Zenon DEF LogMatchesTables
  <2>0. TypeOK /\ LogOk(p) /\ PaidFor(p)
    BY Zenon DEF IInv
  <2>1. ASSUME NEW a \in Va \ InHand(p)
        PROVE  {e.phys : e \in {f \in log[p] : f.va = a}} = {pte[p][a]} \ {None}
    <3>1. ~(pc[p] \in {"record", "forget"} /\ a = VaNow(p)) /\ a \in Va
      BY <2>1, Zenon DEF InHand
    <3>2. \A e \in log[p] : e.va = a => e.phys = pte[p][a] /\ e.phys # None
      BY <2>0, <3>1, Records, Zenon DEF LogOk
    <3>3. pte[p][a] # None => \E e \in log[p] : e.va = a
      BY <2>0, <3>1, Zenon DEF LogOk
    <3> QED BY <3>2, <3>3, Zenon
  <2> QED BY <2>0, <2>1, Zenon DEF PaidFor
<1> QED BY <1>1, SpecIInv, PTL

\* Once destroy has handed a region's pages back, no table maps one and no
\* capability names one, unless a call held a copy across the sweep.
THEOREM ReclaimedIsUnreachableHolds == Spec => []ReclaimedIsUnreachable
<1>1. IInv => ReclaimedIsUnreachable
  BY Zenon DEF IInv, Cleared, Swept, Scanned, CapsOutside, TableOutside, Outside,
     ReclaimedIsUnreachable
<1> QED BY <1>1, SpecIInv, PTL

\* Which steps take a recorded mapping away.
LEMMA WhoUnmaps ==
  ASSUME IInv, NEW o \in Proc, Invoke(o) \/ Kernel(o),
         NEW p \in Proc, NEW e \in log[p], pte[p][e.va] = e.phys, pte'[p][e.va] # e.phys
  PROVE  \/ pc[p] = "unmap" /\ e.va = VaNow(p)
         \/ \E q \in Proc : pc[q] = "unmap_run" /\ base(run[q]) = e.object
         \/ region = "claimed" /\ e.phys \in RegionPages
<1>0. TypeOK /\ CallOk(o) /\ LogOk(o) /\ OneDestroyer
  BY Zenon DEF IInv
<1>1. e.va \in Va /\ e.phys # None
  BY <1>0, Records, Zenon
<1>2. \/ MapPage(o) \/ (record_mapping(o) /\ Unrecorded(o)) \/ UnmapPrefix(o)
      \/ RevokePage(o) \/ UnmapVictim(o)
  <2>1. pte' # pte
    BY Zenon
  <2>2. CASE Invoke(o)
    BY <2>1, <2>2, Zenon DEF Invoke, PageFrameMap, PageFrameSlice, SendCap, ReceiveCap,
       PageFrameRevoke, MemoryRegionMap, MemoryRegionRetype, MemoryRegionDestroy, Call
  <2>3. CASE Kernel(o)
    BY <2>1, <2>3, Zenon DEF Kernel, Retype, RetypeRun, MapFails, record_mapping, forget_mapping,
       grant, SendParks, RevokeCaps, claim_for_destroy, SweepRegion, ScanRegion,
       FreePages
  <2> QED BY <2>2, <2>3, Zenon
<1>3. ASSUME NEW x \in Page \cup {None}, VaNow(o) \in Va, pte' = [pte EXCEPT ![o][VaNow(o)] = x]
      PROVE  o = p /\ e.va = VaNow(p)
  <2>1. /\ \A a \in Va \ {VaNow(o)} : pte'[o][a] = pte[o][a]
        /\ \A q \in Proc \ {o} : pte'[q] = pte[q]
    BY <1>0, <1>3, EntryWritten, Zenon
  <2> QED BY <1>1, <2>1, Zenon
<1>4. CASE MapPage(o)
  <2>1. /\ pc[o] = "map" /\ pte[o][VaNow(o)] = None
        /\ pte' = [pte EXCEPT ![o][VaNow(o)] = PageNow(o)]
    BY <1>4, Zenon DEF MapPage
  <2>2. VaNow(o) \in Va /\ PageNow(o) \in Page \cup {None}
    BY <1>0, <2>1, InLoop, Zenon DEF Looping
  <2> QED BY <1>1, <1>3, <2>1, <2>2, Zenon
<1>5. CASE record_mapping(o) /\ Unrecorded(o)
  <2>1. pc[o] = "record" /\ pte' = [pte EXCEPT ![o][VaNow(o)] = None]
    BY <1>5, Zenon DEF record_mapping, Unrecorded
  <2>2. VaNow(o) \in Va /\ None \in Page \cup {None} /\ \A f \in log[o] : f.va # VaNow(o)
    BY <1>0, <2>1, InLoop, Zenon DEF Looping, LogOk
  <2> QED BY <1>3, <2>1, <2>2, Zenon
<1>6. CASE UnmapPrefix(o)
  <2>1. pc[o] = "unmap" /\ pte' = [pte EXCEPT ![o][VaNow(o)] = None]
    BY <1>6, Zenon DEF UnmapPrefix
  <2>2. VaNow(o) \in Va /\ None \in Page \cup {None}
    BY <1>0, <2>1, InLoop, Zenon DEF Looping
  <2> QED BY <1>3, <2>1, <2>2, Zenon
<1>7. CASE RevokePage(o)
  <2>1. pc[o] = "unmap_run" /\ unmap_matching(PageNow(o), {base(run[o])})
    BY <1>7, Zenon DEF RevokePage, unmap_under_object
  <2>2. \A f \in log[p] : ~(f.phys = PageNow(o) /\ f.object \in {base(run[o])}) =>
           pte'[p][f.va] = pte[p][f.va]
    BY <2>1, UnmapMatching, Zenon
  <2>3. e.object \in {base(run[o])}
    BY <2>2, Zenon
  <2> QED BY <2>1, <2>3, Zenon
<1>8. CASE UnmapVictim(o)
  <2>1. pc[o] = "unmap_victim" /\ unmap_matching(base(run[o]), Page)
    BY <1>8, Zenon DEF UnmapVictim, unmap_everywhere
  <2>2. \A f \in log[p] : ~(f.phys = base(run[o]) /\ f.object \in Page) =>
           pte'[p][f.va] = pte[p][f.va]
    BY <2>1, UnmapMatching, Zenon
  <2>3. base(run[o]) \in RegionPages /\ region = "claimed"
    BY <1>0, <2>1, Zenon DEF CallOk, OneDestroyer, Destroying
  <2>4. e.phys = base(run[o])
    BY <2>2, Zenon
  <2> QED BY <2>3, <2>4, Zenon
<1> QED BY <1>2, <1>4, <1>5, <1>6, <1>7, <1>8, Zenon

\* A process loses a mapping it is not itself rolling back only to a REVOKE of
\* the object it was mapped under, or to the destruction of its region.
THEOREM OthersKeepTheirsHolds == Spec => OthersKeepTheirs
<1> DEFINE Allowed ==
      \A p \in Proc : \A e \in log[p] :
          pte[p][e.va] = e.phys /\ pte'[p][e.va] # e.phys =>
              \/ pc[p] = "unmap" /\ e.va = VaNow(p)
              \/ \E q \in Proc : pc[q] = "unmap_run" /\ base(run[q]) = e.object
              \/ region = "claimed" /\ e.phys \in RegionPages
<1>1. IInv /\ [Next]_vars => [Allowed]_vars
  <2>1. IInv /\ Next => Allowed
    BY WhoUnmaps, Zenon DEF Next
  <2> QED BY <2>1, Zenon
<1>2. OthersKeepTheirs <=> [][Allowed]_vars
  BY Zenon DEF OthersKeepTheirs
<1> QED BY <1>1, <1>2, SpecIInv, PTL DEF Spec
=============================================================================
