# Verification of nife

TLA+ models of the concurrent and crash-prone parts of nife, a capability
microkernel for several cores: the scheduler, synchronous IPC, notifications and
timers, memory regions, the revocation of page frames, the live replacement of a
component, and boot slots with rollback. TLC checks each model on small instances.
TLAPS proves, for every value of the constants, that the scheduler is safe and
implements an abstract specification of the life of a thread, that notifications
and timers lose no signal and keep their queues exact, that memory regions give
every page one owner, that the mapping logs and a region's destruction are exact,
and that an unproved upgrade is started no more often than it may be.

## 1. Inventory

The kernel has one big lock, `IPC_TABLES`, over the thread, rendezvous,
notification and timer tables. Beside it are `REGIONS` (the region table),
`SPACES` (the mapping logs), one inbox lock per core and the frame allocator. Run
queues have no lock: only the owning core touches its own. The errors such a
design invites are never inside a critical section. They are in the gaps: a
decision taken under one hold of a lock and used under the next. Above the kernel
the gaps are between messages, and between the writes of a disk.

| Part | State | Operations | What makes it hard |
|---|---|---|---|
| Scheduler (`sched.rs`, `cpu.rs`, `thread_wake_handshake`, `work_steal_slot`) | run queues, inboxes, steal slots, handshakes, saved contexts | schedule, switch_to, finish_switch, place_on, wake, ticks, steal, spawn, start, exit, kill, reap | a thread is off its core in the tables while still on its stack; SGIs are sent after the unlock |
| IPC (`sched.rs`, `syscall.rs`, `inter_process_communication`) | wait queues, mailboxes, hand-off slots, reply capabilities | SEND, SEND_CAP, CALL, REPLY, RECEIVE, RECEIVE_CAP, interrupts, death messages, teardown | calls that take the lock several times, against exit, kill and region teardown |
| Notifications and timers | words, waiter queues, bindings, deadlines, the cached earliest deadline | SIGNAL, WAIT, POLL, BIND, ARM, CANCEL, the expiry walk | a signal races receive and bind; the tick reads the cache without the lock |
| Memory regions (`memory_region.rs`, `memory_regions`) | the region tree, watermarks, child counts, pins, free pages | create, split, retype, object creation, destroy, reclaim | reclaim is five lock holds; pages of a destroyed child are in flight |
| Revocation (`revoke.rs`, `syscall.rs`) | capability tables, hand-off slots, page tables, mapping logs | RETYPE, MAP, SLICE, SEND_CAP, REVOKE, DESTROY | a system call works on a copy of its capability; caps, logs and page tables change under different locks |
| Live replacement (`swapper.rs`, `broker.rs`, `swap_protocol`) | endpoints, witness and handoff pages, a backlog | quiesce, revoke, replace, hand over, roll back, warn | the client never stops calling; the incumbent may hang, the warning may be late |
| Boot slots (`boot_slot`, `chooser.rs`, `installer.rs`) | slot states in two copies of a partition table, a write cache | choose, spend a try, start, give up, confirm | power goes between any two writes |
| Address spaces, paging, ASIDs | page tables, ASID bitmap | bind, configure, destroy | configure spans three locks |
| Lock ranking (`sync.rs`) | held rank per core | lock, unlock | nesting order |
| Other user-space services | per service | request/reply loops | |
| Drivers, architecture ports, file systems, network, terminal, tools | | | I/O, parsing, assembly |

`PROJECT.json` lists every part, its status and why it is or is not modelled, and
the hazards at the lines where they bite.

## 2. Modules

One hold of a lock, one blocking call or one write of a disk is one action. A
program counter per thread (or a phase per core) says in which gap it is. Inputs
are chosen with `\E` from the constants.

| Module | Models |
|---|---|
| `Handshake` | The record a thread's park, serve, wake and switch-out go through, as pure operators with the crate's verdicts. |
| `Scheduler` | Cores and threads. `phase` is where a core is between `schedule()` unlocking, `switch_to` and `finish_switch`, or in an interrupt handler that still owes SGIs. `owes` is the SGI a preemptible kernel thread still has to send. |
| `ThreadLifecycle` | What the scheduler promises, with no queues, inboxes or contexts: a thread is created, ready, run by one core at a time, blocked, woken, departed, removed. |
| `SchedulerRefinement` | The mapping from `Scheduler` to `ThreadLifecycle`. |
| `Rendezvous` | The two queues and the signal counter of a rendezvous, as pure operators. |
| `Ipc` | User threads in system calls. REPLY is three actions (`current_cap`, `ipc_reply`, `delete_current_cap`) because the code takes the lock three times. Messages and capabilities are numbered so that properties can tell calls apart; no guard reads the numbers. |
| `Notifications` | Words as sets of bits, bindings, timers, and `seen[c]`, the possibly old value of `EARLIEST_DEADLINE` that core `c` reads with a relaxed load. |
| `MemoryRegions` | The table, the allocator and the five holds of `reclaim_region`. `retyped` and `phantom` are history. |
| `Revocation` | Processes in MAP, SLICE, SEND_CAP, REVOKE, and the region's MAP, RETYPE and DESTROY. `run` is the copy of the capability, or the run just retyped, that a call goes on with. `straddled` is history: some call held one when DESTROY swept the tables. |
| `SwappableService` | What a client sees of a component: requests served in order, none twice, and at most one move to the newer version. |
| `LiveSwap` | Operator, incumbent, replacement, broker and client over synchronous endpoints. Each of the operator's programs is a sequence of steps, with one action per kind of step. A death frees the caller the dead thread owed an answer (`strand_callers_of`), and its corpse is in `standing` until its core has left it (`finish_switch`). |
| `BootSlots` | The chooser's loop, the four writes of a partition table and their flush, the confirmation, the staging of an upgrade, and a disk that keeps any of the unflushed values of a range. `starts` and `proved` are history. |
| `MC*` | Instances for TLC: who holds what, and which operations each thread uses. |
| `*Proofs`, `NotificationsInvariant` | Theorems and their lemmas, section 4. |

`Ipc` and `Notifications` share `Handshake` and `Rendezvous` with each other, and
`Handshake` with `Scheduler`. Both give every thread a core of its own: what they
keep of the scheduler is that a parked thread stands on its core until
`finish_switch`, so that wakes can be deferred. `LiveSwap` takes the endpoints as
`Ipc` shows them to behave: a sender waits in order, a caller until it is answered.

Choices worth knowing when comparing with the source:

- `heal_self_pop` (`sched.rs` 2501) has no branch in `schedule()`. It is for a
  thread that finds itself on its own run queue, which theorem `NeverPanics` shows
  does not happen.
- `WakeUndelivered` is the test build's `wake_without_delivery`: a wake with
  nothing delivered, which the gate has to refuse.
- In `Scheduler` a region holds one thread; `Ipc` has regions with several objects.
- Names are never reused, which is what generational names promise.
- In `Revocation` a log is the set of its live records and `LogCapacity` what its
  owner can pay for. A receiver that already waits takes a capability as one that
  comes later would, by `SendParks` and then `ReceiveCap`. Capability tables do not
  run full here; in `Ipc` they do.
- In `LiveSwap` a process runs on from one blocking call to the next in one step,
  except where another process can see a step in between (the warning page and
  its signal, the reply and the note after it). Reports to the record and surveys
  change nothing and are left out.
- In `BootSlots` a header stands for the array whose checksum it carries, so a
  table parses when the two agree. A range changes in one sector, so it is never
  half written.
- `Upgrade` is `stage_an_upgrade` of `xtask/src/rollback.rs`, the only code that
  writes one: always the second slot, always at priority 3, from the host with the
  machine off. Its four writes are one step because the gates that call it boot
  nothing when one of them fails. It grants one try; the model grants `TRIES`.
- A read that fails and a second disk with slots have one outcome in the chooser,
  the image in its own file, and are one alternative of `PowerOn`.
- Usage counters, tracing, quotas, badges, rights and message words are left out.

## 3. Runs

| Run | Instance | Checks |
|---|---|---|
| `scheduler` | 2 cores, the boot thread, 2 idle threads and a table with room for one more, a kernel thread or a supervised user thread; 224 k states | `OneCorePerThread`, `ReadyIffQueued`, `SwitchesToSavedContext`, `WorkIsPoked`, `ReapedIsUnreferenced`, `ResumedIsDelivered`, `DeferredWakeIsRecorded`, `ImplementsLifecycle` |
| `scheduler_live` | 2 cores, 1 worker, fair; 4.7 k | `WokenThreadRuns` |
| `ipc_teardown` | 3 threads, 2 rendezvous; a region with a server that never answers, its rendezvous and a thread that hangs; fair; 16 k | `QueuesMatchParks`, `ReplyHasAnswerer`, `RegionEmpties`, `TeardownFreesWaiters` |
| `ipc_reply` | 3 threads, 2 rendezvous and an interrupt endpoint, all operations, the server's thread is torn down; 371 k | `ReplyCapNamesParkedCaller`, `CallGetsItsOwnReply`, `SendReportsTruth`, `CapTravelsWithItsMessage` |
| `ipc_stale_reply` | calls and replies, e1 torn down with its server | `ReplyCapNamesParkedCaller`, **violated** |
| `regions` | 3 pages, 3 slots, 4 names, 2 threads; 1.1 M | `PagesOwnedOnce`, `ChildrenCounted`, `HolesComeBack`, `ObjectPageIsHeld`, `NoPageLost` |
| `regions_shared` | one thread creates objects, the other reclaims | `ObjectPageIsHeld`, **violated** |
| `notifications` | 3 threads, 1 rendezvous, 2 notifications, 2 bits; 378 k | `LinkedIffParked`, `BoundThreadIsTold`, `NoBitLost`, `DeliveryIsKept` |
| `timers` | 2 cores, 1 thread, 2 timers, instants 0..2, fair; 13 k | `EarliestIsLowerBound`, `ArmedTimerFires`, `SleeperWakes` |
| `revocation` | 2 processes, a region of 3 pages, overlapping runs of 3 and 1 pages, logs of 3 and 1 records, fair; 756 k | `LogMatchesTables`, `ReclaimedIsUnreachable`, `OthersKeepTheirs`, `DestroyCompletes` |
| `live_swap` | all six programs, 7 requests, a backlog of 2, fair; 28 k | `SwapIsInvisible`, `EveryRequestKept`, `OneServer`, `SwapCompletes` |
| `boot_slots` | 2 slots, 2 tries, 2 upgrades of any quality, 2 power cuts, 2 I/O errors, fair; 156 k | `TriesBoundStarts`, `OnlyProvedIsConfirmed`, `ComesUp` |

What the newer of them show:

- `WorkIsPoked`: a thread in an inbox, or a claimed steal slot, always has an SGI
  pending at its core or owed by somebody who will still send it, though the ower
  may be preempted, stolen or in a handler.
- `ImplementsLifecycle`: the scheduler never takes a thread from one state of its
  life to another except by a step of `ThreadLifecycle`.
- `NoPageLost`: a page is free, in a live root region, or in the hands of a call
  that will name it or give it back. `create` takes the pages first and the slot
  later; when another call takes the last slot in between, the pages go back.
- `ReclaimedIsUnreachable` holds for the destroys during which no call held a copy
  of a run; `revoke_page_frame`'s comment defers that window for MAP, and the model
  has the same window in SLICE, in SEND_CAP, and in RETYPE between taking a run and
  granting it.
- `SwapIsInvisible` is `SwappableService!Spec` under the witness page, for all six
  programs at once.
- `SwapCompletes` allows two other ends. In `handoff()` the client can be through
  before the operator has quiesced anything; the operator then bails out on a note
  it does not expect, with nothing swapped and nothing lost. And `collect_corpse`
  bails (27) when REAP refuses: a death message is sent by `depart`, before the
  core has left the corpse's stack, and a REAP that comes before `finish_switch` is
  told "not yet". Everything else ends in a swap. The mutant of `hung()` that
  waits for the client to finish before it releases the incumbent waits in a circle:
  the incumbent holds the client's call. The comment at line 1025 of `swap_protocol`
  says the incumbent must reply before it touches the device or the client waits for
  ever; `depart` frees the callers of a thread that dies, so it would not.
- `TriesBoundStarts` needs the flush of `write_back` and the refusal to start on a
  failed one; the mutant without the flush gives a hanging image one start more.

### Bounds

- Two cores, the boot thread and one thread more reach every race of the switch: a
  wake, a steal or a kill against the gap between unlock and `finish_switch`. The
  boot thread is preemptible, so it can be stolen with an SGI still owed.
  `MAX_THREADS = 4` is the thread table's capacity: full with one spawned or
  retyped thread, and open again once that one is reaped. `Thief` bounds who steals:
  the second core in `scheduler` (with both the instance is seven times larger), both
  in `scheduler_live`, any set of cores in the proofs.
- `MaxOps = 2` lets a thread use a rendezvous again after an aborted call, which is
  what stale flags and stale capabilities need. `Slots = 1` makes a full capability
  table ordinary. `MaxPending = 1` is one counted interrupt.
- Three pages hold a parent with two children and a retyped page. Three slots and
  four names give a full table and a table that was full and has room again. A
  fourth page is beyond a five-minute run with these threads.
- Instants 0..2 put two deadlines on either side of a walk and let one be re-armed.
- In `revocation` the second process can pay for one record and map a run of three,
  so that the rollback of a half-mapped run is ordinary; the runs overlap in one page.
  Nothing is retyped at the start: every run is retyped and granted on the way.
- `REQUESTS = 7`, with `SWAP_TRIGGER = 2` and `CAPACITY = 2`, lets the client talk
  before, during and after every swap, the second try of a handoff included, and
  lets it fill the backlog.
- Two power cuts can fall on the try of one boot and of the next; two upgrades
  reuse a slot that was confirmed before; two I/O errors let a write fail after the
  slot it would have given up could not be read.

`CHECK_DEADLOCK FALSE` is set for `Ipc`, `MemoryRegions`, `Notifications`,
`Revocation` and `LiveSwap`, whose programs may end or whose bounds run out. The
scheduler and the boot slots are checked for deadlock.

### Fairness

Weak fairness is for straight-line kernel code with interrupts masked: a switch, a
handler, the rest of a system call. Strong fairness is for interrupts, which stay
pending while masked and are taken at the next unmasking: the tick and the SGI in
`Scheduler`, the tick that finds a killed thread in `Ipc`. `send_reschedule` is
strongly fair because a thread dispatched again and again reaches its next
instruction. In `Ipc` the owner of a region retries DESTROY, as its `NotPermitted`
answer asks. In `Notifications` the counter advances and every core ticks. User
programs are not fair in the kernel's models.

In `LiveSwap` each process is weakly fair: it is a thread, and the scheduler runs a
ready thread (`WokenThreadRuns`). So is the core that leaves a corpse, with its
interrupts masked. In `BootSlots` the machine is: it runs on, and one
that hangs is reset in the end by somebody or by a watchdog. Power cuts are bounded;
a machine whose power fails at every boot comes up in no design.

Two workers on two cores are outside the liveness run: each core can keep stealing
the thread the other is about to run, and neither the code nor the tick excludes
that schedule. Liveness is checked with one worker on two cores.

### Where the code and its comments disagree

- **`ipc_stale_reply`.** `sched.rs:3997` says no unconsumed reply capability names a
  thread that has left its park. REPLY copies the capability in one hold and uses
  it in the next. In between, the teardown of the rendezvous can free the caller,
  and the caller can call another server; the copy then answers that call. If the
  second call is still queued, the caller is also woken while linked on a wait
  queue: `QueuesMatchParks` fails under the same constants. The window is a few
  instructions on one core against a teardown, a return and a call on others.
- **`regions_shared`.** `memory_region.rs:239` and `sched.rs:2705` say no destroy can
  race away the page of a new object. `reclaim_region` reaps, unpins and destroys
  in separate holds, so an object made between reap and unpin loses its pin.

`regions` gives object creation and `reclaim_region` to one thread (`OwnerUses`).
`reclaim_region` tests for children and reads its span before it reaps by span, each
under a hold of its own. When another holder of the region carves a child and creates
an object in it in between, the reap takes the child's object. No property says that
it does not; `PROJECT.json` lists it as a hazard.

## 4. Proofs

Every theorem is for arbitrary constants, under the assumptions named in the module
that declares them; TLC evaluates these on every run. None of the safety properties
is inductive as it stands. Each proof module states an `IInv` that is, checks three
facts (the initial states satisfy it, every action keeps it, it implies the
property), and has one lemma per action or per group of actions with the same
effect. Each `IInv`, and `OwingInv`, was checked with TLC on the instances of section 3
before it was proved.

| Module | Theorem | States |
|---|---|---|
| `SchedulerProofs` | `TypeCorrect` | `TypeOK` |
| `SchedulerSafetyProofs` | `Invariant` | `IInv` |
| | `OneCore` | `OneCorePerThread` |
| | `LinkUsedOnce` | `LinkedOnce`: the intrusive link is used at most once |
| | `ReadyIsQueued` | `ReadyIffQueued` |
| | `SavedContext` | `SwitchesToSavedContext` |
| | `NeverPanics` | `ScheduleNeverPanics`: what `schedule()` asserts holds |
| | `ReapedUnreferenced` | `ReapedIsUnreferenced` |
| | `ResumedDelivered` | `ResumedIsDelivered` |
| | `DeferredWakeKept` | `DeferredWakeIsRecorded` |
| `SchedulerRefinementProofs` | `DepartedFinal` | `DepartedNeverReturns`, an action property |
| | `LifecycleImplemented` | `ImplementsLifecycle`, the refinement of `ThreadLifecycle` |
| | `WorkPoked` | `WorkIsPoked`: no SGI is lost |
| `NotificationsProofs` | `AlwaysIInv` | `IInv` |
| | `TypeCorrect` | `TypeOK` |
| | `LinkedExactly` | `LinkedIffParked` |
| | `BoundIsTold` | `BoundThreadIsTold` |
| | `EarliestBounds` | `EarliestIsLowerBound` |
| | `BitsAreKept` | `NoBitLost`, an action property |
| | `DeliveriesAreKept` | `DeliveryIsKept`, an action property |
| | `WalksDeliver` | `ExpiryDelivers`, an action property |
| `MemoryRegionsProofs` | `NextIInv`, `SpecIInv` | `IInv` |
| | `PagesOwnedOnceHolds` | `PagesOwnedOnce` |
| | `ChildrenCountedHolds` | `ChildrenCounted` |
| | `HolesComeBackHolds` | `HolesComeBack` |
| | `NoPageLostHolds` | `NoPageLost` |
| `RevocationProofs` | `NextIInv`, `SpecIInv` | `IInv` |
| | `LogMatchesTablesHolds` | `LogMatchesTables` |
| | `ReclaimedIsUnreachableHolds` | `ReclaimedIsUnreachable` |
| | `OthersKeepTheirsHolds` | `OthersKeepTheirs`, an action property |
| `BootSlotsProofs` | `NextIInv`, `SpecIInv` | `IInv` |
| | `TriesBoundStartsHolds` | `TriesBoundStarts` |
| | `OnlyProvedIsConfirmedHolds` | `OnlyProvedIsConfirmed` |

### Scheduler

Any set of cores, each with an idle thread of its own, and any threads, under
`CoreAssumption`, `ThreadAssumption` and `WaitAssumption`; `TableHolds`, the sets of
threads the table has room for, and `Thief` are arbitrary too.

That a thread is on one core depends on queued threads being off every core; that
depends on `on_cpu` being exact; that depends on `switched_from` being set exactly
from the decision to `finish_switch`. `IInv` is the closure: `LeavingInv`
(`switched_from` and `phase`), `StandingInv` (`on_cpu` is exactly standing on a
core), `QueueInv` and `ReadyInv` (queued is Ready, and off every core but the one
that has just requeued it), `IdleInv`, `ContextInv` (where a saved context is) and
`DeliveryInv` (what a blocked thread's flags say), with the properties themselves.
`SchedulerProofs` has what `Append`, `Tail` and concatenation do to the members of a
queue, the types, and the actions that place, wake, park, start, create, reap and
switch to a thread; `SchedulerSafetyProofs` has `finish_switch`, the decision of
`schedule()`, and the theorems.

The refinement maps a thread to its life by its run state, with one twist: a thread
whose wake was deferred to the core it is leaving is ready from the moment of the
wake, so that `finish_switch`, which later queues it, is a stuttering step. A core
holds its `current` thread, or nobody while it idles. Most actions change the life
of one thread or of none (`OneLifeChanges`, `NoLifeChanges`). `schedule()` changes
two lives and a holder at once, and it is there that `IInv` is needed: the thread
popped from the queue is Ready and, because queued threads are off every core, held
by nobody.

`WorkIsPoked` needs a second invariant, `OwingInv`, on top of `IInv`. An SGI is sent
after the lock is released, by the thread that placed the work or by the handler it
interrupted, so the question is whether the debtor always gets there. `OwingInv` says
it does: whoever owes is in the table and Ready or Running, a user thread is not
switched away from between the placement and the send, a handler that owes goes on to
its send, and no core asks itself for work. That a debt is never forgotten is then a
matter of each step (`PokeSteps`): one that fills an inbox or claims a steal slot
leaves a debt or an SGI, and one that pays a debt raises the SGI.

### Notifications

Any threads, rendezvous, notifications, bits, cores and regions, any finite set of
timers and any bound on the clock (`NotificationsAssumption`).

Every handler keeps four pieces of state in step: handshakes, mailboxes, rendezvous
and notification pages. `Linked` says that a queue holds exactly the threads asleep
where their `wait_on` says, `Told` that a thread bound to a notification that holds a
word is not receiving, `Coupled` that the two ends of a binding agree, and `Mailed`
that whoever sleeps, or is back in its program, has an empty mailbox. None is
inductive alone. A bound delivery finds the thread through `Coupled` and takes it off
a queue through `Linked`; it overwrites nothing because of `Mailed`; and a signal
that finds nobody may leave its bits in the word because `Linked` and `Coupled`
together say that the bound thread is not in a receive, which is `Told` again.

The walk of `expire_timers` calls the signal path any number of times under one hold
of the lock, so what the path does is stated of four arbitrary values and not of the
variables: it takes a `Good` state to a `Good` one (`SignalLocked`). The walk is a
recursive function on finite sets of due timers. That it is well defined, that it
keeps `Good` and delivers each timer's bits, and that no later signal takes them out
again, is shown by looking at a smallest set of timers for which it would fail.
`NotificationsInvariant` has this and what arming, binding, parking and tearing down
do to the pieces; `NotificationsProofs` has one lemma per action, and the theorems.
`EarliestIsLowerBound` is inductive with the types alone. What a core has `seen` plays
no part in it: the cache may be read late, but it is written under the lock.

### Memory regions

Any number of pages but zero, any number of names and slots, any finite set of
callers, each using any of the operations (`RegionsAssumption`).

`PagesOwnedOnce` speaks of sets of pages; `IInv` speaks of intervals, which is what
the code computes with. Every run of pages that somebody holds is `Placed`: it is
not empty, and it lies in its parent, below the watermark and off the pages the
parent retyped, or, without a parent, off the free list. "Somebody" is a live region
or a call that is `Holding` a run no name stands for: one between the frame
allocator and the table, or one between the claim and the return. Runs of one
parent are apart (`SiblingsApart`); each parent counts them (`Counted`); and what a
region spent is below its watermark with a retyped page at its end (`Spent`).

The hard step is the return of a child. The new watermark has to be above every
piece still out. If the child was at the top, it comes down by the child's length,
and every piece apart from it, and the last retyped page, end below it
(`UnbumpFits`). It may come down further, to the end of the last live child, only
when the parent counts as many children as are in the table; then the one returning
is the only one on its way (`LastReturn`), so no piece is above (`CoalescedFits`).
A claim is granted only to a region that counts nothing, so no run is ever left
without its parent (`NothingOut`).

`NoPageLost` is inductive on top of `IInv`. A step loses no page that it leaves with
the same owner (`StillOwned`); the steps that move an owner are the two halves of
`create`, the claim and the last step of a destroy. What these need of `IInv`, besides
the types, is that a name given out was not live and that a run on its way back to a
parent is not the allocator's.

The maximum that `return_to_parent` takes exists because a bounded set of numbers
has one (`MaxIs`, by the least element of the complement).

### Revocation

Any processes, runs and log capacities; addresses are numbers without holes, the
pages of a run are page frames (`RevocationAssumption`).

A page table and its log differ while a call is between two locks. `LogOk` says by
how much: a MAP has entered the page at `VaNow` and not yet recorded it, or is
taking it back. `CallOk` says how far a call's loop has come and that what lies
behind it is mapped consecutively, so that a rollback unmaps its own pages.
`PaidFor` bounds the log. `OneDestroyer` gives the region's claim to one call, and
`Cleared` says what the stages of its destroy have emptied: capabilities, hand-off
slots and copies after the sweep, page tables after the scan that found no victim.
`Cleared` is conditional on `~straddled`, as the property is.

### Boot slots

Any finite set of slots with slot 0 in it, 1 to 15 tries (the field has four bits), and
any number of upgrades, power cuts and I/O errors (`BootAssumption`).

A power cut keeps, range by range, any value written since the last flush. `IInv`
therefore speaks of every table a cut may leave and not only of the one the machine
reads: each is `Sound` (what it marks good has come up; the tries it leaves, added
to the starts made, are within what was granted). A start needs more: before it, no
range may still hold a table with the try it uses, which is what the flush gives
(`Settled`), and while the four writes go out those done already show the try taken.

### Only model-checked

- Liveness (`WokenThreadRuns`, `RegionEmpties`, `TeardownFreesWaiters`,
  `ArmedTimerFires`, `SleeperWakes`, `DestroyCompletes`, `SwapCompletes`, `ComesUp`):
  fairness and ENABLED are out of the prover's reach.
- `ObjectPageIsHeld`: not true of every use of the operations (`regions_shared`).
- Everything about `Ipc` and `LiveSwap`. In `Ipc` the properties depend on what the
  programs do (`ipc_stale_reply` breaks them). In `LiveSwap` they depend on where
  each of seven processes is in each of six fixed programs: an inductive invariant
  would list those places, which is what TLC does; the sequences it would have to
  reason about element by element are bounded only by `REQUESTS`.

## 5. Not modelled

- **Address spaces and ASIDs.** CONFIGURE takes three locks in turn; a model needs
  the registry of spaces and its failure paths. The pages that page tables are made
  of belong here too: `Revocation` lets MAP fail for want of one and does not count
  them.
- **Lock ranking.** Every critical section is one step of a model, so acquiring a
  lock is not a step. The ranks are checked at run time by `sync.rs` itself.
- **Generational names.** The models never reuse a name. What a wrapped generation
  would do is left to the crate's own proofs.
- **Supervisors and the spawner.** Sequential loops over death messages and REAP,
  both of which are in `Ipc`; nothing else runs in their state.
- **An upgrader on the running machine.** There is none yet; see `Upgrade` above.
- **Formats, policies without concurrency, text and pixels, device registers, build
  tools, architecture ports.** Most of the repository by size: file systems, network,
  terminal, shell, drivers, host tools. They are sequential, have unit tests, fuzzers
  or Kani proofs, and nothing in them is a matter of interleavings or crashes that
  the kernel's own models do not already hold.

Worth doing next: the capability table as an abstract module that `Ipc` and
`Revocation` refine; theorems for `Ipc` under a constraint on programs that excludes
the stale reply; a run with two reclaimers once `reclaim_region` holds its claim
across the reap.
