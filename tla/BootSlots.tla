------------------------------ MODULE BootSlots ------------------------------
(***************************************************************************)
(* Two boot slots and the rollback of an upgrade that does not come up:    *)
(* the policy (crates/boot_slot), the chooser that picks a slot before the *)
(* kernel runs (uefi_loader/src/chooser.rs) and the confirmation a boot    *)
(* that came up writes (components/src/installer.rs, ROLE_CONFIRM).        *)
(*                                                                         *)
(* The slots' state lives in the partition table, which the disk holds     *)
(* twice, each copy an entry array and a header with the array's checksum. *)
(* The four are written one after the other through a write cache: a power *)
(* cut keeps, of each range, any of the values written since the last      *)
(* flush, or the one before them.  The block of an array that changes is   *)
(* one sector, so a range is never half written.                           *)
(***************************************************************************)
EXTENDS Naturals, Sequences, FiniteSets

CONSTANTS
    Slot,         \* the boot slots, numbered from 0 in table order
    TRIES,        \* TRIAL_TRIES, the boots an upgrade is given to prove itself
    MaxUpgrades,  \* bound: upgrades written
    MaxCuts,      \* bound: power cuts while the machine is doing something
    MaxGlitches   \* bound: refused reads and writes, and images that would not load

ASSUME BootAssumption ==
    /\ 0 \in Slot /\ Slot \subseteq Nat /\ IsFiniteSet(Slot)
    /\ TRIES \in 1 .. 15
    /\ {MaxUpgrades, MaxCuts, MaxGlitches} \subseteq Nat

VARIABLES
    durable,    \* durable[r]: what range r holds after a power cut
    written,    \* written[r]: what was written to range r since the last flush
    image,      \* image[s]: how the image in slot s behaves
    pc,         \* what the machine is doing
    step,       \* the next write of write_back or confirm
    states,     \* Disk::states of the chooser, or the table confirm writes
    slot,       \* the slot at hand, then the slot this boot was started from
    tried,      \* the chooser's tried bits
    starts,     \* starts[s]: the times slot s was started before it was confirmed,
                \*   counted up to TRIES + 1
    proved,     \* the slots whose present image has come up once
    upgrades, cuts, glitches   \* what the bounds count

diskVars  == <<durable, written>>
countVars == <<upgrades, cuts, glitches>>
ghostVars == <<starts, proved>>
vars == <<diskVars, image, pc, step, states, slot, tried, ghostVars, countVars>>

Range4  == {"primary_array", "primary_header", "backup_array", "backup_header"}
Quality == {"good", "hangs", "returns", "torn"}

------------------------------------------------------------------------------
(* boot_slot::State.                                                        *)

MAX_NIBBLE         == 15
INSTALLED_PRIORITY == 2
TRIAL_PRIORITY     == 3

State(p, t, s) == [priority |-> p, tries |-> t, successful |-> s]

EMPTY     == State(0, 0, FALSE)
installed == State(INSTALLED_PRIORITY, 0, TRUE)

on_trial(priority, tries) ==
    LET sat(n) == IF n > MAX_NIBBLE THEN MAX_NIBBLE ELSE n
    IN  State(sat(priority), sat(tries), FALSE)

is_bootable(s) == s.priority > 0 /\ (s.successful \/ s.tries > 0)

\* Mutant: a try is counted only where there is more than one left.
attempted_keeps_last(s) ==
    IF s.successful \/ s.tries <= 1 THEN s ELSE [s EXCEPT !.tries = @ - 1]

attempted(s) ==
    IF s.successful \/ s.tries = 0 THEN s ELSE [s EXCEPT !.tries = @ - 1]

confirmed(s)  == State(s.priority, 0, TRUE)
unreadable(s) == State(0, 0, FALSE)

\* select_excluding: highest priority, then lowest index; {} when there is none.
select_excluding(ss, excluded) ==
    LET ok == {s \in DOMAIN ss \ excluded : is_bootable(ss[s])}
    IN  {s \in ok : \A o \in ok : \/ ss[s].priority > ss[o].priority
                                  \/ ss[s].priority = ss[o].priority /\ s <= o}

------------------------------------------------------------------------------
(* The disk.  A header is modelled by the array whose checksum it carries.  *)

Visible(r) == IF written[r] = <<>> THEN durable[r] ELSE written[r][Len(written[r])]

\* GloballyUniqueIdentifierPartitionTable::parse, of the copy the chooser reads.
PrimaryParses == Visible("primary_header") = Visible("primary_array")

Write(r, table) == written' = [written EXCEPT ![r] = Append(@, table)] /\ UNCHANGED durable

Flush ==
    /\ durable' = [r \in Range4 |-> Visible(r)]
    /\ written' = [r \in Range4 |-> <<>>]

\* What was written to range r since the last flush.
Unflushed(r) == {written[r][i] : i \in DOMAIN written[r]}

\* Power goes: of every range one of the values it may hold by now survives.
Lose ==
    /\ durable' \in {d \in [Range4 -> UNION {{durable[r]} \cup Unflushed(r) : r \in Range4}] :
                        \A r \in Range4 : d[r] \in {durable[r]} \cup Unflushed(r)}
    /\ written' = [r \in Range4 |-> <<>>]

Glitch == glitches < MaxGlitches /\ glitches' = glitches + 1

Goto(where) == pc' = where

Init ==
    \* as install leaves it: the image in slot 0 is the one that is running
    LET table == [s \in Slot |-> IF s = 0 THEN installed ELSE EMPTY] IN
    /\ durable = [r \in Range4 |-> table] /\ written = [r \in Range4 |-> <<>>]
    /\ image = [s \in Slot |-> IF s = 0 THEN "good" ELSE "torn"]
    /\ pc = "off" /\ step = 1 /\ states = table /\ slot = 0 /\ tried = {}
    /\ starts = [s \in Slot |-> 0] /\ proved = {0}
    /\ upgrades = 0 /\ cuts = 0 /\ glitches = 0

------------------------------------------------------------------------------
(* The chooser.                                                             *)

\* the_disk_with_slots and read_table: the primary copy only.  A table that
\* does not parse, a read that fails and a second disk with slots all end in the
\* image of the chooser's own file.
PowerOn ==
    /\ pc = "off"
    /\ tried' = {}
    /\ \/ /\ PrimaryParses
          /\ states' = Visible("primary_array")
          /\ Goto("choose")
          /\ UNCHANGED glitches
       \/ /\ \/ ~PrimaryParses /\ UNCHANGED glitches
             \/ Glitch
          /\ Goto("own")
          /\ UNCHANGED states
    /\ UNCHANGED <<diskVars, image, step, slot, ghostVars, upgrades, cuts>>

\* The head of choose()'s loop: pick a slot and spend a try of it, or give up
\* and start the image in the chooser's own file.
Choose ==
    /\ pc = "choose"
    /\ \/ /\ select_excluding(states, tried) = {}
          /\ Goto("own")
          /\ UNCHANGED <<states, slot, step>>
       \/ \E s \in select_excluding(states, tried) :
             /\ slot' = s
             /\ states' = [states EXCEPT ![s] = attempted(@)]
             /\ Goto(IF attempted(states[s]) # states[s] THEN "spend" ELSE "start")
             /\ step' = 1
    /\ UNCHANGED <<diskVars, image, tried, ghostVars, countVars>>

\* The order of Disk::write_back, which ends in a flush.
ChooserOrder == <<"primary_array", "backup_array", "backup_header", "primary_header">>

\* Mutant: no flush after the four writes.
WriteBackDone_unflushed == UNCHANGED diskVars

WriteBackDone == Flush

\* Where choose() goes on when write_back has returned ok.
AfterWriteBack(ok) ==
    IF pc = "giveup" THEN "choose" ELSE IF ok THEN "start" ELSE "own"

WriteBack ==
    /\ pc \in {"spend", "giveup"}
    /\ \/ /\ step <= 4
          /\ Write(ChooserOrder[step], states)
          /\ step' = step + 1
          /\ UNCHANGED <<pc, glitches>>
       \/ /\ step = 5
          /\ WriteBackDone
          /\ Goto(AfterWriteBack(TRUE))
          /\ UNCHANGED <<step, glitches>>
       \/ /\ Glitch
          /\ Goto(AfterWriteBack(FALSE))
          /\ UNCHANGED <<diskVars, step>>
    /\ UNCHANGED <<image, states, slot, tried, ghostVars, upgrades, cuts>>

\* Disk::start: a slot that cannot be read or loaded is given up on; an image
\* that starts comes back, hangs, or brings the system up.
Start ==
    /\ pc = "start"
    /\ tried' = tried \cup {slot}
    /\ \/ /\ \/ image[slot] = "torn" /\ UNCHANGED glitches
             \/ Glitch
          /\ states' = [states EXCEPT ![slot] = unreadable(@)]
          /\ step' = 1
          /\ Goto("giveup")
          /\ UNCHANGED <<starts, proved>>
       \/ /\ image[slot] # "torn"
          /\ starts' = [starts EXCEPT ![slot] =
                          IF states[slot].successful \/ @ > TRIES THEN @ ELSE @ + 1]
          /\ proved' = IF image[slot] = "good" THEN proved \cup {slot} ELSE proved
          /\ Goto(CASE image[slot] = "returns" -> "choose"
                    [] image[slot] = "hangs"   -> "hung"
                    [] image[slot] = "good"    -> "up")
          /\ UNCHANGED <<states, step, glitches>>
    /\ UNCHANGED <<diskVars, image, slot, upgrades, cuts>>

------------------------------------------------------------------------------
(* The confirmation, once the filesystem is mounted.                        *)

\* Mutant: the slot that would be chosen now, not the one this boot came from.
ConfirmedSlot_chosen(table) ==
    LET chosen == select_excluding(table, {})
    IN  IF chosen = {} THEN slot ELSE CHOOSE s \in chosen : TRUE

\* The slot the chooser put on the kernel's command line.
ConfirmedSlot(table) == slot

\* install_service::confirm and the first half of ROLE_CONFIRM.  The slot's
\* number may not have reached the image (tell_it_which_slot), the table may
\* not parse, or the slot is confirmed already: nothing is written.
Confirm ==
    /\ pc = "up"
    /\ LET table == Visible("primary_array")
           s     == ConfirmedSlot(table)
       IN  \/ /\ PrimaryParses /\ ~table[s].successful
              /\ states' = [table EXCEPT ![s] = confirmed(@)]
              /\ Goto("confirm")
              /\ step' = 1
              /\ UNCHANGED glitches
           \/ /\ \/ Glitch
                 \/ (PrimaryParses => table[s].successful) /\ UNCHANGED glitches
              /\ Goto("done")
              /\ UNCHANGED <<states, step>>
    /\ UNCHANGED <<diskVars, image, slot, tried, ghostVars, upgrades, cuts>>

\* The backup, complete, before the primary is touched.  No flush follows.
ConfirmOrder == <<"backup_array", "backup_header", "primary_array", "primary_header">>

ConfirmWrite ==
    /\ pc = "confirm"
    /\ \/ /\ Write(ConfirmOrder[step], states)
          /\ step' = step + 1
          /\ Goto(IF step = 4 THEN "done" ELSE "confirm")
          /\ UNCHANGED glitches
       \/ /\ Glitch
          /\ Goto("done")
          /\ UNCHANGED <<diskVars, step>>
    /\ UNCHANGED <<image, states, slot, tried, ghostVars, upgrades, cuts>>

------------------------------------------------------------------------------
(* The machine's surroundings.                                              *)

\* A machine that hangs, and one that is up, is switched off in the end.
Reset ==
    /\ pc \in {"hung", "done", "own"}
    /\ Lose
    /\ Goto("off")
    /\ UNCHANGED <<image, step, states, slot, tried, ghostVars, countVars>>

\* The filesystem server, a client of the same disk, flushes it: before, between
\* or after the confirmation's writes.
Sync ==
    /\ pc \in {"up", "confirm", "done"}
    /\ \E r \in Range4 : written[r] # <<>>
    /\ Flush
    /\ UNCHANGED <<image, pc, step, states, slot, tried, ghostVars, countVars>>

\* Power goes in the middle of something.
PowerCut ==
    /\ pc \notin {"off", "hung", "done", "own"}
    /\ cuts < MaxCuts /\ cuts' = cuts + 1
    /\ Lose
    /\ Goto("off")
    /\ UNCHANGED <<image, step, states, slot, tried, ghostVars, upgrades, glitches>>

\* stage_an_upgrade: with the machine off, an image goes into the second of two
\* slots and both copies of the table put it on trial.  The tool that calls it
\* starts no machine when one of its writes fails, so they are one step.
Upgrade(s, quality) ==
    /\ pc = "off" /\ PrimaryParses
    /\ Slot = {0, s} /\ s # 0
    /\ upgrades < MaxUpgrades /\ upgrades' = upgrades + 1
    /\ durable' = [r \in Range4 |->
          [durable["primary_array"] EXCEPT ![s] = on_trial(TRIAL_PRIORITY, TRIES)]]
    /\ image' = [image EXCEPT ![s] = quality]
    /\ starts' = [starts EXCEPT ![s] = 0]
    /\ proved' = proved \ {s}
    /\ UNCHANGED <<written, pc, step, states, slot, tried, cuts, glitches>>

------------------------------------------------------------------------------
Machine == PowerOn \/ Choose \/ WriteBack \/ Start \/ Confirm \/ ConfirmWrite \/ Reset

Next ==
    \/ Machine
    \/ Sync
    \/ PowerCut
    \/ \E s \in Slot, quality \in Quality : Upgrade(s, quality)

Spec == Init /\ [][Next]_vars

\* The firmware and the kernel run on; somebody, or a watchdog, resets a
\* machine that hangs.
FairSpec == Spec /\ WF_vars(Machine)

(* Properties.                                                              *)

\* An upgrade that is never confirmed is started TRIES times at most, whatever
\* power cuts fall between the writes of a try: the try is on the disk before
\* the image runs (write_back's flush, and choose()'s break when it fails).
TriesBoundStarts == \A s \in Slot : starts[s] <= TRIES

\* A slot is marked good only if the image in it has come up: confirm() marks
\* the slot this boot was started from, on the table as it is now.
OnlyProvedIsConfirmed ==
    PrimaryParses =>
        \A s \in Slot : Visible("primary_array")[s].successful => s \in proved

\* No upgrade bricks the machine: it is brought up again and again, by an image
\* that works, with nobody choosing one for it.
ComesUp == []<>(pc \in {"up", "own"})

==============================================================================
