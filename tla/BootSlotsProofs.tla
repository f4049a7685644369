--------------------------- MODULE BootSlotsProofs ---------------------------
(***************************************************************************)
(* Proofs about BootSlots, for any set of slots, any number of tries,      *)
(* upgrades, power cuts and refused writes.                                *)
(*                                                                         *)
(* A power cut picks, range by range, among the values written since the   *)
(* last flush.  So the inductive invariant speaks of every table a cut may *)
(* leave, not of the one the machine reads: each is Sound, that is, what   *)
(* it marks good has come up and the tries it leaves a slot, added to the  *)
(* starts that slot has had, are no more than an upgrade is given.  A      *)
(* start is paid for when no table left anywhere still has the try it used. *)
(***************************************************************************)
EXTENDS BootSlots, TLAPS

SlotState == [priority : Nat, tries : 0 .. TRIES, successful : BOOLEAN]
Table     == [Slot -> SlotState]

TypeOK ==
    /\ durable \in [Range4 -> Table]
    /\ written \in [Range4 -> Seq(Table)]
    /\ image \in [Slot -> Quality]
    /\ states \in Table
    /\ slot \in Slot
    /\ starts \in [Slot -> Nat]
    /\ proved \subseteq Slot
    /\ step \in Nat
    /\ pc \in {"off", "choose", "spend", "giveup", "start", "up", "hung", "own",
               "confirm", "done"}

\* What a table may say of the slots.
Sound(table) ==
    \A s \in Slot :
        IF table[s].successful THEN s \in proved
        ELSE table[s].tries + starts[s] <= TRIES

\* Every table a power cut may leave in a range.
DiskSound ==
    \A r \in Range4 :
        /\ Sound(durable[r])
        /\ \A i \in 1 .. Len(written[r]) : Sound(written[r][i])

\* The machine holds a copy of the table it read.
HoldsTable == pc \in {"choose", "spend", "giveup", "start", "confirm"}

\* The slot at hand is on trial and the chooser has taken a try off it.
Spending == pc = "spend" \/ (pc = "start" /\ ~states[slot].successful)

\* The try that the next start uses is still counted as left.
Reserved == ~states[slot].successful /\ states[slot].tries + starts[slot] + 1 <= TRIES

Settled == \A r \in Range4 : written[r] = <<>>

IInv ==
    /\ TypeOK
    /\ TriesBoundStarts
    /\ DiskSound
    /\ HoldsTable => Sound(states)
    /\ Spending => Reserved
    /\ pc \in {"spend", "giveup"} => step \in 1 .. 5
    /\ pc = "confirm" => step \in 1 .. 4
    /\ pc = "spend" => \A i \in 1 .. (step - 1) : Visible(ChooserOrder[i]) = states
    /\ pc = "start" /\ ~states[slot].successful =>
          Settled /\ \A r \in Range4 : durable[r] = states
    /\ pc = "off" => Settled
    /\ pc \in {"up", "confirm"} => slot \in proved

------------------------------------------------------------------------------
(* The disk.                                                                *)

\* What a reader of a range sees is well formed and sound.
LEMMA VisibleSound ==
  ASSUME TypeOK, NEW r \in Range4
  PROVE  /\ Visible(r) \in Table
         /\ DiskSound => Sound(Visible(r))
<1>1. CASE written[r] = <<>>
  BY <1>1, Zenon DEF Visible, TypeOK, DiskSound
<1>2. CASE written[r] # <<>>
  <2>1. written[r] \in Seq(Table)
    BY Zenon DEF TypeOK
  <2>2. Len(written[r]) \in 1 .. Len(written[r]) /\ written[r][Len(written[r])] \in Table
    BY <1>2, <2>1
  <2>3. Visible(r) = written[r][Len(written[r])]
    BY <1>2, Zenon DEF Visible
  <2> QED BY <2>2, <2>3, Zenon DEF DiskSound
<1> QED BY <1>1, <1>2, Zenon

\* One write leaves the other ranges alone and is what its own then shows.
LEMMA WriteKeeps ==
  ASSUME TypeOK, DiskSound, NEW r \in Range4, NEW table \in Table,
         Write(r, table), Sound(table), UNCHANGED ghostVars
  PROVE  /\ durable' \in [Range4 -> Table]
         /\ written' \in [Range4 -> Seq(Table)]
         /\ DiskSound'
         /\ Visible(r)' = table
         /\ \A o \in Range4 \ {r} : Visible(o)' = Visible(o)
<1> DEFINE W == written[r]
           A == Append(W, table)
<1>1. W \in Seq(Table)
  BY Zenon DEF TypeOK
<1>2. /\ A \in Seq(Table) /\ Len(A) = Len(W) + 1 /\ A[Len(A)] = table
      /\ \A i \in 1 .. Len(W) : A[i] = W[i]
      /\ A # <<>> /\ Len(W) \in Nat
  BY <1>1
<1>3. /\ durable' = durable
      /\ written' = [written EXCEPT ![r] = A]
  BY Zenon DEF Write
<1> HIDE DEF A
<1>4. /\ durable' \in [Range4 -> Table]
      /\ written' \in [Range4 -> Seq(Table)]
      /\ written'[r] = A
      /\ \A o \in Range4 \ {r} : written'[o] = written[o]
  BY <1>2, <1>3, Zenon DEF TypeOK
<1>6. \A i \in 1 .. Len(A) : Sound(A[i])
  <2> SUFFICES ASSUME NEW i \in 1 .. Len(A) PROVE Sound(A[i])
    BY Zenon
  <2>1. i \in 1 .. Len(W) \/ i = Len(A)
    BY <1>2
  <2> QED BY <1>2, <2>1, Zenon DEF DiskSound
<1>7. starts' = starts /\ proved' = proved
  BY Zenon DEF ghostVars
<1>8. DiskSound'
  BY <1>3, <1>4, <1>6, <1>7 DEF DiskSound, Sound
<1>9. Visible(r)' = table /\ \A o \in Range4 \ {r} : Visible(o)' = Visible(o)
  BY <1>2, <1>3, <1>4, Zenon DEF Visible
<1> QED BY <1>4, <1>8, <1>9, Zenon

\* A flush leaves each range what it showed.
LEMMA FlushKeeps ==
  ASSUME TypeOK, Flush
  PROVE  /\ durable' \in [Range4 -> Table]
         /\ written' \in [Range4 -> Seq(Table)]
         /\ Settled'
         /\ \A r \in Range4 : durable'[r] = Visible(r)
         /\ DiskSound /\ UNCHANGED ghostVars => DiskSound'
<1>1. durable' = [r \in Range4 |-> Visible(r)] /\ written' = [r \in Range4 |-> <<>>]
  BY Zenon DEF Flush
<1>2. durable' \in [Range4 -> Table]
  BY <1>1, VisibleSound, Zenon
<1>3. <<>> \in Seq(Table) /\ Len(<<>>) = 0
  OBVIOUS
<1>4. written' \in [Range4 -> Seq(Table)] /\ \A r \in Range4 : written'[r] = <<>>
  BY <1>1, <1>3, Zenon
<1>5. ASSUME DiskSound, UNCHANGED ghostVars PROVE DiskSound'
  <2>1. \A r \in Range4 : Sound(Visible(r))
    BY <1>5, VisibleSound, Zenon
  <2>2. starts' = starts /\ proved' = proved
    BY <1>5, Zenon DEF ghostVars
  <2>3. \A r \in Range4 : \A i \in 1 .. Len(written'[r]) : FALSE
    BY <1>3, <1>4
  <2>4. \A r \in Range4 : durable'[r] = Visible(r)
    BY <1>1, Zenon
  <2> QED BY <2>1, <2>2, <2>3, <2>4, Zenon DEF DiskSound, Sound
<1> QED BY <1>1, <1>2, <1>4, <1>5, Zenon DEF Settled

\* A power cut leaves in each range a table that was there.
LEMMA LoseKeeps ==
  ASSUME TypeOK, DiskSound, Lose, UNCHANGED ghostVars
  PROVE  /\ durable' \in [Range4 -> Table]
         /\ written' \in [Range4 -> Seq(Table)]
         /\ Settled'
         /\ DiskSound'
<1>1. /\ DOMAIN durable' = Range4 /\ durable' = [r \in Range4 |-> durable'[r]]
      /\ \A r \in Range4 : durable'[r] = durable[r] \/ durable'[r] \in Unflushed(r)
      /\ written' = [r \in Range4 |-> <<>>]
  BY Zenon DEF Lose
<1>2. \A r \in Range4 : durable'[r] \in Table /\ Sound(durable'[r])
  <2> SUFFICES ASSUME NEW r \in Range4
               PROVE  durable'[r] \in Table /\ Sound(durable'[r])
    BY Zenon
  <2>1. CASE durable'[r] = durable[r]
    BY <2>1, Zenon DEF TypeOK, DiskSound
  <2>2. CASE durable'[r] \in Unflushed(r)
    <3>1. written[r] \in Seq(Table)
      BY Zenon DEF TypeOK
    <3>2. PICK i \in 1 .. Len(written[r]) : durable'[r] = written[r][i]
      BY <2>2, <3>1 DEF Unflushed
    <3> QED BY <3>1, <3>2 DEF DiskSound
  <2> QED BY <1>1, <2>1, <2>2, Zenon
<1>3. <<>> \in Seq(Table) /\ Len(<<>>) = 0
  OBVIOUS
<1>4. \A r \in Range4 : \A i \in 1 .. Len(written'[r]) : FALSE
  BY <1>1, <1>3
<1>5. starts' = starts /\ proved' = proved
  BY Zenon DEF ghostVars
<1>6. DiskSound'
  BY <1>2, <1>4, <1>5, Zenon DEF DiskSound, Sound
<1> QED BY <1>1, <1>2, <1>3, <1>6, Zenon DEF Settled

------------------------------------------------------------------------------
(* The steps of the machine.                                                *)

\* The state install leaves is sound: the image in slot 0 is the one running.
LEMMA InitIInv == Init => IInv
<1> SUFFICES ASSUME Init PROVE IInv
  BY Zenon
<1> DEFINE table == [s \in Slot |-> IF s = 0 THEN installed ELSE EMPTY]
<1>1. /\ installed \in SlotState /\ EMPTY \in SlotState
      /\ installed.successful = TRUE /\ EMPTY.successful = FALSE /\ EMPTY.tries = 0
  BY BootAssumption DEF installed, EMPTY, State, SlotState, INSTALLED_PRIORITY
<1>2. table \in Table
  BY <1>1, Zenon DEF Table
<1>3. /\ durable = [r \in Range4 |-> table] /\ written = [r \in Range4 |-> <<>>]
      /\ states = table /\ starts = [s \in Slot |-> 0] /\ proved = {0}
      /\ slot = 0 /\ pc = "off" /\ step = 1
      /\ image = [s \in Slot |-> IF s = 0 THEN "good" ELSE "torn"]
  BY Zenon DEF Init
<1>4. Sound(table)
  <2>1. TRIES \in Nat
    BY BootAssumption
  <2>2. \A s \in Slot : s # 0 => ~table[s].successful /\ table[s].tries + starts[s] <= TRIES
    <3>1. \A s \in Slot : s # 0 => table[s] = EMPTY /\ starts[s] = 0
      BY <1>3, Zenon
    <3> HIDE DEF table
    <3> QED BY <1>1, <2>1, <3>1
  <2>3. \A s \in Slot : s = 0 => table[s].successful /\ s \in proved
    BY <1>1, <1>3, Zenon
  <2> QED BY <2>2, <2>3, Zenon DEF Sound
<1> HIDE DEF table
<1>5. <<>> \in Seq(Table) /\ Len(<<>>) = 0
  OBVIOUS
<1>6. TypeOK
  BY <1>2, <1>3, <1>5, BootAssumption, Zenon DEF TypeOK, Quality
<1>7. DiskSound
  BY <1>3, <1>4, <1>5 DEF DiskSound
<1>8. TriesBoundStarts
  BY <1>3, BootAssumption DEF TriesBoundStarts
<1> QED BY <1>3, <1>6, <1>7, <1>8, Zenon DEF IInv, HoldsTable, Spending, Settled

\* read_table takes a copy of a table that is sound.
LEMMA PowerOnKeeps == IInv /\ PowerOn => IInv'
<1> SUFFICES ASSUME IInv, PowerOn PROVE IInv'
  BY Zenon
<1>1. /\ UNCHANGED <<durable, written, image, step, slot, starts, proved>>
      /\ \/ states' = Visible("primary_array") /\ pc' = "choose"
         \/ states' = states /\ pc' = "own"
  BY Zenon DEF PowerOn, Goto, diskVars, ghostVars
<1>2. Visible("primary_array") \in Table /\ Sound(Visible("primary_array"))
  BY VisibleSound, Zenon DEF IInv, Range4
<1>3. TypeOK'
  BY <1>1, <1>2, Zenon DEF IInv, TypeOK
<1>4. DiskSound' /\ TriesBoundStarts'
  BY <1>1, Zenon DEF IInv, DiskSound, Sound, TriesBoundStarts
<1>5. HoldsTable' => Sound(states)'
  BY <1>1, <1>2, Zenon DEF Sound, HoldsTable
<1> QED BY <1>1, <1>3, <1>4, <1>5, Zenon DEF IInv, Spending

\* What the chooser may pick has a try left, or has been confirmed.
LEMMA Attempt ==
  ASSUME NEW x \in SlotState, is_bootable(x)
  PROVE  /\ attempted(x) \in SlotState
         /\ attempted(x).successful = x.successful
         /\ x.successful => attempted(x) = x
         /\ ~x.successful => attempted(x).tries = x.tries - 1 /\ attempted(x) # x
<1>1. /\ x = [priority |-> x.priority, tries |-> x.tries, successful |-> x.successful]
      /\ x.tries \in 0 .. TRIES /\ x.successful \in BOOLEAN
  BY Zenon DEF SlotState
<1>2. CASE x.successful
  BY <1>2, Zenon DEF attempted
<1>3. CASE ~x.successful
  <2>1. x.tries > 0
    BY <1>3, Zenon DEF is_bootable
  <2>2. attempted(x) = [x EXCEPT !.tries = @ - 1]
    BY <1>1, <1>3, <2>1 DEF attempted
  <2>3. x.tries - 1 \in 0 .. TRIES /\ x.tries - 1 # x.tries
    BY <1>1, <2>1, BootAssumption
  <2> QED BY <1>3, <2>2, <2>3, Zenon DEF SlotState
<1> QED BY <1>2, <1>3, Zenon

\* choose() takes a try off the copy of a slot on trial before it is started.
LEMMA ChooseKeeps == IInv /\ Choose => IInv'
<1> SUFFICES ASSUME IInv, Choose PROVE IInv'
  BY Zenon
<1>1. pc = "choose" /\ UNCHANGED <<durable, written, image, starts, proved>>
  BY Zenon DEF Choose, diskVars, ghostVars
<1>2. TypeOK /\ DiskSound /\ TriesBoundStarts /\ Sound(states)
  BY <1>1, Zenon DEF IInv, HoldsTable
<1>3. DiskSound' /\ TriesBoundStarts'
  BY <1>1, <1>2, Zenon DEF DiskSound, Sound, TriesBoundStarts
<1>4. CASE pc' = "own" /\ UNCHANGED <<states, slot, step>>
  <2>1. TypeOK'
    BY <1>1, <1>2, <1>4, Zenon DEF TypeOK
  <2> QED BY <1>3, <1>4, <2>1, Zenon DEF IInv, HoldsTable, Spending
<1>5. ASSUME NEW s \in select_excluding(states, tried),
             slot' = s,
             states' = [states EXCEPT ![s] = attempted(states[s])],
             pc' = IF attempted(states[s]) # states[s] THEN "spend" ELSE "start",
             step' = 1
      PROVE  IInv'
  <2>1. s \in Slot /\ is_bootable(states[s]) /\ states[s] \in SlotState
    BY <1>2, <1>5, Zenon DEF select_excluding, TypeOK, Table
  <2>2. /\ attempted(states[s]) \in SlotState
        /\ attempted(states[s]).successful = states[s].successful
        /\ states[s].successful => attempted(states[s]) = states[s]
        /\ ~states[s].successful =>
              attempted(states[s]).tries = states[s].tries - 1
              /\ attempted(states[s]) # states[s]
    BY <2>1, Attempt, Zenon
  <2>3. /\ states' \in Table /\ states'[s] = attempted(states[s])
        /\ \A o \in Slot \ {s} : states'[o] = states[o]
    BY <1>2, <1>5, <2>1, <2>2, Zenon DEF TypeOK, Table
  <2>4. TypeOK'
    BY <1>1, <1>2, <1>5, <2>1, <2>3, Zenon DEF TypeOK
  <2>5. /\ states[s].tries \in 0 .. TRIES /\ starts \in [Slot -> Nat]
    BY <1>2, <2>1, Zenon DEF TypeOK, SlotState
  <2>6. ~states[s].successful => states[s].tries + starts[s] <= TRIES
    BY <1>2, <2>1, Zenon DEF Sound
  <2>7. Sound(states)'
    <3> SUFFICES ASSUME NEW o \in Slot
                 PROVE  IF states'[o].successful THEN o \in proved
                        ELSE states'[o].tries + starts[o] <= TRIES
      BY <1>1, Zenon DEF Sound
    <3>1. CASE o # s
      BY <1>2, <2>3, <3>1, Zenon DEF Sound
    <3>2. CASE o = s
      <4>1. CASE states[s].successful
        BY <1>2, <2>1, <2>2, <2>3, <3>2, <4>1, Zenon DEF Sound
      <4>2. CASE ~states[s].successful
        BY <2>1, <2>2, <2>3, <2>5, <2>6, <3>2, <4>2, BootAssumption
      <4> QED BY <4>1, <4>2, Zenon
    <3> QED BY <3>1, <3>2, Zenon
  <2>8. CASE states[s].successful
    <3>1. pc' = "start" /\ states'[slot'].successful
      BY <1>5, <2>2, <2>3, <2>8, Zenon
    <3> QED BY <1>3, <2>4, <2>7, <3>1, Zenon DEF IInv, Spending
  <2>9. CASE ~states[s].successful
    <3>1. pc' = "spend" /\ ~states'[slot'].successful
      BY <1>5, <2>2, <2>3, <2>9, Zenon
    <3>2. states'[slot'].tries + starts'[slot'] + 1 <= TRIES
      BY <1>1, <1>5, <2>1, <2>2, <2>3, <2>5, <2>6, <2>9, BootAssumption
    <3>3. Reserved'
      BY <3>1, <3>2, Zenon DEF Reserved
    <3>4. step' \in 1 .. 5 /\ \A i \in 1 .. (step' - 1) : FALSE
      BY <1>5
    <3> QED BY <1>3, <2>4, <2>7, <3>1, <3>3, <3>4, Zenon DEF IInv
  <2> QED BY <2>8, <2>9, Zenon
<1> QED BY <1>4, <1>5, Zenon DEF Choose, Goto

\* The four writes go to four ranges, and the flush follows the last.
LEMMA Orders ==
  /\ \A i \in 1 .. 4 : ChooserOrder[i] \in Range4 /\ ConfirmOrder[i] \in Range4
  /\ \A r \in Range4 : \E i \in 1 .. 4 : ChooserOrder[i] = r
<1>1. \A i \in 1 .. 4 : i = 1 \/ i = 2 \/ i = 3 \/ i = 4
  OBVIOUS
<1>2. 1 \in 1 .. 4 /\ 2 \in 1 .. 4 /\ 3 \in 1 .. 4 /\ 4 \in 1 .. 4
  OBVIOUS
<1> QED BY <1>1, <1>2 DEF ChooserOrder, ConfirmOrder, Range4

\* write_back puts the copy in the four ranges one by one; its flush leaves the
\* copy, and nothing else, for a power cut to find.
LEMMA WriteBackKeeps == IInv /\ WriteBack => IInv'
<1> SUFFICES ASSUME IInv, WriteBack PROVE IInv'
  BY Zenon
<1>1. /\ pc \in {"spend", "giveup"}
      /\ UNCHANGED <<image, states, slot, starts, proved>>
  BY Zenon DEF WriteBack, ghostVars
<1>2. /\ TypeOK /\ DiskSound /\ TriesBoundStarts /\ Sound(states) /\ step \in 1 .. 5
      /\ states \in Table
  BY <1>1, Zenon DEF IInv, HoldsTable, TypeOK
<1>3. TriesBoundStarts' /\ Sound(states)'
  BY <1>1, <1>2, Zenon DEF Sound, TriesBoundStarts
<1>4. Spending => Reserved /\ Reserved'
  BY <1>1, Zenon DEF IInv, Reserved
<1>5. CASE step <= 4 /\ Write(ChooserOrder[step], states) /\ step' = step + 1 /\ pc' = pc
  <2>0. step \in 1 .. 4 /\ ChooserOrder[step] \in Range4
    BY <1>2, <1>5, Orders
  <2>1. PICK r \in Range4 : r = ChooserOrder[step]
    BY <2>0, Zenon
  <2>2. /\ durable' \in [Range4 -> Table] /\ written' \in [Range4 -> Seq(Table)]
        /\ DiskSound'
        /\ Visible(r)' = states
        /\ \A o \in Range4 \ {r} : Visible(o)' = Visible(o)
    BY <1>1, <1>2, <1>5, <2>1, WriteKeeps, Zenon DEF ghostVars
  <2>3. TypeOK'
    BY <1>1, <1>2, <1>5, <2>2 DEF TypeOK
  <2>4. step' \in 1 .. 5 /\ step' - 1 = step
    BY <1>5, <2>0
  <2>5. ASSUME pc = "spend", NEW i \in 1 .. step
        PROVE  Visible(ChooserOrder[i])' = states
    <3>1. CASE ChooserOrder[i] = r
      BY <2>2, <3>1, Zenon
    <3>2. CASE ChooserOrder[i] # r
      <4>1. i \in 1 .. (step - 1) /\ i \in 1 .. 4
        BY <2>0, <2>1, <2>5, <3>2
      <4>2. Visible(ChooserOrder[i]) = states
        BY <2>5, <4>1, Zenon DEF IInv
      <4>3. ChooserOrder[i] \in Range4 \ {r}
        BY <3>2, <4>1, Orders, Zenon
      <4> QED BY <2>2, <4>2, <4>3, Zenon
    <3> QED BY <3>1, <3>2, Zenon
  <2>6. pc' = "spend" => \A i \in 1 .. (step' - 1) : Visible(ChooserOrder[i])' = states'
    BY <1>1, <1>5, <2>4, <2>5, Zenon
  <2>7. Spending' => Reserved'
    BY <1>1, <1>4, <1>5, Zenon DEF Spending
  <2> QED BY <1>1, <1>3, <1>5, <2>2, <2>3, <2>4, <2>6, <2>7, Zenon DEF IInv
<1>6. CASE step = 5 /\ Flush /\ pc' = AfterWriteBack(TRUE) /\ step' = step
  <2>1. /\ durable' \in [Range4 -> Table] /\ written' \in [Range4 -> Seq(Table)]
        /\ Settled' /\ DiskSound'
        /\ \A r \in Range4 : durable'[r] = Visible(r)
    BY <1>1, <1>2, <1>6, FlushKeeps, Zenon DEF ghostVars
  <2>2. CASE pc = "giveup"
    <3>1. pc' = "choose"
      BY <1>6, <2>2, Zenon DEF AfterWriteBack
    <3>2. TypeOK'
      BY <1>1, <1>2, <1>6, <2>1, <3>1, Zenon DEF TypeOK
    <3> QED BY <1>3, <2>1, <3>1, <3>2, Zenon DEF IInv, Spending
  <2>3. CASE pc = "spend"
    <3>1. pc' = "start"
      BY <1>6, <2>3, Zenon DEF AfterWriteBack
    <3>2. TypeOK'
      BY <1>1, <1>2, <1>6, <2>1, <3>1, Zenon DEF TypeOK
    <3>3. \A i \in 1 .. 4 : Visible(ChooserOrder[i]) = states
      BY <1>6, <2>3 DEF IInv
    <3>4. \A r \in Range4 : durable'[r] = states'
      <4> SUFFICES ASSUME NEW r \in Range4 PROVE durable'[r] = states
        BY <1>1, Zenon
      <4>1. PICK i \in 1 .. 4 : ChooserOrder[i] = r
        BY Orders, Zenon
      <4>2. Visible(r) = states
        BY <3>3, <4>1, Zenon
      <4> QED BY <2>1, <4>2, Zenon
    <3>5. Reserved'
      BY <1>4, <2>3, Zenon DEF Spending
    <3> QED BY <1>3, <2>1, <3>1, <3>2, <3>4, <3>5, Zenon DEF IInv
  <2> QED BY <1>1, <2>2, <2>3, Zenon
<1>7. CASE pc' = AfterWriteBack(FALSE) /\ UNCHANGED <<durable, written, step>>
  <2>1. pc' \in {"choose", "own"}
    BY <1>7, Zenon DEF AfterWriteBack
  <2>2. TypeOK'
    BY <1>1, <1>2, <1>7, <2>1, Zenon DEF TypeOK
  <2>3. DiskSound'
    BY <1>1, <1>2, <1>7, Zenon DEF DiskSound, Sound
  <2> QED BY <1>3, <2>1, <2>2, <2>3, Zenon DEF IInv, Spending
<1> QED BY <1>5, <1>6, <1>7, Zenon DEF WriteBack, Goto, WriteBackDone, diskVars

\* Disk::start uses the try that no table on the disk still counts.
LEMMA StartKeeps == IInv /\ Start => IInv'
<1> SUFFICES ASSUME IInv, Start PROVE IInv'
  BY Zenon
<1>1. pc = "start" /\ UNCHANGED <<durable, written, image, slot>>
  BY Zenon DEF Start, diskVars
<1>2. /\ TypeOK /\ DiskSound /\ TriesBoundStarts /\ Sound(states)
      /\ slot \in Slot /\ states \in Table /\ states[slot] \in SlotState
      /\ starts \in [Slot -> Nat] /\ image[slot] \in Quality
  BY <1>1, Zenon DEF IInv, HoldsTable, TypeOK, Table
<1>3. CASE /\ states' = [states EXCEPT ![slot] = unreadable(states[slot])]
           /\ step' = 1 /\ pc' = "giveup" /\ UNCHANGED <<starts, proved>>
  <2> DEFINE gone == unreadable(states[slot])
  <2>1. gone \in SlotState /\ ~gone.successful /\ gone.tries = 0
    BY BootAssumption DEF unreadable, State, SlotState
  <2> HIDE DEF gone
  <2>2. /\ states' \in Table /\ states'[slot] = gone
        /\ \A o \in Slot \ {slot} : states'[o] = states[o]
    BY <1>2, <1>3, <2>1, Zenon DEF gone, Table
  <2>3. TypeOK'
    BY <1>1, <1>2, <1>3, <2>2, Zenon DEF TypeOK
  <2>4. 0 + starts[slot] <= TRIES
    BY <1>2, BootAssumption DEF TriesBoundStarts
  <2>5. Sound(states)'
    BY <1>2, <1>3, <2>1, <2>2, <2>4, Zenon DEF Sound
  <2>6. DiskSound' /\ TriesBoundStarts'
    BY <1>1, <1>2, <1>3, Zenon DEF DiskSound, Sound, TriesBoundStarts
  <2> QED BY <1>3, <2>3, <2>5, <2>6 DEF IInv, Spending
<1>4. CASE /\ image[slot] # "torn"
           /\ starts' = [starts EXCEPT ![slot] =
                 IF states[slot].successful \/ starts[slot] > TRIES THEN starts[slot]
                 ELSE starts[slot] + 1]
           /\ proved' = IF image[slot] = "good" THEN proved \cup {slot} ELSE proved
           /\ pc' = CASE image[slot] = "returns" -> "choose"
                      [] image[slot] = "hangs"   -> "hung"
                      [] image[slot] = "good"    -> "up"
           /\ UNCHANGED <<states, step>>
  <2>1. /\ pc' \in {"choose", "hung", "up"}
        /\ pc' = "up" => slot \in proved'
        /\ proved \subseteq proved' /\ proved' \subseteq Slot
    BY <1>2, <1>4, Zenon DEF Quality, TypeOK
  <2>2. /\ starts' \in [Slot -> Nat]
        /\ \A o \in Slot \ {slot} : starts'[o] = starts[o]
        /\ states[slot].successful => starts' = starts
        /\ starts'[slot] <= starts[slot] + 1
    BY <1>2, <1>4
  <2>3. TypeOK'
    BY <1>1, <1>2, <1>4, <2>1, <2>2, Zenon DEF TypeOK
  <2>4. ASSUME NEW table \in Table, Sound(table),
               ~states[slot].successful => table = states
        PROVE  \A s \in Slot : IF table[s].successful THEN s \in proved'
                               ELSE table[s].tries + starts'[s] <= TRIES
    <3> SUFFICES ASSUME NEW s \in Slot
                 PROVE  IF table[s].successful THEN s \in proved'
                        ELSE table[s].tries + starts'[s] <= TRIES
      BY Zenon
    <3>1. CASE table[s].successful
      BY <2>1, <2>4, <3>1, Zenon DEF Sound
    <3>2. CASE ~table[s].successful /\ (s # slot \/ states[slot].successful)
      BY <2>2, <2>4, <3>2, Zenon DEF Sound
    <3>3. CASE s = slot /\ ~states[slot].successful
      <4>1. states[slot].tries + starts[slot] + 1 <= TRIES /\ table = states
        BY <1>1, <2>4, <3>3, Zenon DEF IInv, Spending, Reserved
      <4>2. states[slot].tries \in Nat /\ TRIES \in Nat /\ starts[slot] \in Nat
        BY <1>2, BootAssumption DEF SlotState
      <4> QED BY <2>2, <3>3, <4>1, <4>2
    <3> QED BY <3>1, <3>2, <3>3, Zenon
  <2>5. Sound(states)'
    BY <1>2, <1>4, <2>4, Zenon DEF Sound
  <2>6. DiskSound'
    <3>1. ~states[slot].successful =>
             \A r \in Range4 : written[r] = <<>> /\ durable[r] = states
      BY <1>1, Zenon DEF IInv, Settled
    <3>2. \A r \in Range4 : durable[r] \in Table /\ Sound(durable[r])
                            /\ (~states[slot].successful => durable[r] = states)
      BY <1>2, <3>1, Zenon DEF TypeOK, DiskSound
    <3>3. \A r \in Range4 : \A i \in 1 .. Len(written[r]) :
             /\ written[r][i] \in Table /\ Sound(written[r][i]) /\ states[slot].successful
      <4> SUFFICES ASSUME NEW r \in Range4, NEW i \in 1 .. Len(written[r])
                   PROVE  /\ written[r][i] \in Table /\ Sound(written[r][i])
                          /\ states[slot].successful
        BY Zenon
      <4>1. written[r] \in Seq(Table)
        BY <1>2, Zenon DEF TypeOK
      <4>2. written[r] # <<>> /\ written[r][i] \in Table
        BY <4>1
      <4> QED BY <1>2, <3>1, <4>2, Zenon DEF DiskSound
    <3>4. \A r \in Range4 : Sound(durable[r])'
      BY <1>1, <2>4, <3>2, Zenon DEF Sound
    <3>5. \A r \in Range4 : \A i \in 1 .. Len(written[r]) : Sound(written[r][i])'
      BY <1>1, <2>4, <3>3, Zenon DEF Sound
    <3> QED BY <1>1, <3>4, <3>5, Zenon DEF DiskSound
  <2>7. TriesBoundStarts'
    <3> SUFFICES ASSUME NEW s \in Slot PROVE starts'[s] <= TRIES
      BY Zenon DEF TriesBoundStarts
    <3>1. CASE s # slot \/ states[slot].successful
      BY <1>2, <2>2, <3>1, Zenon DEF TriesBoundStarts
    <3>2. CASE s = slot /\ ~states[slot].successful
      <4>1. states[slot].tries + starts[slot] + 1 <= TRIES
        BY <1>1, <3>2, Zenon DEF IInv, Spending, Reserved
      <4>2. states[slot].tries \in Nat /\ TRIES \in Nat /\ starts[slot] \in Nat
        BY <1>2, BootAssumption DEF SlotState
      <4> QED BY <2>2, <3>2, <4>1, <4>2
    <3> QED BY <3>1, <3>2, Zenon
  <2> QED BY <1>1, <2>1, <2>3, <2>5, <2>6, <2>7, Zenon DEF IInv, Spending
<1> QED BY <1>3, <1>4, Zenon DEF Start, Goto

\* confirm() marks the slot this boot came from, which has come up.
LEMMA ConfirmKeeps == IInv /\ Confirm => IInv'
<1> SUFFICES ASSUME IInv, Confirm PROVE IInv'
  BY Zenon
<1>1. pc = "up" /\ UNCHANGED <<durable, written, image, slot, starts, proved>>
  BY Zenon DEF Confirm, diskVars, ghostVars
<1>2. /\ TypeOK /\ DiskSound /\ TriesBoundStarts /\ slot \in proved /\ slot \in Slot
  BY <1>1, Zenon DEF IInv, TypeOK
<1>3. DiskSound' /\ TriesBoundStarts'
  BY <1>1, <1>2, Zenon DEF DiskSound, Sound, TriesBoundStarts
<1> DEFINE table == Visible("primary_array")
<1>4. table \in Table /\ Sound(table)
  BY <1>2, VisibleSound, Zenon DEF Range4
<1>5. CASE /\ states' = [table EXCEPT ![slot] = confirmed(table[slot])]
           /\ pc' = "confirm" /\ step' = 1
  <2> DEFINE good == confirmed(table[slot])
  <2>1. good \in SlotState /\ good.successful = TRUE
    <3>1. table[slot].priority \in Nat
      BY <1>2, <1>4, Zenon DEF Table, SlotState
    <3> QED BY <3>1, BootAssumption DEF confirmed, State, SlotState
  <2> HIDE DEF good, table
  <2>2. /\ states' \in Table /\ states'[slot] = good
        /\ \A o \in Slot \ {slot} : states'[o] = table[o]
    BY <1>2, <1>4, <1>5, <2>1, Zenon DEF good, Table
  <2>3. TypeOK'
    BY <1>1, <1>2, <1>5, <2>2, Zenon DEF TypeOK
  <2>4. Sound(states)'
    BY <1>1, <1>2, <1>4, <2>1, <2>2, Zenon DEF Sound
  <2> QED BY <1>1, <1>2, <1>3, <1>5, <2>3, <2>4 DEF IInv, Spending
<1>6. CASE pc' = "done" /\ UNCHANGED <<states, step>>
  <2>1. TypeOK'
    BY <1>1, <1>2, <1>6, Zenon DEF TypeOK
  <2> QED BY <1>3, <1>6, <2>1, Zenon DEF IInv, HoldsTable, Spending
<1> QED BY <1>5, <1>6, Zenon DEF Confirm, Goto, ConfirmedSlot

\* Each write of the confirmation puts a sound table in one range.
LEMMA ConfirmWriteKeeps == IInv /\ ConfirmWrite => IInv'
<1> SUFFICES ASSUME IInv, ConfirmWrite PROVE IInv'
  BY Zenon
<1>1. pc = "confirm" /\ UNCHANGED <<image, states, slot, starts, proved>>
  BY Zenon DEF ConfirmWrite, ghostVars
<1>2. /\ TypeOK /\ DiskSound /\ TriesBoundStarts /\ Sound(states) /\ step \in 1 .. 4
      /\ states \in Table /\ slot \in proved
  BY <1>1, Zenon DEF IInv, HoldsTable, TypeOK
<1>3. TriesBoundStarts' /\ Sound(states)' /\ slot' \in proved'
  BY <1>1, <1>2, Zenon DEF Sound, TriesBoundStarts
<1>4. CASE /\ Write(ConfirmOrder[step], states) /\ step' = step + 1
           /\ pc' = IF step = 4 THEN "done" ELSE "confirm"
  <2>1. PICK r \in Range4 : r = ConfirmOrder[step]
    BY <1>2, Orders, Zenon
  <2>2. /\ durable' \in [Range4 -> Table] /\ written' \in [Range4 -> Seq(Table)]
        /\ DiskSound'
    BY <1>1, <1>2, <1>4, <2>1, WriteKeeps, Zenon DEF ghostVars
  <2>3. /\ step' \in Nat /\ pc' \in {"done", "confirm"}
        /\ pc' = "confirm" => step' \in 1 .. 4
    BY <1>2, <1>4
  <2>4. TypeOK'
    BY <1>1, <1>2, <2>2, <2>3, Zenon DEF TypeOK
  <2> QED BY <1>3, <2>2, <2>3, <2>4, Zenon DEF IInv, Spending
<1>5. CASE pc' = "done" /\ UNCHANGED <<durable, written, step>>
  <2>1. TypeOK'
    BY <1>1, <1>2, <1>5, Zenon DEF TypeOK
  <2>2. DiskSound'
    BY <1>1, <1>2, <1>5, Zenon DEF DiskSound, Sound
  <2> QED BY <1>3, <1>5, <2>1, <2>2, Zenon DEF IInv, HoldsTable, Spending
<1> QED BY <1>4, <1>5, Zenon DEF ConfirmWrite, Goto, diskVars

\* The power goes, for whatever reason, or a mounted filesystem flushes.
LEMMA OutsideKeeps == IInv /\ (Reset \/ PowerCut \/ Sync) => IInv'
<1> SUFFICES ASSUME IInv, Reset \/ PowerCut \/ Sync PROVE IInv'
  BY Zenon
<1>1. UNCHANGED <<image, step, states, slot, starts, proved>>
  BY Zenon DEF Reset, PowerCut, Sync, ghostVars
<1>2. TypeOK /\ DiskSound /\ TriesBoundStarts'
  BY <1>1, Zenon DEF IInv, TriesBoundStarts
<1>3. CASE Lose /\ pc' = "off"
  <2>1. /\ durable' \in [Range4 -> Table] /\ written' \in [Range4 -> Seq(Table)]
        /\ Settled' /\ DiskSound'
    BY <1>1, <1>2, <1>3, LoseKeeps, Zenon DEF ghostVars
  <2>2. TypeOK'
    BY <1>1, <1>2, <1>3, <2>1, Zenon DEF TypeOK
  <2> QED BY <1>2, <1>3, <2>1, <2>2, Zenon DEF IInv, HoldsTable, Spending
<1>4. CASE Flush /\ pc \in {"up", "confirm", "done"} /\ pc' = pc
  <2>1. /\ durable' \in [Range4 -> Table] /\ written' \in [Range4 -> Seq(Table)]
        /\ DiskSound'
    BY <1>1, <1>2, <1>4, FlushKeeps, Zenon DEF ghostVars
  <2>2. TypeOK'
    BY <1>1, <1>2, <1>4, <2>1, Zenon DEF TypeOK
  <2>3. HoldsTable' => Sound(states)'
    BY <1>1, <1>4, Zenon DEF IInv, HoldsTable, Sound
  <2> QED BY <1>1, <1>2, <1>4, <2>1, <2>2, <2>3, Zenon DEF IInv, Spending
<1> QED BY <1>3, <1>4, Zenon DEF Reset, PowerCut, Sync, Goto

\* An upgrade: what was in the slot is no longer known to work, and no table
\* says that it is.
LEMMA UpgradeKeeps ==
  ASSUME IInv, NEW s \in Slot, NEW quality \in Quality, Upgrade(s, quality)
  PROVE  IInv'
<1> DEFINE table == durable["primary_array"]
<1>1. /\ pc = "off" /\ image' = [image EXCEPT ![s] = quality]
      /\ starts' = [starts EXCEPT ![s] = 0] /\ proved' = proved \ {s}
      /\ UNCHANGED <<written, pc, step, states, slot>>
  BY Zenon DEF Upgrade
<1>2. durable' = [r \in Range4 |-> [table EXCEPT ![s] = on_trial(TRIAL_PRIORITY, TRIES)]]
  BY Zenon DEF Upgrade
<1>3. /\ TypeOK /\ DiskSound /\ TriesBoundStarts /\ Settled /\ starts \in [Slot -> Nat]
      /\ table \in Table /\ Sound(table)
  BY <1>1, Zenon DEF IInv, TypeOK, DiskSound, Range4
<1> DEFINE trial == on_trial(TRIAL_PRIORITY, TRIES)
           new == [table EXCEPT ![s] = trial]
<1>4. trial \in SlotState /\ trial.successful = FALSE /\ trial.tries <= TRIES
  BY BootAssumption DEF on_trial, State, SlotState, MAX_NIBBLE, TRIAL_PRIORITY
<1> HIDE DEF trial, table
<1>5. new \in Table /\ new[s] = trial /\ \A o \in Slot \ {s} : new[o] = table[o]
  BY <1>3, <1>4, Zenon DEF Table
<1>6. durable' = [r \in Range4 |-> new]
  BY <1>2, Zenon DEF trial
<1> HIDE DEF new
<1>7. TypeOK'
  BY <1>1, <1>3, <1>5, <1>6, Zenon DEF TypeOK
<1>8. /\ starts'[s] = 0 /\ \A o \in Slot \ {s} : starts'[o] = starts[o]
      /\ trial.tries \in Nat
  BY <1>1, <1>3, <1>4 DEF SlotState
<1>9. \A o \in Slot : IF new[o].successful THEN o \in proved'
                      ELSE new[o].tries + starts'[o] <= TRIES
  BY <1>1, <1>3, <1>4, <1>5, <1>8 DEF Sound
<1>10. DiskSound'
  <2>1. \A r \in Range4 : \A i \in 1 .. Len(written'[r]) : FALSE
    BY <1>1, <1>3 DEF Settled
  <2> QED BY <1>6, <1>9, <2>1, Zenon DEF DiskSound, Sound
<1>11. TriesBoundStarts'
  BY <1>3, <1>8, BootAssumption DEF TriesBoundStarts
<1> QED BY <1>1, <1>3, <1>7, <1>10, <1>11, Zenon DEF IInv, HoldsTable, Spending, Settled

------------------------------------------------------------------------------
(* The theorems.                                                            *)

\* Every step keeps the inductive invariant.
THEOREM NextIInv == IInv /\ [Next]_vars => IInv'
<1> SUFFICES ASSUME IInv, [Next]_vars PROVE IInv'
  BY Zenon
<1>1. CASE UNCHANGED vars
  <2>1. UNCHANGED <<durable, written, image, pc, step, states, slot, starts, proved>>
    BY <1>1, Zenon DEF vars, diskVars, ghostVars
  <2> QED BY <2>1 DEF IInv, TypeOK, TriesBoundStarts, DiskSound, Sound, HoldsTable,
                      Spending, Reserved, Settled, Visible
<1>2. CASE Next
  BY <1>2, PowerOnKeeps, ChooseKeeps, WriteBackKeeps, StartKeeps, ConfirmKeeps,
     ConfirmWriteKeeps, OutsideKeeps, UpgradeKeeps, Zenon DEF Next, Machine
<1> QED BY <1>1, <1>2, Zenon

\* The invariant holds in every state the chooser, the confirmation, upgrades
\* and power cuts reach.
THEOREM SpecIInv == Spec => []IInv
  BY InitIInv, NextIInv, PTL DEF Spec

\* An upgrade that never proves itself is started TRIES times at most, however
\* many power cuts fall between the chooser's writes, and whichever of the
\* unflushed ones they keep (write_back's flush before the image is started).
THEOREM TriesBoundStartsHolds == Spec => []TriesBoundStarts
<1>1. IInv => TriesBoundStarts
  BY Zenon DEF IInv
<1> QED BY <1>1, SpecIInv, PTL

\* Only a slot whose image has come up is ever marked good, whatever tables the
\* four ranges are left with (confirm writes the table as it is now, and marks
\* the slot this boot was started from).
THEOREM OnlyProvedIsConfirmedHolds == Spec => []OnlyProvedIsConfirmed
<1>1. IInv => OnlyProvedIsConfirmed
  BY VisibleSound, Zenon DEF IInv, OnlyProvedIsConfirmed, Sound, Range4
<1> QED BY <1>1, SpecIInv, PTL
==============================================================================
