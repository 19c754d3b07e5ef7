-------------------------- MODULE WfsJournalProofs --------------------------
(***************************************************************************)
(* Theorems of WfsJournal, for any number of metadata blocks, any size of  *)
(* transaction and any number of crashes: the log and the transactions keep *)
(* their layout, and a volume marked ERROR stays marked; and, where the    *)
(* driver handles the requests that fail (Handled), the volume is atomic:  *)
(* a mount recovers whole transactions only, writes no freed block and     *)
(* does not cost the volume its writability.                               *)
(***************************************************************************)
EXTENDS WfsJournal, FiniteSetTheorems, TLAPS

(* What a block may hold: a record names no more than a transaction may. *)
Bounded(v) == /\ v.type = "descriptor" => Len(v.targets) <= MAX_TARGETS
              /\ v.type = "revoke" => Cardinality(v.blocks) <= MAX_REVOKES

Content == {v \in Contents : Bounded(v)}

\* Value v may be written to block b.
Fits(b, v) == /\ v \in Content
              /\ b = SUPER => v.type = "super"
              /\ b = J_START => v.type = "tail"
              /\ b \in Targets => v.type = "image"

Disk(d) == /\ d \in [Blocks -> Content]
           /\ d[SUPER].type = "super"
           /\ d[J_START].type = "tail"
           /\ \A t \in Targets : d[t].type = "image"

\* The driver's own variables.
Driver == /\ pc \in Steps
          /\ state \in {"CLEAN", "DIRTY", "ERROR"}
          /\ readOnly \in BOOLEAN /\ dirtyMarked \in BOOLEAN
          /\ nextSeq \in Nat
          /\ targets \in Seq(TargetList) /\ Len(targets) <= MAX_TARGETS
          /\ revokes \subseteq Targets /\ Cardinality(revokes) <= MAX_REVOKES
          /\ index \in Nat \ {0}
          /\ outcome \in {"none", "ok", "failed"}
          /\ stages \in 0..MaxStages /\ crashes \in 0..MaxCrashes
          /\ pc \in {"down", "idle", "barrier_sync", "record_error"} => targets = << >>

\* The slots of an open transaction hold images, which the checkpoint copies.
StagedAreImages ==
    pc \in TxnSteps => \A i \in 1..Len(targets) : cache[image_block(i)].type = "image"

\* Where the mark ERROR is, and what the driver knows of it.
ErrorKnown == /\ media[SUPER].state = "ERROR" => cache[SUPER].state = "ERROR"
              /\ cache[SUPER].state = "ERROR" /\ pc # "down" => readOnly
              /\ pc = "record_error" => readOnly

TInv == /\ Disk(media) /\ Disk(cache)
        /\ Driver
        /\ faults \in 0..MaxFaults
        /\ StagedAreImages

IInv == TInv /\ freed \subseteq Targets /\ ErrorKnown

-----------------------------------------------------------------------------
(* The layout. *)

\* Where the parts of the volume lie: the superblocks, the log and the metadata
\* blocks are disjoint, and the longest transaction fits the log.
LEMMA Layout ==
    /\ SUPER \in Blocks /\ J_START \in Blocks /\ SUPER # J_START
    /\ SUPER \notin Targets /\ J_START \notin Targets
    /\ Targets \subseteq Blocks /\ Log \subseteq Blocks
    /\ \A i \in Nat : image_block(i) = i + 2
    /\ descriptor_block = 2
    /\ \A b \in 2..(MAX_TARGETS + 4) : b \in Log /\ b \notin Targets /\ b # SUPER /\ b # J_START
  BY JournalAssumption
  DEF SUPER, J_START, Blocks, Targets, Log, J_BLOCKS, LogBlocks, image_block, descriptor_block

\* The metadata blocks are finitely many.
LEMMA TargetsFinite == IsFiniteSet(Targets)
  <1>1. J_START + J_BLOCKS \in Int /\ J_START + J_BLOCKS + NTargets - 1 \in Int
    BY JournalAssumption DEF J_START, J_BLOCKS, LogBlocks
  <1> QED
    BY <1>1, FS_Interval DEF Targets

(* The contents of a block, by type. *)

\* What a block of each type holds.
LEMMA ContentByType ==
    ASSUME NEW v \in Content
    PROVE  /\ v.type = "image" => v.content \in SUBSET Stamps
           /\ v.type = "tail" => v.seq \in Nat
           /\ v.type = "super" => v.state \in {"CLEAN", "DIRTY", "ERROR"}
           /\ v.type = "descriptor" => v.targets \in Seq(TargetList) /\ Len(v.targets) <= MAX_TARGETS
           /\ v.type = "revoke" => /\ v.blocks \in SUBSET Targets
                                   /\ Cardinality(v.blocks) <= MAX_REVOKES
  BY DEF Content, Contents, Bounded

\* What the driver writes is a block of its type.
LEMMA ContentMade ==
    /\ \A s \in {"CLEAN", "DIRTY", "ERROR"} : /\ Super(s) \in Content
                                              /\ Super(s).type = "super" /\ Super(s).state = s
    /\ \A n \in Nat : JournalSuper(n) \in Content /\ JournalSuper(n).type = "tail"
    /\ \A c \in SUBSET Stamps : Image(c) \in Content /\ Image(c).type = "image"
    /\ \A n \in Nat, ts \in Seq(TargetList) :
          Len(ts) <= MAX_TARGETS => Descriptor(n, ts) \in Content
    /\ \A n \in Nat, bs \in SUBSET Targets :
          Cardinality(bs) <= MAX_REVOKES => RevokeRecord(n, bs) \in Content
    /\ \A n, k \in Nat : CommitRecord(n, k) \in Content
  BY DEF Content, Contents, Bounded, Super, JournalSuper, Image, Descriptor, RevokeRecord,
         CommitRecord

-----------------------------------------------------------------------------
(* Requests. *)

\* A write of v to b, done or failed.
Wrote(b, v) == /\ media' = media
               /\ cache' \in {cache, [cache EXCEPT ![b] = v]}
               /\ faults' \in 0..MaxFaults

\* A read or a flush, done or failed, or no request at all.
Settled == /\ media' \in {media, cache}
           /\ cache' = cache
           /\ faults' \in 0..MaxFaults

\* Every request of the driver is a write or a settled one.
LEMMA Requests ==
    ASSUME faults \in 0..MaxFaults
    PROVE  /\ \A b, v : WriteDone(b, v) => Wrote(b, v)
           /\ \A b, v, step : WriteFailed(step, b, v) => Wrote(b, v)
           /\ FlushDone => Settled
           /\ NoRequest => Settled
           /\ \A step : ReadOrFlushFailed(step) => Settled
  BY JournalAssumption
  DEF WriteDone, WriteFailed, FlushDone, NoRequest, ReadOrFlushFailed, MayFail, Wrote, Settled,
      device

\* What a write leaves: good disks, the staged images of the transaction as long
\* as none of them is written with something else, and the superblock alone.
LEMMA WroteKeeps ==
    ASSUME Disk(media), Disk(cache), NEW b \in Blocks, NEW v, Fits(b, v), Wrote(b, v)
    PROVE  /\ Disk(media') /\ Disk(cache')
           /\ \A i \in Blocks : i # b => cache'[i] = cache[i]
           /\ \A i \in Blocks : cache[i].type = "image" /\ (i = b => v.type = "image")
                                   => cache'[i].type = "image"
           /\ b # SUPER => cache'[SUPER] = cache[SUPER] /\ media'[SUPER] = media[SUPER]
  <1>1. cache \in [Blocks -> Content]
    BY DEF Disk
  <1>2. cache' \in [Blocks -> Content] /\ \A i \in Blocks : cache'[i] = cache[i] \/ (i = b /\ cache'[i] = v)
    BY <1>1 DEF Wrote, Fits
  <1>3. Disk(media')
    BY DEF Wrote
  <1>4. Disk(cache')
    BY <1>2, Layout DEF Disk, Fits
  <1> QED
    BY <1>2, <1>3, <1>4, Layout DEF Wrote

\* A read or a flush leaves good disks; a flush carries the mark to the media,
\* never away from it.
LEMMA SettledKeeps ==
    ASSUME Disk(media), Disk(cache), ErrorKnown, Settled
    PROVE  /\ Disk(media') /\ Disk(cache')
           /\ \A b \in Blocks : cache'[b] = cache[b]
           /\ media'[SUPER].state = "ERROR" => cache'[SUPER].state = "ERROR"
           /\ media[SUPER].state = "ERROR" => media'[SUPER].state = "ERROR"
  BY DEF Settled, ErrorKnown

-----------------------------------------------------------------------------
(* Transactions, and where a step leaves the driver. *)

\* wfs_txn_abort leaves a transaction within its limits.
LEMMA EmptyFits ==
    ASSUME EmptyTxn
    PROVE  /\ targets' \in Seq(TargetList) /\ targets' = << >> /\ Len(targets') = 0 /\ Len(targets') <= MAX_TARGETS
           /\ revokes' \subseteq Targets /\ Cardinality(revokes') <= MAX_REVOKES
           /\ index' \in Nat \ {0}
  BY JournalAssumption, FS_EmptySet DEF EmptyTxn

\* The blocks of a transaction's log.
LEMMA LogSlots ==
    ASSUME Driver
    PROVE  /\ Len(targets) \in 0..MAX_TARGETS
           /\ \A i \in 0..MAX_TARGETS : /\ image_block(i) \in Blocks /\ image_block(i) = i + 2
                                        /\ image_block(i) \notin Targets
                                        /\ image_block(i) # SUPER /\ image_block(i) # J_START
           /\ revoke_block = Len(targets) + 3 /\ revoke_block \in 2..(MAX_TARGETS + 4)
           /\ commit_block \in (Len(targets) + 3)..(MAX_TARGETS + 4)
           /\ \A i \in 1..Len(targets) : targets[i] \in TargetList /\ i \in 0..MAX_TARGETS
  <1>1. targets \in Seq(TargetList) /\ Len(targets) \in Nat /\ Len(targets) <= MAX_TARGETS
    BY DEF Driver
  <1>2. /\ Len(targets) \in 0..MAX_TARGETS
        /\ \A i \in 1..Len(targets) : targets[i] \in TargetList /\ i \in 0..MAX_TARGETS
    BY <1>1, JournalAssumption
  <1>3. \A i \in 0..MAX_TARGETS : image_block(i) = i + 2
    BY JournalAssumption, Layout
  <1>4. \A i \in 0..MAX_TARGETS : i + 2 \in 2..(MAX_TARGETS + 4)
    BY JournalAssumption
  <1>5. revoke_block = Len(targets) + 3 /\ commit_block \in {Len(targets) + 3, Len(targets) + 4}
    BY <1>2, <1>3 DEF revoke_block, commit_block
  <1>6. \A i \in 0..MAX_TARGETS : /\ image_block(i) \in Blocks /\ image_block(i) \notin Targets
                                  /\ image_block(i) # SUPER /\ image_block(i) # J_START
    BY <1>3, <1>4, Layout
  <1>7. revoke_block \in 2..(MAX_TARGETS + 4) /\ commit_block \in (Len(targets) + 3)..(MAX_TARGETS + 4)
    BY <1>2, <1>5, JournalAssumption
  <1> QED
    BY <1>2, <1>3, <1>5, <1>6, <1>7

\* A log block that is not an image slot may hold any record.
LEMMA LogFits ==
    ASSUME NEW b \in 2..(MAX_TARGETS + 4), NEW v \in Content
    PROVE  b \in Blocks /\ Fits(b, v)
  BY Layout DEF Fits

-----------------------------------------------------------------------------
(* A step keeps the invariant (its part without `freed`) and the mark. *)

KeepsMark == media[SUPER].state = "ERROR" => media'[SUPER].state = "ERROR"

Keeps == TInv' /\ ErrorKnown' /\ KeepsMark

\* Where the driver may go without disturbing what it knows: on with the same
\* transaction, or to an empty one, and never back from read-only.
Onward == /\ Driver'
          /\ pc' \in TxnSteps => \/ Len(targets') = 0
                                 \/ pc \in TxnSteps /\ targets' = targets
          /\ pc' # "down" => pc # "down" /\ (readOnly => readOnly')
          /\ pc' = "record_error" => readOnly'

\* A step whose request is settled keeps the invariant.
LEMMA SettledStep ==
    ASSUME IInv, Settled, Onward
    PROVE  Keeps
  <1>1. /\ Disk(media') /\ Disk(cache')
        /\ \A b \in Blocks : cache'[b] = cache[b]
        /\ media'[SUPER].state = "ERROR" => cache'[SUPER].state = "ERROR"
        /\ KeepsMark
    BY SettledKeeps DEF IInv, TInv, KeepsMark
  <1>2. StagedAreImages'
    <2> SUFFICES ASSUME pc' \in TxnSteps, NEW i \in 1..Len(targets')
                 PROVE  cache'[image_block(i)].type = "image"
      BY DEF StagedAreImages, image_block, descriptor_block
    <2>1. Len(targets') \in Nat
      BY DEF Onward, Driver
    <2>2. pc \in TxnSteps /\ targets' = targets /\ i \in 1..Len(targets)
      BY <2>1 DEF Onward
    <2>3. image_block(i) \in Blocks
      BY <2>2, LogSlots DEF IInv, TInv
    <2> QED
      BY <1>1, <2>2, <2>3 DEF IInv, TInv, StagedAreImages
  <1>3. cache'[SUPER] = cache[SUPER]
    BY <1>1, Layout
  <1>4. ErrorKnown'
    BY <1>1, <1>3 DEF Onward, IInv, ErrorKnown, SUPER
  <1> QED
    BY <1>1, <1>2, <1>4 DEF Keeps, TInv, Onward, Settled

\* So does one that writes a block other than the superblock.
LEMMA WroteStep ==
    ASSUME IInv, Onward, NEW b \in Blocks, NEW v, Fits(b, v), Wrote(b, v), b # SUPER,
           pc' \in TxnSteps => \A i \in 1..Len(targets') : image_block(i) = b => v.type = "image"
    PROVE  Keeps
  <1>1. /\ Disk(media') /\ Disk(cache')
        /\ \A i \in Blocks : cache[i].type = "image" /\ (i = b => v.type = "image")
                                => cache'[i].type = "image"
        /\ cache'[SUPER] = cache[SUPER] /\ media'[SUPER] = media[SUPER]
    BY WroteKeeps DEF IInv, TInv
  <1>2. StagedAreImages'
    <2> SUFFICES ASSUME pc' \in TxnSteps, NEW i \in 1..Len(targets')
                 PROVE  cache'[image_block(i)].type = "image"
      BY DEF StagedAreImages, image_block, descriptor_block
    <2>1. Len(targets') \in Nat
      BY DEF Onward, Driver
    <2>2. pc \in TxnSteps /\ targets' = targets /\ i \in 1..Len(targets)
      BY <2>1 DEF Onward
    <2>3. image_block(i) \in Blocks
      BY <2>2, LogSlots DEF IInv, TInv
    <2>4. cache[image_block(i)].type = "image"
      BY <2>2 DEF IInv, TInv, StagedAreImages
    <2> QED
      BY <1>1, <2>3, <2>4
  <1>3. ErrorKnown'
    BY <1>1 DEF Onward, IInv, ErrorKnown, SUPER
  <1> QED
    BY <1>1, <1>2, <1>3 DEF Keeps, TInv, Onward, Wrote, KeepsMark

-----------------------------------------------------------------------------
(* The steps of a transaction. *)

\* The end of a transaction that failed, or was closed empty.
LEMMA AbortOnward ==
    ASSUME IInv, Abort, pc \in TxnSteps, UNCHANGED <<stages, crashes>>,
           state' = state, dirtyMarked' = dirtyMarked, nextSeq' = nextSeq,
           readOnly' = readOnly \/ readOnly' = TRUE
    PROVE  Onward
  <1>1. Driver'
    BY EmptyFits DEF Abort, IInv, TInv, Driver, Steps
  <1> QED
    BY <1>1 DEF Abort, Onward, TxnSteps

\* A step that goes on with the same transaction.
LEMMA GoOnward ==
    ASSUME IInv, pc \in TxnSteps, pc' \in TxnSteps, UNCHANGED <<txn, volume, outcome, stages, crashes>>
    PROVE  Onward
  BY DEF IInv, TInv, Driver, Onward, Steps, TxnSteps, txn, volume

\* A write of the superblock while the volume is not in error, or of the mark.
LEMMA SuperStep ==
    ASSUME IInv, Driver', NEW s \in {"CLEAN", "DIRTY", "ERROR"}, Wrote(SUPER, Super(s)),
           pc' # "down", UNCHANGED <<readOnly, targets>>,
           pc' # "record_error",
           pc' \in TxnSteps => Len(targets) = 0,
           \/ s # "ERROR" /\ cache[SUPER].state # "ERROR" /\ media[SUPER].state # "ERROR"
           \/ s = "ERROR" /\ readOnly
    PROVE  Keeps
  <1>1. Fits(SUPER, Super(s)) /\ SUPER \in Blocks /\ Super(s).state = s
    BY ContentMade, Layout DEF Fits
  <1>2. Disk(media') /\ Disk(cache')
    BY <1>1, WroteKeeps DEF IInv, TInv
  <1>3. StagedAreImages'
    BY DEF StagedAreImages
  <1>4. media' = media /\ cache'[SUPER] \in {cache[SUPER], Super(s)}
    BY Layout DEF Wrote, IInv, TInv, Disk
  <1>5. ErrorKnown'
    BY <1>1, <1>4 DEF IInv, ErrorKnown, SUPER
  <1> QED
    BY <1>2, <1>3, <1>4, <1>5 DEF Keeps, TInv, Wrote, KeepsMark, IInv

\* wfs_txn_open marks the volume dirty only when it is not in error.
LEMMA TxnOpenKeeps ==
    ASSUME IInv, TxnOpen
    PROVE  Keeps
  <1>1. /\ pc = "idle" /\ ~readOnly /\ pc' \in {"idle", "open"}
        /\ UNCHANGED <<readOnly, nextSeq, targets, revokes, index, outcome, stages, crashes>>
        /\ state' \in {state, "DIRTY"} /\ dirtyMarked' \in {dirtyMarked, TRUE}
    BY DEF TxnOpen, txn
  <1>2. Driver' /\ Len(targets) = 0
    BY <1>1 DEF IInv, TInv, Driver, Steps, TxnSteps
  <1>3. cache[SUPER].state # "ERROR" /\ media[SUPER].state # "ERROR"
    BY <1>1 DEF IInv, ErrorKnown
  <1>4. CASE NoRequest
    <2>1. Onward
      BY <1>1, <1>2 DEF Onward
    <2> QED
      BY <1>4, <2>1, SettledStep, Requests DEF IInv, TInv
  <1>5. CASE Wrote(SUPER, Super("DIRTY"))
    BY <1>1, <1>2, <1>3, <1>5, SuperStep
  <1> QED
    BY <1>4, <1>5, Requests DEF TxnOpen, IInv, TInv

\* The image an update stages, and its slot.
LEMMA StageFits ==
    ASSUME IInv, pc = "open", NEW t \in Targets, stages < MaxStages, SlotOf(t) <= MAX_TARGETS
    PROVE  /\ Updated(t) \in SUBSET Stamps
           /\ SlotOf(t) \in 1..MAX_TARGETS
           /\ SlotOf(t) \in 1..(Len(targets) + 1)
  <1>1. /\ Len(targets) \in 0..MAX_TARGETS /\ DOMAIN targets = 1..Len(targets)
        /\ \A i \in 1..Len(targets) : /\ image_block(i) \in Blocks
                                      /\ cache[image_block(i)].type = "image"
    <2>1. Driver /\ pc \in TxnSteps
      BY DEF IInv, TInv, TxnSteps
    <2>2. DOMAIN targets = 1..Len(targets)
      BY <2>1 DEF Driver
    <2> QED
      BY <2>1, <2>2, LogSlots DEF IInv, TInv, StagedAreImages
  <1>2. StagedAs(t) # {} => (CHOOSE i \in StagedAs(t) : TRUE) \in 1..Len(targets)
    BY <1>1 DEF StagedAs
  <1>3. journal_redirect(t) \in Blocks /\ cache[journal_redirect(t)].type = "image"
    <2>1. t \in Blocks /\ cache[t].type = "image"
      BY Layout DEF IInv, TInv, Disk
    <2> QED
      BY <1>1, <1>2, <2>1 DEF journal_redirect
  <1>4. cache[journal_redirect(t)].content \in SUBSET Stamps
    BY <1>3, ContentByType DEF IInv, TInv, Disk
  <1>5. stages + 1 \in Stamps
    BY JournalAssumption DEF IInv, TInv, Driver, Stamps
  <1>6. Updated(t) \in SUBSET Stamps
    BY <1>4, <1>5 DEF Updated
  <1>7. SlotOf(t) \in 1..(Len(targets) + 1)
    BY <1>1, <1>2 DEF SlotOf
  <1> QED
    BY <1>1, <1>6, <1>7, JournalAssumption

\* wfs_txn_stage keeps the images in their slots.
LEMMA StageKeeps ==
    ASSUME IInv, NEW t \in Targets, Stage(t)
    PROVE  Keeps
  <1> DEFINE slot == SlotOf(t)
             image == Updated(t)
             len == IF slot > Len(targets) THEN slot ELSE Len(targets)
             b == image_block(slot)
             v == Image(image)
  <1>1. /\ pc = "open" /\ stages < MaxStages /\ stages' = stages + 1 /\ slot <= MAX_TARGETS
        /\ UNCHANGED <<state, readOnly, dirtyMarked, nextSeq, crashes>>
        /\ \/ /\ WriteDone(b, v)
              /\ targets' = [i \in 1..len |-> IF i = slot THEN [target |-> t, checksum |-> image]
                                              ELSE targets[i]]
              /\ UNCHANGED <<pc, outcome, revokes, index>>
           \/ WriteFailed("stage", b, v) /\ Abort
    BY DEF Stage, volume
  <1>2. image \in SUBSET Stamps /\ slot \in 1..MAX_TARGETS /\ slot \in 1..(Len(targets) + 1)
    BY <1>1, StageFits
  <1>3. Driver /\ Len(targets) \in 0..MAX_TARGETS
    BY LogSlots DEF IInv, TInv
  <1>4. stages' \in 0..MaxStages
    BY <1>1, <1>3, JournalAssumption DEF Driver
  <1>5. b \in Blocks /\ b # SUPER /\ b = slot + 2 /\ Fits(b, v) /\ v.type = "image"
    <2>1. slot \in 0..MAX_TARGETS
      BY <1>2
    <2>2. b \in Blocks /\ b = slot + 2 /\ b \notin Targets /\ b # SUPER /\ b # J_START
      BY <1>3, <2>1, LogSlots
    <2> QED
      BY <1>2, <2>2, ContentMade DEF Fits
  <1>6. Wrote(b, v)
    BY <1>1, Requests DEF IInv, TInv
  <1> HIDE DEF b, v
  <1>7. /\ Disk(media') /\ Disk(cache')
        /\ \A i \in Blocks : cache[i].type = "image" => cache'[i].type = "image"
        /\ cache'[SUPER] = cache[SUPER] /\ media'[SUPER] = media[SUPER]
    BY <1>5, <1>6, WroteKeeps DEF IInv, TInv
  <1>8. CASE Abort
    <2>1. Driver'
      BY <1>1, <1>3, <1>4, <1>8, EmptyFits DEF Abort, Driver, Steps
    <2>2. Onward
      BY <1>1, <1>8, <2>1 DEF Onward, Abort, TxnSteps
    <2> QED
      BY <1>5, <1>6, <2>2, WroteStep
  <1>9. CASE /\ WriteDone(b, v)
             /\ targets' = [i \in 1..len |-> IF i = slot THEN [target |-> t, checksum |-> image]
                                             ELSE targets[i]]
             /\ UNCHANGED <<pc, outcome, revokes, index>>
    <2>1. len \in 1..MAX_TARGETS /\ \A i \in 1..len : i = slot \/ i \in 1..Len(targets)
      BY <1>2, <1>3
    <2>2. \A i \in 1..Len(targets) : targets[i] \in TargetList
      BY <1>3, LogSlots
    <2>3. [target |-> t, checksum |-> image] \in TargetList
      BY <1>2 DEF TargetList
    <2> HIDE DEF len, image, slot
    <2>4. targets' \in Seq(TargetList) /\ Len(targets') = len
      BY <1>9, <2>1, <2>2, <2>3
    <2>5. Driver'
      BY <1>1, <1>3, <1>4, <1>9, <2>1, <2>4 DEF Driver
    <2>6. StagedAreImages'
      <3> SUFFICES ASSUME NEW i \in 1..len
                   PROVE  cache'[image_block(i)].type = "image"
        BY <2>4 DEF StagedAreImages, image_block, descriptor_block
      <3>1. image_block(i) \in Blocks
        BY <1>3, <2>1, LogSlots
      <3>2. CASE i \in 1..Len(targets)
        BY <1>1, <1>7, <3>1, <3>2 DEF IInv, TInv, StagedAreImages, TxnSteps
      <3>3. CASE i = slot
        BY <1>5, <1>9, <3>1, <3>3 DEF WriteDone, b, IInv, TInv, Disk
      <3> QED
        BY <2>1, <3>2, <3>3
    <2>7. ErrorKnown'
      BY <1>1, <1>7, <1>9 DEF IInv, ErrorKnown, SUPER
    <2> QED
      BY <1>6, <1>7, <2>5, <2>6, <2>7 DEF Keeps, TInv, Wrote, KeepsMark
  <1> QED
    BY <1>1, <1>8, <1>9 DEF b, v

\* The steps of a transaction that make no request.
LEMMA QuietKeeps ==
    ASSUME IInv, \/ \E t \in Targets : TxnRevoke(t)
                 \/ OperationFails \/ TxnClose \/ CheckpointDone
    PROVE  Keeps
  <1>1. /\ NoRequest /\ pc \in TxnSteps
        /\ UNCHANGED <<state, readOnly, dirtyMarked, nextSeq, stages, crashes>>
    BY DEF TxnRevoke, OperationFails, TxnClose, CheckpointDone, TxnSteps, volume
  <1>2. Settled
    BY <1>1, Requests DEF IInv, TInv
  <1>3. SUFFICES Onward
    BY <1>2, SettledStep
  <1>4. CASE Abort
    BY <1>1, <1>4, AbortOnward
  <1>5. CASE CheckpointDone
    BY <1>1, <1>5, GoOnward DEF CheckpointDone, TxnSteps
  <1>6. CASE TxnClose
    <2>1. CASE pc' = "idle" /\ outcome' = "ok" /\ EmptyTxn
      <3>1. Driver'
        BY <1>1, <2>1, EmptyFits DEF IInv, TInv, Driver, Steps
      <3> QED
        BY <1>1, <2>1, <3>1 DEF Onward, TxnSteps
    <2>2. CASE pc' = "descriptor" /\ UNCHANGED <<outcome, txn>>
      BY <1>1, <1>6, <2>2, GoOnward DEF TxnClose, TxnSteps
    <2> QED
      BY <1>6, <2>1, <2>2 DEF TxnClose
  <1>7. ASSUME NEW t \in Targets, TxnRevoke(t), ~Abort
        PROVE  Onward
    <2>1. /\ pc = "open" /\ t \notin revokes /\ ~RevokeListFull
          /\ revokes' = revokes \cup {t}
          /\ UNCHANGED <<pc, outcome, targets, index>>
      BY <1>7 DEF TxnRevoke
    <2>2. revokes \subseteq Targets /\ IsFiniteSet(revokes)
      BY TargetsFinite, FS_Subset DEF IInv, TInv, Driver
    <2>3. Cardinality(revokes) \in Nat /\ Cardinality(revokes') = Cardinality(revokes) + 1
      BY <2>1, <2>2, FS_AddElement, FS_CardinalityType
    <2>4. Cardinality(revokes') <= MAX_REVOKES
      BY <2>1, <2>3, JournalAssumption DEF RevokeListFull
    <2>5. Driver'
      BY <1>1, <2>1, <2>2, <2>4 DEF IInv, TInv, Driver
    <2> QED
      BY <1>1, <2>1, <2>5 DEF Onward, TxnSteps
  <1> QED
    BY <1>4, <1>5, <1>6, <1>7 DEF OperationFails

\* The writes of the log abandon the transaction when they fail.
LEMMA LogWriteKeeps ==
    ASSUME IInv, NEW step \in TxnSteps, NEW next \in TxnSteps, NEW b, NEW v \in Content,
           b \in 2..(MAX_TARGETS + 4), b \notin 3..(Len(targets) + 2), LogWrite(step, next, b, v)
    PROVE  Keeps
  <1>1. /\ pc \in TxnSteps /\ Wrote(b, v)
        /\ UNCHANGED <<state, readOnly, dirtyMarked, nextSeq, stages, crashes>>
        /\ \/ pc' = next /\ UNCHANGED <<outcome, txn, volume>>
           \/ Abort
    BY Requests DEF LogWrite, volume, IInv, TInv
  <1>2. Onward
    <2>1. CASE Abort
      BY <1>1, <2>1, AbortOnward
    <2>2. CASE pc' = next /\ UNCHANGED <<outcome, txn, volume>>
      BY <1>1, <2>2, GoOnward
    <2> QED
      BY <1>1, <2>1, <2>2
  <1>3. b \in Blocks /\ Fits(b, v) /\ b # SUPER
    BY LogFits, Layout
  <1>4. pc' \in TxnSteps => \A i \in 1..Len(targets') : image_block(i) # b
    <2> SUFFICES ASSUME pc' \in TxnSteps, NEW i \in 1..Len(targets')
                 PROVE  image_block(i) # b
      OBVIOUS
    <2>1. targets' = targets \/ Len(targets') = 0
      BY <1>2 DEF Onward
    <2>2. Len(targets) \in Nat /\ Len(targets) <= MAX_TARGETS
      BY DEF IInv, TInv, Driver
    <2>3. i \in 1..Len(targets)
      BY <2>1, <2>2
    <2> QED
      BY <2>2, <2>3, Layout
  <1> QED
    BY <1>1, <1>2, <1>3, <1>4, WroteStep

\* The log records lie behind the images they describe.
LEMMA LogKeeps ==
    ASSUME IInv, WriteDescriptor \/ WriteRevoke \/ WriteCommit
    PROVE  Keeps
  <1>1. /\ nextSeq \in Nat /\ Driver /\ Len(targets) \in 0..MAX_TARGETS
        /\ revoke_block = Len(targets) + 3 /\ revoke_block \in 2..(MAX_TARGETS + 4)
        /\ commit_block \in (Len(targets) + 3)..(MAX_TARGETS + 4)
    BY LogSlots DEF IInv, TInv, Driver
  <1>2. CASE WriteDescriptor
    <2>1. Descriptor(nextSeq, targets) \in Content
      BY <1>1, ContentMade DEF Driver
    <2>2. descriptor_block \in 2..(MAX_TARGETS + 4) /\ descriptor_block \notin 3..(Len(targets) + 2)
      BY <1>1, Layout, JournalAssumption
    <2>3. (IF revokes = {} THEN "barrier_log" ELSE "revoke") \in TxnSteps /\ "descriptor" \in TxnSteps
      BY DEF TxnSteps
    <2> QED
      BY <1>2, <2>1, <2>2, <2>3, LogWriteKeeps DEF WriteDescriptor
  <1>3. CASE WriteRevoke
    <2>1. RevokeRecord(nextSeq, revokes) \in Content
      BY <1>1, ContentMade DEF Driver
    <2>2. revoke_block \notin 3..(Len(targets) + 2)
      BY <1>1
    <2>3. "barrier_log" \in TxnSteps /\ "revoke" \in TxnSteps
      BY DEF TxnSteps
    <2> QED
      BY <1>1, <1>3, <2>1, <2>2, <2>3, LogWriteKeeps DEF WriteRevoke
  <1>4. CASE WriteCommit
    <2>1. CommitRecord(nextSeq, Len(targets)) \in Content
      BY <1>1, ContentMade
    <2>2. commit_block \notin 3..(Len(targets) + 2) /\ commit_block \in 2..(MAX_TARGETS + 4)
      BY <1>1, JournalAssumption
    <2>3. "barrier_commit" \in TxnSteps /\ "commit" \in TxnSteps
      BY DEF TxnSteps
    <2> QED
      BY <1>4, <2>1, <2>2, <2>3, LogWriteKeeps DEF WriteCommit
  <1> QED
    BY <1>2, <1>3, <1>4

\* The barriers of a transaction.
LEMMA BarrierKeeps ==
    ASSUME IInv, BarrierLog \/ BarrierCommit \/ BarrierData
    PROVE  Keeps
  <1>1. /\ Settled /\ pc \in TxnSteps /\ UNCHANGED <<state, dirtyMarked, nextSeq, stages, crashes>>
        /\ \/ pc' \in TxnSteps /\ UNCHANGED <<outcome, txn, volume>>
           \/ Abort /\ (readOnly' = readOnly \/ readOnly' = TRUE)
    BY Requests
    DEF BarrierLog, BarrierCommit, BarrierData, LogFlush, Latch, TxnSteps, volume, IInv, TInv
  <1>2. Onward
    BY <1>1, AbortOnward, GoOnward
  <1> QED
    BY <1>1, <1>2, SettledStep

\* The checkpoint writes images, to metadata blocks only.
LEMMA CheckpointKeeps ==
    ASSUME IInv, Checkpoint
    PROVE  Keeps
  <1> DEFINE t == targets[index].target
             v == cache[image_block(index)]
  <1>1. pc = "checkpoint" /\ pc \in TxnSteps /\ Driver /\ index \in 1..Len(targets)
    BY DEF IInv, TInv, Driver, Checkpoint, TxnSteps
  <1>2. t \in Targets
    BY <1>1, LogSlots DEF TargetList
  <1>3. v \in Content /\ v.type = "image"
    BY <1>1, LogSlots DEF IInv, TInv, Disk, StagedAreImages
  <1>4. t \in Blocks /\ t # SUPER /\ Fits(t, v)
    BY <1>2, <1>3, Layout DEF Fits
  <1>5. Wrote(t, v)
    BY Requests DEF Checkpoint, IInv, TInv
  <1> HIDE DEF t, v
  <1>6. Onward
    <2>1. CASE Latch
      BY <1>1, <2>1, AbortOnward DEF Latch, Checkpoint
    <2>2. CASE index' = index + 1 /\ UNCHANGED <<pc, outcome, targets, revokes, volume>>
      <3>1. Driver'
        BY <1>1, <2>2 DEF Driver, Checkpoint, volume
      <3> QED
        BY <1>1, <2>2, <3>1 DEF Onward, volume
    <2> QED
      BY <2>1, <2>2 DEF Checkpoint
  <1> QED
    BY <1>3, <1>4, <1>5, <1>6, WroteStep

\* The tail, of a commit or of a replay.
LEMMA TailFits ==
    ASSUME IInv
    PROVE  /\ J_START \in Blocks /\ J_START # SUPER
           /\ Fits(J_START, JournalSuper(RetiredTail)) /\ RetiredTail \in Nat
           /\ JournalSuper(RetiredTail).type = "tail"
  <1>1. RetiredTail \in Nat
    BY DEF RetiredTail, IInv, TInv, Driver
  <1> QED
    BY <1>1, ContentMade, Layout DEF Fits

\* The tail retires a transaction.
LEMMA WriteTailKeeps ==
    ASSUME IInv, WriteTail
    PROVE  Keeps
  <1>1. pc \in TxnSteps /\ Wrote(J_START, JournalSuper(RetiredTail)) /\ pc' = "idle"
    BY Requests DEF WriteTail, Latch, Abort, IInv, TInv, TxnSteps
  <1>2. Onward
    <2>1. CASE Latch
      BY <1>1, <2>1, AbortOnward DEF Latch, WriteTail
    <2>2. CASE /\ nextSeq' = RetiredTail /\ pc' = "idle" /\ outcome' = "ok" /\ EmptyTxn
               /\ UNCHANGED <<state, readOnly, dirtyMarked>>
      <3>1. Driver'
        BY <2>2, EmptyFits, TailFits DEF IInv, TInv, Driver, Steps, WriteTail
      <3> QED
        BY <1>1, <2>2, <3>1 DEF Onward, TxnSteps
    <2> QED
      BY <2>1, <2>2 DEF WriteTail
  <1> QED
    BY <1>1, <1>2, TailFits, WroteStep DEF TxnSteps

-----------------------------------------------------------------------------
(* Unmounting, and the end of the driver. *)

\* The superblock's other writes.
LEMMA MarkKeeps ==
    ASSUME IInv, SyncClean \/ RecordError
    PROVE  Keeps
  <1>1. /\ UNCHANGED <<readOnly, dirtyMarked, nextSeq, targets, revokes, index, outcome, stages, crashes>>
        /\ pc' \in {"idle", "barrier_sync"} /\ state' \in {state, "CLEAN", "ERROR"}
        /\ pc \in {"idle", "record_error"}
    BY DEF SyncClean, RecordError, txn
  <1>2. Driver'
    BY <1>1 DEF IInv, TInv, Driver, Steps
  <1>3. pc' \notin TxnSteps /\ pc' # "down" /\ pc' # "record_error"
    BY <1>1 DEF TxnSteps
  <1>4. CASE SyncClean
    <2>1. Wrote(SUPER, Super("CLEAN"))
      BY <1>4, Requests DEF SyncClean, IInv, TInv
    <2>2. cache[SUPER].state # "ERROR" /\ media[SUPER].state # "ERROR"
      BY <1>4 DEF SyncClean, IInv, ErrorKnown
    <2> QED
      BY <1>1, <1>2, <1>3, <2>1, <2>2, SuperStep
  <1>5. CASE RecordError
    <2>1. Wrote(SUPER, Super("ERROR"))
      BY <1>5, Requests DEF RecordError, IInv, TInv
    <2>2. readOnly
      BY <1>5 DEF RecordError, IInv, ErrorKnown
    <2> QED
      BY <1>1, <1>2, <1>3, <2>1, <2>2, SuperStep
  <1> QED
    BY <1>4, <1>5

\* The flush of an unmount.
LEMMA BarrierSyncKeeps ==
    ASSUME IInv, BarrierSync
    PROVE  Keeps
  <1>1. Settled
    BY Requests DEF BarrierSync, IInv, TInv
  <1>2. Driver'
    BY DEF BarrierSync, IInv, TInv, Driver, Steps, txn
  <1>3. Onward
    BY <1>2 DEF BarrierSync, Onward, TxnSteps
  <1> QED
    BY <1>1, <1>3, SettledStep

\* The driver's end: what the device holds is what the next mount will find.
LEMMA DownKeeps ==
    ASSUME IInv, Exit \/ Crash
    PROVE  Keeps
  <1>1. Restart /\ media' = media /\ cache' \in {media, cache} /\ faults' = faults
        /\ crashes' \in 0..MaxCrashes /\ outcome' \in {outcome, "failed"}
    BY JournalAssumption DEF Exit, Crash, Restart, device, IInv, TInv, Driver
  <1>2. Disk(media') /\ Disk(cache')
    BY <1>1 DEF IInv, TInv
  <1>3. Driver'
    BY <1>1, EmptyFits DEF Restart, IInv, TInv, Driver, Steps
  <1>4. StagedAreImages'
    BY <1>1 DEF Restart, StagedAreImages, TxnSteps
  <1>5. ErrorKnown' /\ KeepsMark
    BY <1>1 DEF Restart, IInv, ErrorKnown, KeepsMark, SUPER
  <1> QED
    BY <1>1, <1>2, <1>3, <1>4, <1>5 DEF Keeps, TInv, IInv

\* The device on its own moves a block from the cache to the media.
LEMMA WritebackKeeps ==
    ASSUME IInv, NEW b \in Blocks, Writeback(b)
    PROVE  Keeps
  <1>1. /\ media' = [media EXCEPT ![b] = cache[b]]
        /\ UNCHANGED <<cache, pc, state, readOnly, dirtyMarked, nextSeq, targets, revokes, index,
                       outcome, stages, crashes, faults>>
    BY DEF Writeback, volume, txn
  <1>2. /\ media' \in [Blocks -> Content]
        /\ \A i \in Blocks : media'[i] = media[i] \/ media'[i] = cache[i]
    BY <1>1 DEF IInv, TInv, Disk
  <1>3. Disk(media') /\ Disk(cache')
    BY <1>1, <1>2, Layout DEF IInv, TInv, Disk
  <1>4. Driver' /\ StagedAreImages' /\ faults' \in 0..MaxFaults
    BY <1>1 DEF IInv, TInv, Driver, StagedAreImages, image_block, descriptor_block
  <1>5. media'[SUPER] \in {media[SUPER], cache[SUPER]}
    BY <1>2, Layout
  <1>6. ErrorKnown' /\ KeepsMark
    BY <1>1, <1>5 DEF IInv, ErrorKnown, KeepsMark, SUPER
  <1> QED
    BY <1>3, <1>4, <1>6 DEF Keeps, TInv

-----------------------------------------------------------------------------
(* Mounting and recovery. *)

\* A mount reads the mark, and serves a volume in error read-only.
LEMMA MountKeeps ==
    ASSUME IInv, Mount
    PROVE  Keeps
  <1>1. /\ pc = "down" /\ state' = cache[SUPER].state /\ Settled
        /\ pc' \in {"idle", "replay_descriptor"}
        /\ readOnly' \in BOOLEAN /\ (cache[SUPER].state = "ERROR" => readOnly')
        /\ nextSeq' \in {nextSeq, cache[J_START].seq}
        /\ UNCHANGED <<dirtyMarked, targets, revokes, index, outcome, stages, crashes>>
    BY Requests DEF Mount, mounts_read_only, txn, IInv, TInv
  <1>2. cache[SUPER].state \in {"CLEAN", "DIRTY", "ERROR"} /\ cache[J_START].seq \in Nat
    BY Layout, ContentByType DEF IInv, TInv, Disk
  <1>3. Driver'
    BY <1>1, <1>2 DEF IInv, TInv, Driver, Steps
  <1>4. StagedAreImages'
    BY <1>1 DEF StagedAreImages, TxnSteps
  <1>5. /\ Disk(media') /\ Disk(cache') /\ KeepsMark
        /\ media'[SUPER].state = "ERROR" => cache'[SUPER].state = "ERROR"
    BY <1>1, SettledKeeps DEF IInv, TInv, KeepsMark
  <1>6. cache' = cache
    BY <1>1 DEF Settled
  <1>7. ErrorKnown'
    BY <1>1, <1>5, <1>6 DEF ErrorKnown, SUPER
  <1> QED
    BY <1>1, <1>3, <1>4, <1>5, <1>7 DEF Keeps, TInv, Settled

ReplaySteps == {"replay_descriptor", "replay_scan", "replay_image", "replay_tail"}

\* The ways a replay ends, and a step that goes on with it.
LEMMA ReplayOnward ==
    ASSUME IInv, pc \in ReplaySteps, UNCHANGED <<outcome, stages, crashes>>,
           \/ ReplayFails
           \/ NothingToReplay /\ UNCHANGED volume
           \/ /\ pc' \in ReplaySteps /\ UNCHANGED volume
              /\ targets' \in Seq(TargetList) /\ Len(targets') <= MAX_TARGETS
              /\ revokes' \subseteq Targets /\ Cardinality(revokes') <= MAX_REVOKES
              /\ index' \in Nat \ {0}
    PROVE  Onward
  <1>1. Driver'
    <2>1. CASE ReplayFails
      BY <2>1, EmptyFits DEF ReplayFails, IInv, TInv, Driver, Steps
    <2>2. CASE NothingToReplay /\ UNCHANGED volume
      BY <2>2, EmptyFits DEF NothingToReplay, IInv, TInv, Driver, Steps, volume
    <2>3. CASE pc' \in ReplaySteps
      BY <2>3 DEF ReplayFails, NothingToReplay, ReplaySteps, IInv, TInv, Driver, Steps, volume
    <2> QED
      BY <2>1, <2>2, <2>3
  <1> QED
    BY <1>1 DEF Onward, ReplayFails, NothingToReplay, ReplaySteps, TxnSteps, volume

\* A replay's reads, and its barrier.
LEMMA ReplayReadKeeps ==
    ASSUME IInv, ReplayReadFails \/ ReplayBarrier
    PROVE  Keeps
  <1>1. Settled /\ pc \in ReplaySteps /\ UNCHANGED <<outcome, stages, crashes>>
    BY Requests DEF ReplayReadFails, ReplayBarrier, ReplaySteps, IInv, TInv
  <1>2. ReplayFails \/ (pc' \in ReplaySteps /\ UNCHANGED <<txn, volume>>)
    BY DEF ReplayReadFails, ReplayBarrier, ReplaySteps
  <1>3. Onward
    BY <1>1, <1>2, ReplayOnward DEF IInv, TInv, Driver, txn
  <1> QED
    BY <1>1, <1>3, SettledStep

\* What a replay takes from a live descriptor or revoke record is a transaction.
LEMMA ReplayParseKeeps ==
    ASSUME IInv, ReplayDescriptor \/ ReplayScan
    PROVE  Keeps
  <1>1. /\ NoRequest /\ pc \in ReplaySteps /\ UNCHANGED <<outcome, stages, crashes>>
        /\ Driver /\ cache \in [Blocks -> Content]
    BY DEF ReplayDescriptor, ReplayScan, ReplaySteps, IInv, TInv, Disk
  <1>2. Settled
    BY <1>1, Requests DEF IInv, TInv
  <1>3. CASE ReplayDescriptor
    <2> DEFINE d == cache[descriptor_block]
    <2>1. d \in Content
      BY <1>1, Layout, JournalAssumption
    <2>2. \/ NothingToReplay /\ UNCHANGED volume
          \/ ReplayFails
          \/ /\ d.type = "descriptor" /\ targets' = d.targets
             /\ index' = image_block(Len(d.targets)) + 1
             /\ pc' = "replay_scan" /\ UNCHANGED <<revokes, volume>>
      BY <1>3 DEF ReplayDescriptor
    <2> HIDE DEF d
    <2>3. CASE /\ d.type = "descriptor" /\ targets' = d.targets
               /\ index' = image_block(Len(d.targets)) + 1
               /\ pc' = "replay_scan" /\ UNCHANGED <<revokes, volume>>
      <3>1. targets' \in Seq(TargetList) /\ Len(targets') <= MAX_TARGETS
        BY <2>1, <2>3, ContentByType
      <3>2. index' \in Nat \ {0}
        <4>1. Len(d.targets) \in Nat /\ index' = image_block(Len(d.targets)) + 1
          BY <2>1, <2>3, ContentByType
        <4>2. image_block(Len(d.targets)) = Len(d.targets) + 2
          BY <4>1, Layout
        <4> QED
          BY <4>1, <4>2
      <3>3. Onward
        BY <1>1, <2>3, <3>1, <3>2, ReplayOnward DEF Driver, ReplaySteps
      <3> QED
        BY <1>2, <3>3, SettledStep
    <2> QED
      BY <1>1, <1>2, <2>2, <2>3, ReplayOnward, SettledStep
  <1>4. CASE ReplayScan
    <2> DEFINE d == IF index \in Log THEN cache[index] ELSE JournalSuper(0)
    <2>1. d \in Content
      BY <1>1, Layout, ContentMade
    <2>2. \/ NothingToReplay /\ UNCHANGED volume
          \/ ReplayFails
          \/ /\ d.type = "revoke" /\ revokes' = d.blocks
             /\ index' = index + 1 /\ UNCHANGED <<pc, targets, volume>>
          \/ index' = 1 /\ pc' = "replay_image" /\ UNCHANGED <<targets, revokes, volume>>
      BY <1>4 DEF ReplayScan
    <2> HIDE DEF d
    <2>3. CASE /\ d.type = "revoke" /\ revokes' = d.blocks
               /\ index' = index + 1 /\ UNCHANGED <<pc, targets, volume>>
      <3>1. revokes' \subseteq Targets /\ Cardinality(revokes') <= MAX_REVOKES
        BY <2>1, <2>3, ContentByType
      <3>2. Onward
        BY <1>1, <2>3, <3>1, ReplayOnward DEF Driver
      <3> QED
        BY <1>2, <3>2, SettledStep
    <2>4. CASE index' = 1 /\ pc' = "replay_image" /\ UNCHANGED <<targets, revokes, volume>>
      <3>1. Onward
        BY <1>1, <2>4, ReplayOnward DEF Driver, ReplaySteps
      <3> QED
        BY <1>2, <3>1, SettledStep
    <2> QED
      BY <1>1, <1>2, <2>2, <2>3, <2>4, ReplayOnward, SettledStep
  <1> QED
    BY <1>3, <1>4

\* A replay writes an image that verifies, to a target of the descriptor.
LEMMA ReplayImageKeeps ==
    ASSUME IInv, ReplayImage
    PROVE  Keeps
  <1> DEFINE t == targets[index].target
             v == cache[image_block(index)]
  <1>1. pc = "replay_image" /\ pc \in ReplaySteps /\ Driver /\ index \in 1..Len(targets)
    BY DEF IInv, TInv, Driver, ReplayImage, ReplaySteps
  <1>2. targets[index] \in TargetList
    BY <1>1, LogSlots
  <1>3. Onward
    <2>1. UNCHANGED <<outcome, stages, crashes>>
      BY DEF ReplayImage
    <2>2. ReplayFails \/ (index' = index + 1 /\ UNCHANGED <<pc, targets, revokes, volume>>)
      BY DEF ReplayImage
    <2> QED
      BY <1>1, <2>1, <2>2, ReplayOnward DEF Driver
  <1>4. CASE NoRequest
    BY <1>3, <1>4, SettledStep, Requests DEF IInv, TInv
  <1>5. CASE Checks(index, v) /\ Wrote(t, v)
    <2>1. t \in Targets /\ t \in Blocks /\ t # SUPER
      BY <1>2, Layout DEF TargetList
    <2>2. v \in Content /\ v.type = "image"
      BY <1>2, <1>5, ContentMade DEF Checks, TargetList
    <2>3. Fits(t, v)
      BY <2>1, <2>2, Layout DEF Fits
    <2> HIDE DEF t, v
    <2> QED
      BY <1>3, <1>5, <2>1, <2>2, <2>3, WroteStep
  <1> QED
    BY <1>4, <1>5, Requests DEF ReplayImage, IInv, TInv

\* The tail retires a replayed transaction.
LEMMA ReplayTailKeeps ==
    ASSUME IInv, ReplayTail
    PROVE  Keeps
  <1>1. pc \in ReplaySteps /\ Wrote(J_START, JournalSuper(RetiredTail))
    BY Requests DEF ReplayTail, IInv, TInv, ReplaySteps
  <1>2. UNCHANGED <<outcome, stages, crashes>>
    BY DEF ReplayTail
  <1>3. CASE ReplayFails
    <2>1. Onward
      BY <1>1, <1>2, <1>3, ReplayOnward
    <2> QED
      BY <1>1, <1>3, <2>1, TailFits, WroteStep DEF ReplayFails, TxnSteps
  <1>4. CASE /\ nextSeq' = RetiredTail /\ pc' = "idle" /\ EmptyTxn
             /\ UNCHANGED <<state, readOnly, dirtyMarked>>
    <2>1. Driver'
      BY <1>2, <1>4, EmptyFits, TailFits DEF IInv, TInv, Driver, Steps
    <2>2. Onward
      BY <1>1, <1>4, <2>1 DEF Onward, ReplaySteps, TxnSteps
    <2> QED
      BY <1>1, <1>4, <2>2, TailFits, WroteStep DEF TxnSteps
  <1> QED
    BY <1>3, <1>4 DEF ReplayTail

-----------------------------------------------------------------------------
(* The whole. *)

\* The blocks a committed log frees are metadata blocks.
LEMMA FreedFits ==
    ASSUME NEW m, Disk(m), freed \subseteq Targets
    PROVE  FreedBy(m) \subseteq Targets
  <1>1. CASE ~Committed(m)
    BY <1>1 DEF FreedBy
  <1>2. CASE Committed(m)
    <2> DEFINE ts == LogTargets(m)
               b == image_block(Len(ts)) + 1
    <2>1. m[descriptor_block] \in Content /\ m[descriptor_block].type = "descriptor"
      BY <1>2, Layout, JournalAssumption DEF Committed, Disk
    <2>2. ts \in Seq(TargetList) /\ Len(ts) \in Nat /\ Len(ts) <= MAX_TARGETS
      BY <2>1, ContentByType DEF LogTargets
    <2>3. image_block(Len(ts)) = Len(ts) + 2
      BY <2>2, Layout
    <2>4. b \in 2..(MAX_TARGETS + 4)
      BY <2>2, <2>3, JournalAssumption
    <2>5. m[b] \in Content
      BY <2>4, Layout DEF Disk
    <2>6. m[b].type = "revoke" => m[b].blocks \in SUBSET Targets
      BY <2>5, ContentByType
    <2>7. LogRevokes(m) \subseteq Targets
      BY <2>6 DEF LogRevokes, HasRevoke
    <2> QED
      BY <1>2, <2>7 DEF FreedBy
  <1> QED
    BY <1>1, <1>2

\* A formatted volume satisfies the invariant.
LEMMA InitInv ==
    ASSUME Init
    PROVE  IInv
  <1>1. Disk(Formatted)
    <2>1. Image({}) \in Content /\ Image({}).type = "image"
      BY ContentMade
    <2>2. JournalSuper(1) \in Content /\ JournalSuper(1).type = "tail"
      BY ContentMade
    <2>3. Super("CLEAN") \in Content /\ Super("CLEAN").type = "super"
      BY ContentMade
    <2> QED
      BY <2>1, <2>2, <2>3, Layout DEF Formatted, Disk
  <1>2. Driver
    <2>1. targets \in Seq(TargetList) /\ Len(targets) = 0 /\ Cardinality(revokes) = 0
      BY FS_EmptySet DEF Init
    <2>2. readOnly \in BOOLEAN /\ dirtyMarked \in BOOLEAN /\ revokes \subseteq Targets
      BY DEF Init
    <2>3. Len(targets) <= MAX_TARGETS /\ Cardinality(revokes) <= MAX_REVOKES
      BY <2>1, JournalAssumption
    <2>4. /\ nextSeq \in Nat /\ index \in Nat \ {0}
          /\ stages \in 0..MaxStages /\ crashes \in 0..MaxCrashes
      BY JournalAssumption DEF Init
    <2>5. /\ pc \in Steps /\ state \in {"CLEAN", "DIRTY", "ERROR"} /\ targets = << >>
          /\ outcome \in {"none", "ok", "failed"}
      BY DEF Init, Steps
    <2> QED
      BY <2>1, <2>2, <2>3, <2>4, <2>5 DEF Driver
  <1>3. StagedAreImages
    BY DEF Init, StagedAreImages, TxnSteps
  <1>4. Formatted[SUPER].state # "ERROR"
    BY Layout, ContentMade DEF Formatted
  <1>5. ErrorKnown
    BY <1>4 DEF Init, ErrorKnown
  <1> QED
    BY <1>1, <1>2, <1>3, <1>5, JournalAssumption DEF Init, IInv, TInv

\* Every step of the driver and of the device keeps it,
LEMMA StepKeeps ==
    ASSUME IInv, Step
    PROVE  Keeps
  <1>1. CASE Replay
    BY <1>1, ReplayReadKeeps, ReplayParseKeeps, ReplayImageKeeps, ReplayTailKeeps, MarkKeeps DEF Replay
  <1>2. CASE Commit
    BY <1>2, LogKeeps, BarrierKeeps, CheckpointKeeps, QuietKeeps, WriteTailKeeps DEF Commit
  <1>3. CASE \E t \in Targets : Stage(t) \/ TxnRevoke(t)
    BY <1>3, StageKeeps, QuietKeeps
  <1>4. CASE \E b \in Blocks : Writeback(b)
    BY <1>4, WritebackKeeps
  <1> QED
    BY <1>1, <1>2, <1>3, <1>4, MountKeeps, TxnOpenKeeps, QuietKeeps, MarkKeeps, BarrierSyncKeeps,
       DownKeeps
    DEF Step

\* and so does the bookkeeping of the blocks that are free.
LEMMA NextInv ==
    ASSUME IInv, [Next]_vars
    PROVE  IInv' /\ KeepsMark
  <1>1. CASE Next
    <2>1. Keeps /\ freed' = FreedBy(media')
      BY <1>1, StepKeeps DEF Next
    <2>2. Disk(media') /\ freed \subseteq Targets
      BY <2>1 DEF Keeps, TInv, IInv
    <2> QED
      BY <2>1, <2>2, FreedFits DEF Keeps, IInv, Targets
  <1>2. CASE UNCHANGED vars
    <2>1. UNCHANGED <<media, cache, freed, pc, state, readOnly, dirtyMarked, nextSeq, targets,
                      revokes, index, outcome, stages, crashes, faults>>
      BY <1>2 DEF vars, volume, txn
    <2>2. TInv' /\ ErrorKnown'
      BY <2>1 DEF IInv, TInv, Driver, StagedAreImages, ErrorKnown, image_block, descriptor_block,
                  SUPER, Disk
    <2> QED
      BY <2>1, <2>2 DEF IInv, KeepsMark
  <1> QED
    BY <1>1, <1>2

\* Whatever fails or crashes, the two superblocks and the metadata blocks hold
\* only their kind, on the media and in the cache, and a transaction, whether
\* staged by wfs_txn_stage_take and wfs_txn_revoke or parsed from the log by a
\* replay, stays within WFS_TXN_MAX_TARGETS and WFS_TXN_MAX_REVOKES.
THEOREM JournalTypeCorrect == Spec => []TypeOK
  <1>1. IInv => TypeOK
    <2> SUFFICES ASSUME IInv PROVE TypeOK
      OBVIOUS
    <2>1. media \in [Blocks -> Contents] /\ cache \in [Blocks -> Contents]
      BY DEF IInv, TInv, Disk, Content
    <2> QED
      BY <2>1 DEF IInv, TInv, Disk, Driver, TypeOK
  <1> QED
    BY <1>1, InitInv, NextInv, PTL DEF Spec

\* A volume whose superblock says ERROR on the media keeps saying so, through
\* any mounts, crashes and failed requests: wfs_super_parse mounts it read-only,
\* and a read-only volume is neither marked dirty (wfs_mark_dirty_task) nor clean
\* (wfs_sync_task).
THEOREM ErrorSticky == Spec => ErrorIsSticky
  <1>1. IInv /\ [Next]_vars => [media[SUPER].state = "ERROR" => media'[SUPER].state = "ERROR"]_vars
    BY NextInv DEF KeepsMark
  <1> QED
    BY <1>1, InitInv, NextInv, PTL DEF Spec, ErrorIsSticky

-----------------------------------------------------------------------------
(***************************************************************************)
(* Recovery.  What a mount would find, for the media m and the cache c, in *)
(* every state: the two differ only in what the log makes up for.          *)
(***************************************************************************)

TailSeq(m) == m[J_START].seq

\* No record is newer than the tail, and the descriptors have a block of their own.
Ordered(m) == \A b \in Log : m[b].type \in RecordTypes =>
                  /\ m[b].type = "descriptor" <=> b = descriptor_block
                  /\ m[b].seq <= TailSeq(m)

\* The log holds no transaction that a mount would replay.
Quiet(m) == \A b \in Log : m[b].type = "commit" => m[b].seq # TailSeq(m)

\* No block is staged twice.
Distinct(ts) == \A i, j \in 1..Len(ts) : ts[i].target = ts[j].target => i = j

\* The log holds one, with every image that its descriptor names.
Whole(m) == /\ Committed(m)
            /\ m[SUPER].state # "CLEAN"
            /\ LogTargets(m) # << >> \/ LogRevokes(m) # {}
            /\ Distinct(LogTargets(m))
            /\ \A i \in 1..Len(LogTargets(m)) : m[image_block(i)] = Image(LogTargets(m)[i].checksum)

\* The images before the k-th are in their metadata blocks.
HomedTo(m, k) == \A i \in 1..Len(LogTargets(m)) :
                    i < k /\ LogTargets(m)[i].target \notin LogRevokes(m)
                       => m[LogTargets(m)[i].target] = m[image_block(i)]
Homed(m) == HomedTo(m, Len(LogTargets(m)) + 1)

LogNames(m) == {LogTargets(m)[i].target : i \in 1..Len(LogTargets(m))}

CommitAt(m) == image_block(Len(LogTargets(m))) + (IF HasRevoke(m) THEN 2 ELSE 1)

SameTargets(m, c) == \A t \in Targets : m[t] = c[t]
SameLog(m, c) == \A b \in Log : m[b] = c[b]
SameTail(m, c) == m[J_START] = c[J_START]

(* The four relations of the media to the cache. *)

\* The tail has retired a transaction in the cache only.
Retired(m, c) == /\ TailSeq(c) = TailSeq(m) + 1
                 /\ Whole(m) /\ Homed(m)
                 /\ Quiet(c)
                 /\ SameTargets(m, c)

\* Neither has a transaction.
Empty(m, c) == SameTail(m, c) /\ Quiet(m) /\ Quiet(c) /\ SameTargets(m, c)

\* The cache has one whose COMMIT record the media lacks.
Committing(m, c) == /\ SameTail(m, c) /\ SameTargets(m, c)
                    /\ Quiet(m) /\ Whole(c)
                    /\ m[SUPER].state # "CLEAN"
                    /\ \A b \in Log : b # CommitAt(c) => m[b] = c[b]

\* Both have it.
Held(m, c) == /\ SameTail(m, c) /\ SameLog(m, c)
              /\ Whole(m) /\ Whole(c)
              /\ \A t \in Targets : t \notin LogNames(c) => m[t] = c[t]

\* The cache serves what the media would recover to.
Steady(m, c) == Retired(m, c) \/ Empty(m, c)

-----------------------------------------------------------------------------
(* The log of a disk. *)

\* Every record has a sequence.
LEMMA RecordSeq ==
    ASSUME NEW v \in Content, v.type \in RecordTypes
    PROVE  v.seq \in Nat
  BY DEF Content, Contents, RecordTypes

\* The tail of a disk.
LEMMA TailIsNat ==
    ASSUME NEW m, Disk(m)
    PROVE  TailSeq(m) \in Nat
  BY Layout, ContentByType DEF Disk, TailSeq

\* Where the log's blocks are.
LEMMA LogLayout ==
    /\ \A b \in Log : b \in Nat /\ b \in Blocks /\ b # SUPER /\ b # J_START /\ b \notin Targets
    /\ Log = 2..(MAX_TARGETS + 4)
    /\ descriptor_block \in Log
  BY JournalAssumption
  DEF SUPER, J_START, Blocks, Targets, Log, J_BLOCKS, LogBlocks, descriptor_block

\* The parts of the log that a descriptor describes.
LEMMA LogOf ==
    ASSUME NEW m, Disk(m), m[descriptor_block].type = "descriptor"
    PROVE  /\ LogTargets(m) \in Seq(TargetList)
           /\ Len(LogTargets(m)) \in 0..MAX_TARGETS
           /\ \A i \in 1..Len(LogTargets(m)) : /\ LogTargets(m)[i] \in TargetList
                                               /\ LogTargets(m)[i].target \in Targets
                                               /\ image_block(i) = i + 2 /\ image_block(i) \in Log
           /\ image_block(Len(LogTargets(m))) = Len(LogTargets(m)) + 2
           /\ image_block(Len(LogTargets(m))) + 1 \in Log
           /\ CommitAt(m) \in Log
           /\ CommitAt(m) = Len(LogTargets(m)) + (IF HasRevoke(m) THEN 4 ELSE 3)
           /\ LogRevokes(m) \subseteq Targets
  <1> DEFINE ts == LogTargets(m)
             b == image_block(Len(ts)) + 1
  <1>1. m[descriptor_block] \in Content
    BY LogLayout DEF Disk
  <1>2. ts \in Seq(TargetList) /\ Len(ts) \in Nat /\ Len(ts) <= MAX_TARGETS
    BY <1>1, ContentByType DEF LogTargets
  <1> HIDE DEF ts
  <1>3. Len(ts) \in 0..MAX_TARGETS
    BY <1>2, JournalAssumption
  <1>4. image_block(Len(ts)) = Len(ts) + 2
    BY <1>2, Layout
  <1>5. \A i \in 1..Len(ts) : ts[i] \in TargetList /\ ts[i].target \in Targets
    <2>1. \A i \in 1..Len(ts) : ts[i] \in TargetList
      BY <1>2
    <2>2. \A e \in TargetList : e.target \in Targets
      BY DEF TargetList
    <2> QED
      BY <2>1, <2>2
  <1>6. \A i \in 1..Len(ts) : image_block(i) = i + 2 /\ image_block(i) \in Log
    <2> SUFFICES ASSUME NEW i \in 1..Len(ts)
                 PROVE  image_block(i) = i + 2 /\ image_block(i) \in Log
      OBVIOUS
    <2>1. i \in Nat /\ i + 2 \in 2..(MAX_TARGETS + 4)
      BY <1>3, JournalAssumption
    <2> QED
      BY <2>1, Layout, LogLayout
  <1>7. b = Len(ts) + 3 /\ b \in Log
    BY <1>3, <1>4, JournalAssumption, LogLayout
  <1>8. CommitAt(m) = Len(ts) + (IF HasRevoke(m) THEN 4 ELSE 3) /\ CommitAt(m) \in Log
    BY <1>3, <1>4, JournalAssumption, LogLayout DEF CommitAt, ts
  <1>9. LogRevokes(m) \subseteq Targets
    <2>1. m[b] \in Content
      BY <1>7, LogLayout DEF Disk
    <2>2. m[b].type = "revoke" => m[b].blocks \in SUBSET Targets
      BY <2>1, ContentByType
    <2> QED
      BY <2>2 DEF LogRevokes, HasRevoke, ts
  <1> QED
    BY <1>2, <1>3, <1>4, <1>5, <1>6, <1>7, <1>8, <1>9 DEF ts

\* What a committed log is.
LEMMA CommittedIs ==
    ASSUME NEW m
    PROVE  Committed(m) <=> /\ m[descriptor_block].type = "descriptor"
                            /\ m[descriptor_block].seq = TailSeq(m)
                            /\ CommitAt(m) \in Log
                            /\ m[CommitAt(m)] = CommitRecord(TailSeq(m), Len(LogTargets(m)))
  BY DEF Committed, CommitAt, TailSeq, Live, RecordTypes

\* A quiet log is not committed.
LEMMA QuietLog ==
    ASSUME NEW m, Quiet(m)
    PROVE  ~Committed(m)
  <1>1. CommitRecord(TailSeq(m), Len(LogTargets(m))).type = "commit"
        /\ CommitRecord(TailSeq(m), Len(LogTargets(m))).seq = TailSeq(m)
    BY DEF CommitRecord
  <1>2. ~(CommitAt(m) \in Log /\ m[CommitAt(m)] = CommitRecord(TailSeq(m), Len(LogTargets(m))))
    BY <1>1 DEF Quiet
  <1> QED
    BY <1>2, CommittedIs

\* A mount finds the same in two disks with the same log and tail.
LEMMA SameLogSame ==
    ASSUME NEW m, NEW n, Disk(m), Disk(n), SameTail(m, n), SameLog(m, n)
    PROVE  /\ TailSeq(m) = TailSeq(n)
           /\ Ordered(m) => Ordered(n)
           /\ Quiet(m) => Quiet(n)
           /\ LogTargets(m) = LogTargets(n)
           /\ LogNames(m) = LogNames(n)
           /\ m[descriptor_block].type = "descriptor" => /\ HasRevoke(m) <=> HasRevoke(n)
                                                         /\ LogRevokes(m) = LogRevokes(n)
                                                         /\ CommitAt(m) = CommitAt(n)
           /\ Committed(m) => Committed(n) /\ LogRevokes(m) = LogRevokes(n)
           /\ Whole(m) /\ n[SUPER].state # "CLEAN" => Whole(n)
  <1>1. TailSeq(m) = TailSeq(n) /\ LogTargets(m) = LogTargets(n) /\ LogNames(m) = LogNames(n)
        /\ m[descriptor_block] = n[descriptor_block]
    BY LogLayout DEF SameTail, SameLog, TailSeq, LogTargets, LogNames
  <1>2. (Ordered(m) => Ordered(n)) /\ (Quiet(m) => Quiet(n))
    BY <1>1 DEF Ordered, Quiet, SameLog
  <1>3. m[descriptor_block].type = "descriptor" => /\ HasRevoke(m) <=> HasRevoke(n)
                                                   /\ LogRevokes(m) = LogRevokes(n)
                                                   /\ CommitAt(m) = CommitAt(n)
    <2> SUFFICES ASSUME m[descriptor_block].type = "descriptor"
                 PROVE  /\ HasRevoke(m) <=> HasRevoke(n)
                        /\ LogRevokes(m) = LogRevokes(n)
                        /\ CommitAt(m) = CommitAt(n)
      OBVIOUS
    <2>1. image_block(Len(LogTargets(m))) + 1 \in Log
      BY LogOf
    <2>2. m[image_block(Len(LogTargets(m))) + 1] = n[image_block(Len(LogTargets(n))) + 1]
      BY <1>1, <2>1 DEF SameLog
    <2>3. HasRevoke(m) <=> HasRevoke(n)
      BY <1>1, <2>2 DEF HasRevoke, TailSeq
    <2> QED
      BY <1>1, <2>2, <2>3 DEF LogRevokes, CommitAt
  <1>4. Committed(m) => Committed(n) /\ LogRevokes(m) = LogRevokes(n)
    <2> SUFFICES ASSUME Committed(m) PROVE Committed(n) /\ LogRevokes(m) = LogRevokes(n)
      OBVIOUS
    <2>1. /\ m[descriptor_block].type = "descriptor"
          /\ m[descriptor_block].seq = TailSeq(m)
          /\ CommitAt(m) \in Log
          /\ m[CommitAt(m)] = CommitRecord(TailSeq(m), Len(LogTargets(m)))
      BY CommittedIs
    <2>2. n[CommitAt(n)] = m[CommitAt(m)] /\ CommitAt(n) \in Log
      BY <1>3, <2>1 DEF SameLog
    <2> QED
      BY <1>1, <1>3, <2>1, <2>2, CommittedIs
  <1>5. Whole(m) /\ n[SUPER].state # "CLEAN" => Whole(n)
    <2> SUFFICES ASSUME Whole(m), n[SUPER].state # "CLEAN" PROVE Whole(n)
      OBVIOUS
    <2>1. Committed(n) /\ m[descriptor_block].type = "descriptor"
      BY <1>4, CommittedIs DEF Whole
    <2>2. \A i \in 1..Len(LogTargets(m)) : n[image_block(i)] = m[image_block(i)]
      BY <2>1, LogOf DEF SameLog
    <2> QED
      BY <1>1, <1>4, <2>1, <2>2 DEF Whole
  <1> QED
    BY <1>1, <1>2, <1>3, <1>4, <1>5

\* A tail one further on makes a log quiet.
LEMMA PassedLog ==
    ASSUME NEW m, NEW n, Disk(m), Ordered(m), SameLog(m, n), TailSeq(n) = TailSeq(m) + 1
    PROVE  Ordered(n) /\ Quiet(n)
  <1>1. TailSeq(m) \in Nat
    BY TailIsNat
  <1>2. \A b \in Log : m[b].type \in RecordTypes => m[b].seq \in Nat
    BY RecordSeq, LogLayout DEF Disk
  <1>3. \A b \in Log : n[b].type \in RecordTypes => n[b].seq \in Nat /\ n[b].seq <= TailSeq(m)
    BY <1>2 DEF SameLog, Ordered
  <1>4. \A b \in Log : n[b].type \in RecordTypes => n[b].seq <= TailSeq(n) /\ n[b].seq # TailSeq(n)
    BY <1>1, <1>3
  <1>5. Ordered(n)
    BY <1>4 DEF Ordered, SameLog
  <1>6. Quiet(n)
    BY <1>4 DEF Quiet, RecordTypes
  <1> QED
    BY <1>5, <1>6

-----------------------------------------------------------------------------
(* What a request, the device or a power cut makes of media and cache. *)

\* A flush, and a power cut.
LEMMA FlushedModes ==
    ASSUME NEW m, NEW c
    PROVE  /\ Steady(m, c) => Empty(c, c)
           /\ Committing(m, c) => Held(c, c)
           /\ Held(m, c) => Held(c, c)
  BY DEF Steady, Retired, Empty, Committing, Held, SameTail, SameLog, SameTargets

\* A power cut, which loses the cache: the media alone is one of the four.
LEMMA CutModes ==
    ASSUME NEW m, NEW c
    PROVE  /\ Retired(m, c) => Held(m, m)
           /\ Empty(m, c) => Empty(m, m)
           /\ Committing(m, c) => Empty(m, m)
           /\ Held(m, c) => Held(m, m)
  BY DEF Retired, Empty, Committing, Held, SameTail, SameLog, SameTargets

\* A transaction in the home blocks of one disk is in those of another with the
\* same log and the same metadata blocks.
LEMMA HomedSame ==
    ASSUME NEW m, NEW n, Disk(m), Disk(n), SameTail(m, n), SameLog(m, n), Whole(m), Homed(m),
           SameTargets(m, n)
    PROVE  Homed(n)
  <1>1. m[descriptor_block].type = "descriptor"
    BY CommittedIs DEF Whole
  <1>2. LogTargets(m) = LogTargets(n) /\ LogRevokes(m) = LogRevokes(n)
    BY <1>1, SameLogSame
  <1>3. \A i \in 1..Len(LogTargets(m)) : LogTargets(m)[i].target \in Targets /\ image_block(i) \in Log
    BY <1>1, LogOf
  <1>4. \A i \in 1..Len(LogTargets(m)) : /\ n[image_block(i)] = m[image_block(i)]
                                         /\ n[LogTargets(m)[i].target] = m[LogTargets(m)[i].target]
    BY <1>3 DEF SameLog, SameTargets
  <1> QED
    BY <1>2, <1>4 DEF Homed, HomedTo

\* A block that the device writes back: with the tail's order kept, the retired
\* transaction leaves the media first, and nothing else changes what a mount finds
\* but the COMMIT record.
LEMMA WritebackModes ==
    ASSUME NEW m, NEW c, NEW n, Disk(m), Disk(c), Disk(n), Ordered(m), Ordered(c),
           NEW b \in Blocks, n = [m EXCEPT ![b] = c[b]], m[b] # c[b],
           b = J_START \/ SameTail(m, c), Steady(m, c) \/ Committing(m, c) \/ Held(m, c)
    PROVE  /\ Ordered(n)
           /\ Retired(m, c) => Empty(n, c) /\ b = J_START
           /\ Empty(m, c) => Empty(n, c)
           /\ Committing(m, c) => \/ Committing(n, c) /\ b = SUPER
                                  \/ Held(n, c) /\ b = CommitAt(c)
           /\ Held(m, c) => Held(n, c) /\ (b = SUPER \/ b \in LogNames(c))
  <1>1. /\ n[b] = c[b]
        /\ \A i \in Blocks : i # b => n[i] = m[i]
        /\ SUPER \in Blocks /\ J_START \in Blocks /\ SUPER # J_START /\ Log \subseteq Blocks
        /\ Targets \subseteq Blocks /\ SUPER \notin Targets /\ J_START \notin Targets
    BY Layout DEF Disk
  <1>2. ASSUME Retired(m, c)
        PROVE  Ordered(n) /\ Empty(n, c) /\ b = J_START
    <2>1. TailSeq(c) = TailSeq(m) + 1 /\ Quiet(c) /\ SameTargets(m, c) /\ TailSeq(m) \in Nat
      BY <1>2, TailIsNat DEF Retired
    <2>2. b = J_START
      BY <2>1 DEF SameTail, TailSeq
    <2>3. SameLog(m, n) /\ SameTail(n, c) /\ TailSeq(n) = TailSeq(c)
      BY <1>1, <2>2, LogLayout DEF SameLog, SameTail, TailSeq
    <2>4. Ordered(n) /\ Quiet(n)
      BY <2>1, <2>3, PassedLog
    <2>5. SameTargets(n, c)
      BY <1>1, <2>1, <2>2 DEF SameTargets
    <2> QED
      BY <2>1, <2>2, <2>3, <2>4, <2>5 DEF Empty
  <1>3. ASSUME SameTail(m, c)
        PROVE  /\ b # J_START /\ SameTail(n, c) /\ TailSeq(n) = TailSeq(m) /\ TailSeq(n) = TailSeq(c)
               /\ \A i \in Log : n[i] = m[i] \/ n[i] = c[i]
               /\ Ordered(n)
    <2>1. b # J_START
      BY <1>3 DEF SameTail
    <2>2. SameTail(n, c) /\ TailSeq(n) = TailSeq(m) /\ TailSeq(n) = TailSeq(c)
      BY <1>1, <1>3, <2>1 DEF SameTail, TailSeq
    <2>3. \A i \in Log : n[i] = m[i] \/ n[i] = c[i]
      BY <1>1
    <2> QED
      BY <2>1, <2>2, <2>3 DEF Ordered
  <1>4. ASSUME Empty(m, c)
        PROVE  Empty(n, c)
    <2>1. SameTail(m, c) /\ Quiet(m) /\ Quiet(c) /\ SameTargets(m, c)
      BY <1>4 DEF Empty
    <2>2. Quiet(n)
      BY <1>3, <2>1 DEF Quiet
    <2>3. SameTargets(n, c)
      BY <1>1, <2>1 DEF SameTargets
    <2> QED
      BY <1>3, <2>1, <2>2, <2>3 DEF Empty
  <1>5. ASSUME Committing(m, c)
        PROVE  \/ Committing(n, c) /\ b = SUPER
               \/ Held(n, c) /\ b = CommitAt(c)
    <2>1. /\ SameTail(m, c) /\ SameTargets(m, c) /\ Quiet(m) /\ Whole(c)
          /\ m[SUPER].state # "CLEAN" /\ c[SUPER].state # "CLEAN"
          /\ \A i \in Log : i # CommitAt(c) => m[i] = c[i]
      BY <1>5 DEF Committing, Whole
    <2>2. b \notin Targets /\ b # J_START
      BY <1>3, <2>1 DEF SameTargets
    <2>3. b = SUPER \/ b = CommitAt(c)
      <3>1. \A i \in Blocks : i = SUPER \/ i = J_START \/ i \in Log \/ i \in Targets
        BY JournalAssumption
        DEF SUPER, J_START, Blocks, Targets, Log, J_BLOCKS, LogBlocks
      <3> QED
        BY <2>1, <2>2, <3>1
    <2>4. CommitAt(c) \in Log
      BY <2>1, CommittedIs DEF Whole
    <2>5. CASE b = SUPER
      <3>1. SameLog(m, n)
        BY <1>1, <2>5, LogLayout DEF SameLog
      <3>2. Quiet(n)
        BY <1>3, <2>1, <3>1 DEF Quiet, SameLog
      <3>3. SameTargets(n, c) /\ n[SUPER].state # "CLEAN"
        BY <1>1, <2>1, <2>5 DEF SameTargets
      <3>4. \A i \in Log : i # CommitAt(c) => n[i] = c[i]
        BY <2>1, <3>1 DEF SameLog
      <3> QED
        BY <1>3, <2>1, <2>5, <3>2, <3>3, <3>4 DEF Committing
    <2>6. CASE b = CommitAt(c)
      <3>1. SameLog(n, c) /\ SameLog(c, n) /\ SameTail(c, n) /\ SameTail(n, c)
        BY <1>1, <1>3, <2>1, <2>6 DEF SameLog, SameTail
      <3>2. n[SUPER].state # "CLEAN" /\ SameTargets(n, c)
        BY <1>1, <2>1, <2>4, <2>6, LogLayout DEF SameTargets
      <3>3. Whole(n)
        BY <2>1, <3>1, <3>2, SameLogSame
      <3> QED
        BY <2>1, <2>6, <3>1, <3>2, <3>3 DEF Held, SameTargets
    <2> QED
      BY <2>3, <2>5, <2>6
  <1>6. ASSUME Held(m, c)
        PROVE  Held(n, c) /\ (b = SUPER \/ b \in LogNames(c))
    <2>1. /\ SameTail(m, c) /\ SameLog(m, c) /\ Whole(m) /\ Whole(c)
          /\ \A t \in Targets : t \notin LogNames(c) => m[t] = c[t]
          /\ c[SUPER].state # "CLEAN" /\ m[SUPER].state # "CLEAN"
      BY <1>6 DEF Held, Whole
    <2>2. b = SUPER \/ b \in LogNames(c)
      <3>1. \A i \in Blocks : i = SUPER \/ i = J_START \/ i \in Log \/ i \in Targets
        BY JournalAssumption
        DEF SUPER, J_START, Blocks, Targets, Log, J_BLOCKS, LogBlocks
      <3> QED
        BY <1>3, <2>1, <3>1 DEF SameLog
    <2>3. SameLog(n, c) /\ SameLog(c, n) /\ SameTail(c, n) /\ SameTail(n, c)
      BY <1>1, <1>3, <2>1 DEF SameLog, SameTail
    <2>4. n[SUPER].state # "CLEAN" /\ \A t \in Targets : t \notin LogNames(c) => n[t] = c[t]
      BY <1>1, <2>1
    <2>5. Whole(n)
      BY <2>1, <2>3, <2>4, SameLogSame
    <2> QED
      BY <2>1, <2>2, <2>3, <2>4, <2>5 DEF Held
  <1>7. Ordered(n)
    <2>1. Retired(m, c) \/ SameTail(m, c)
      BY DEF Steady, Empty, Committing, Held
    <2> QED
      BY <1>2, <1>3, <2>1
  <1> QED
    BY <1>2, <1>4, <1>5, <1>6, <1>7

\* A write to the log of something that is no COMMIT of the present sequence: what
\* a mount finds stays, on the media and in the cache.
LEMMA LogWriteModes ==
    ASSUME NEW m, NEW c, NEW n, Disk(c), Ordered(c), NEW b \in Log, NEW v,
           n \in {c, [c EXCEPT ![b] = v]},
           v.type \in RecordTypes => /\ v.type = "descriptor" <=> b = descriptor_block
                                     /\ v.seq <= TailSeq(c),
           v.type = "commit" => v.seq # TailSeq(c)
    PROVE  /\ Ordered(n) /\ TailSeq(n) = TailSeq(c)
           /\ Retired(m, c) => Retired(m, n)
           /\ Empty(m, c) => Empty(m, n)
  <1>1. /\ \A i \in Log : n[i] = c[i] \/ (i = b /\ n[i] = v)
        /\ \A i \in Blocks : i \notin Log => n[i] = c[i]
    BY LogLayout DEF Disk
  <1>2. n[J_START] = c[J_START] /\ \A t \in Targets : n[t] = c[t]
    BY <1>1, Layout, LogLayout
  <1>3. TailSeq(n) = TailSeq(c)
    BY <1>2 DEF TailSeq
  <1>4. Ordered(n) /\ (Quiet(c) => Quiet(n))
    BY <1>1, <1>3 DEF Ordered, Quiet
  <1>5. (SameTargets(m, c) => SameTargets(m, n)) /\ (SameTail(m, c) => SameTail(m, n))
    BY <1>2 DEF SameTargets, SameTail
  <1> QED
    BY <1>3, <1>4, <1>5 DEF Retired, Empty

\* A write outside the log and its tail.
LEMMA HomeWriteModes ==
    ASSUME NEW m, NEW c, NEW n, Disk(c), Disk(n), Ordered(c), NEW b \in Blocks, NEW v,
           b \notin Log, b # J_START, n \in {c, [c EXCEPT ![b] = v]}
    PROVE  /\ SameTail(c, n) /\ SameLog(c, n) /\ SameTail(n, c) /\ SameLog(n, c)
           /\ Ordered(n) /\ TailSeq(n) = TailSeq(c)
           /\ LogTargets(n) = LogTargets(c) /\ LogNames(n) = LogNames(c)
           /\ b = SUPER => /\ SameTargets(c, n)
                           /\ Retired(m, c) => Retired(m, n)
                           /\ Empty(m, c) => Empty(m, n)
           /\ n[SUPER].state # "CLEAN" /\ Held(m, c) /\ (b = SUPER \/ b \in LogNames(c)) => Held(m, n)
  <1>1. \A i \in Blocks : i # b => n[i] = c[i]
    BY DEF Disk
  <1>2. SameTail(c, n) /\ SameLog(c, n) /\ SameTail(n, c) /\ SameLog(n, c)
    BY <1>1, Layout, LogLayout DEF SameTail, SameLog
  <1>3. /\ Ordered(n) /\ TailSeq(n) = TailSeq(c) /\ (Quiet(c) => Quiet(n))
        /\ LogTargets(n) = LogTargets(c) /\ LogNames(n) = LogNames(c)
    BY <1>2, SameLogSame
  <1>4. ASSUME b = SUPER
        PROVE  /\ SameTargets(c, n)
               /\ Retired(m, c) => Retired(m, n)
               /\ Empty(m, c) => Empty(m, n)
    <2>1. \A t \in Targets : n[t] = c[t]
      BY <1>1, <1>4, Layout
    <2>2. SameTargets(c, n) /\ (SameTargets(m, c) => SameTargets(m, n))
      BY <2>1 DEF SameTargets
    <2>3. SameTail(m, c) => SameTail(m, n)
      BY <1>2 DEF SameTail
    <2> QED
      BY <1>3, <2>2, <2>3 DEF Retired, Empty
  <1>5. ASSUME n[SUPER].state # "CLEAN", Held(m, c), b = SUPER \/ b \in LogNames(c)
        PROVE  Held(m, n)
    <2>1. /\ SameTail(m, c) /\ SameLog(m, c) /\ Whole(m) /\ Whole(c)
          /\ \A t \in Targets : t \notin LogNames(c) => m[t] = c[t]
      BY <1>5 DEF Held
    <2>2. SameTail(m, n) /\ SameLog(m, n)
      BY <1>2, <2>1 DEF SameTail, SameLog
    <2>3. Whole(n)
      BY <1>2, <1>5, <2>1, SameLogSame
    <2>4. \A t \in Targets : t \notin LogNames(n) => m[t] = n[t]
      BY <1>1, <1>3, <1>5, <2>1, Layout
    <2> QED
      BY <2>1, <2>2, <2>3, <2>4 DEF Held
  <1> QED
    BY <1>2, <1>3, <1>4, <1>5

\* The tail's write retires a transaction that is in its home blocks.
LEMMA TailWriteModes ==
    ASSUME NEW m, NEW c, NEW n, Disk(m), Disk(c), Disk(n), Ordered(c), Held(m, c), Homed(c),
           SameTargets(m, c), n = [c EXCEPT ![J_START] = JournalSuper(TailSeq(c) + 1)]
    PROVE  Retired(m, n) /\ Ordered(n) /\ TailSeq(n) = TailSeq(c) + 1
  <1>1. /\ \A i \in Blocks : i # J_START => n[i] = c[i]
        /\ n[J_START] = JournalSuper(TailSeq(c) + 1)
    BY Layout DEF Disk
  <1>2. TailSeq(n) = TailSeq(c) + 1
    BY <1>1 DEF TailSeq, JournalSuper
  <1>3. SameLog(c, n) /\ \A t \in Targets : n[t] = c[t]
    BY <1>1, Layout, LogLayout DEF SameLog
  <1>4. Ordered(n) /\ Quiet(n)
    BY <1>2, <1>3, PassedLog
  <1>5. /\ SameTail(c, m) /\ SameLog(c, m) /\ Whole(c) /\ Whole(m) /\ TailSeq(c) = TailSeq(m)
        /\ SameTargets(c, m)
    BY DEF Held, SameTail, SameLog, TailSeq, SameTargets
  <1>6. Homed(m)
    BY <1>5, HomedSame
  <1>7. SameTargets(m, n)
    BY <1>3 DEF SameTargets
  <1> QED
    BY <1>2, <1>4, <1>5, <1>6, <1>7 DEF Retired

\* The COMMIT record makes a logged transaction one that a mount would replay.
LEMMA CommitWriteModes ==
    ASSUME Disk(media), Disk(cache), Disk(cache'), Ordered(cache), Empty(media, cache), SameLog(media, cache),
           media[SUPER] = cache[SUPER], cache[SUPER].state # "CLEAN",
           targets \in Seq(TargetList), Len(targets) <= MAX_TARGETS, targets # << >> \/ revokes # {},
           cache[descriptor_block] = Descriptor(TailSeq(cache), targets), Distinct(targets),
           \A i \in 1..Len(targets) : cache[image_block(i)] = Image(targets[i].checksum),
           commit_block = Len(targets) + (IF revokes # {} THEN 4 ELSE 3),
           revokes # {} => cache[Len(targets) + 3] = RevokeRecord(TailSeq(cache), revokes),
           cache' = [cache EXCEPT ![commit_block] = CommitRecord(TailSeq(cache), Len(targets))]
    PROVE  /\ Committing(media, cache') /\ Ordered(cache') /\ TailSeq(cache') = TailSeq(cache)
           /\ LogTargets(cache') = targets /\ LogRevokes(cache') = revokes
  <1> DEFINE v == CommitRecord(TailSeq(cache), Len(targets))
  <1>1. Len(targets) \in Nat /\ commit_block \in Nat /\ commit_block \in Log /\ commit_block # descriptor_block /\ commit_block > Len(targets) + 2
    <2>1. Len(targets) \in Nat
      OBVIOUS
    <2>2. commit_block = Len(targets) + 3 \/ commit_block = Len(targets) + 4
      OBVIOUS
    <2>3. commit_block \in 2..(MAX_TARGETS + 4) /\ commit_block # 2 /\ commit_block > Len(targets) + 2 /\ commit_block \in Nat
      BY <2>1, <2>2, JournalAssumption
    <2> QED
      BY <2>1, <2>3, LogLayout, Layout
  <1>2. \A i \in Blocks : cache'[i] = IF i = commit_block THEN v ELSE cache[i]
    BY <1>1 DEF Disk
  <1>3. /\ cache'[J_START] = cache[J_START] /\ cache'[SUPER] = cache[SUPER] /\ TailSeq(cache') = TailSeq(cache)
        /\ \A t \in Targets : cache'[t] = cache[t]
        /\ cache'[descriptor_block] = cache[descriptor_block]
    BY <1>1, <1>2, Layout, LogLayout DEF TailSeq
  <1>4. v.type = "commit" /\ v.seq = TailSeq(cache) /\ v.count = Len(targets)
    BY DEF CommitRecord
  <1>5. LogTargets(cache') = targets /\ cache'[descriptor_block].type = "descriptor"
        /\ cache'[descriptor_block].seq = TailSeq(cache')
    BY <1>3 DEF LogTargets, Descriptor
  <1> HIDE DEF v
  <1>6. Ordered(cache')
    <2>1. \A b \in Log : cache'[b] = cache[b] \/ (b = commit_block /\ cache'[b] = v)
      BY <1>2, LogLayout
    <2>2. TailSeq(cache) \in Nat
      BY TailIsNat
    <2> QED
      BY <1>1, <1>3, <1>4, <2>1, <2>2 DEF Ordered
  <1>7. image_block(Len(targets)) = Len(targets) + 2 /\ Len(targets) + 3 \in Log
    <2>1. Len(targets) + 3 \in 2..(MAX_TARGETS + 4)
      BY <1>1, JournalAssumption
    <2> QED
      BY <1>1, <2>1, Layout, LogLayout
  <1>8. (HasRevoke(cache') <=> revokes # {}) /\ LogRevokes(cache') = revokes
    <2>1. CASE revokes # {}
      <3>1. cache'[Len(targets) + 3] = RevokeRecord(TailSeq(cache'), revokes)
        BY <1>1, <1>2, <1>3, <1>7, <2>1, LogLayout
      <3>2. /\ RevokeRecord(TailSeq(cache'), revokes).type = "revoke"
            /\ RevokeRecord(TailSeq(cache'), revokes).seq = TailSeq(cache')
            /\ RevokeRecord(TailSeq(cache'), revokes).blocks = revokes
        BY DEF RevokeRecord
      <3>3. image_block(Len(LogTargets(cache'))) + 1 = Len(targets) + 3
        BY <1>1, <1>5, <1>7
      <3>4. HasRevoke(cache')
        BY <3>1, <3>2, <3>3 DEF HasRevoke, Live, RecordTypes, TailSeq
      <3> QED
        BY <2>1, <3>1, <3>2, <3>3, <3>4 DEF LogRevokes
    <2>2. CASE revokes = {}
      <3>1. cache'[Len(targets) + 3] = v
        BY <1>1, <1>2, <1>7, <2>2, LogLayout
      <3>2. image_block(Len(LogTargets(cache'))) + 1 = Len(targets) + 3
        BY <1>1, <1>5, <1>7
      <3>3. ~HasRevoke(cache')
        BY <1>4, <3>1, <3>2 DEF HasRevoke
      <3> QED
        BY <2>2, <3>3 DEF LogRevokes
    <2> QED
      BY <2>1, <2>2
  <1>9. CommitAt(cache') = commit_block
    BY <1>1, <1>5, <1>7, <1>8 DEF CommitAt
  <1>10. Committed(cache')
    BY <1>1, <1>2, <1>3, <1>5, <1>9, CommittedIs, LogLayout DEF v
  <1>11. Whole(cache')
    <2>1. \A i \in 1..Len(targets) : image_block(i) \in Blocks /\ image_block(i) # commit_block
      <3> SUFFICES ASSUME NEW i \in 1..Len(targets)
                   PROVE  image_block(i) \in Blocks /\ image_block(i) # commit_block
        OBVIOUS
      <3>1. i \in Nat /\ i + 2 \in 2..(MAX_TARGETS + 4) /\ i + 2 # commit_block
        BY <1>1, JournalAssumption
      <3> QED
        BY <3>1, Layout, LogLayout
    <2>2. \A i \in 1..Len(targets) : cache'[image_block(i)] = Image(targets[i].checksum)
      BY <1>2, <2>1
    <2> QED
      BY <1>3, <1>5, <1>8, <1>10, <2>2 DEF Whole
  <1>12. Committing(media, cache')
    <2>1. SameTail(media, cache') /\ SameTargets(media, cache') /\ Quiet(media)
      BY <1>3 DEF Empty, SameTail, SameTargets
    <2>2. \A b \in Log : b # commit_block => media[b] = cache'[b]
      BY <1>2, LogLayout DEF SameLog
    <2> QED
      BY <1>3, <1>9, <1>11, <2>1, <2>2 DEF Committing
  <1> QED
    BY <1>3, <1>5, <1>6, <1>8, <1>12

\* A replay or a checkpoint puts one image more into its metadata block.
LEMMA HomedFurther ==
    ASSUME NEW c, NEW n, Disk(c), Disk(n), Whole(c), NEW k \in 1..Len(LogTargets(c)), HomedTo(c, k),
           \/ n = [c EXCEPT ![LogTargets(c)[k].target] = c[image_block(k)]]
           \/ n = c /\ LogTargets(c)[k].target \in LogRevokes(c)
    PROVE  HomedTo(n, k + 1)
  <1> DEFINE t == LogTargets(c)[k].target
  <1>1. /\ c[descriptor_block].type = "descriptor" /\ Distinct(LogTargets(c))
    BY CommittedIs DEF Whole
  <1>2. /\ Len(LogTargets(c)) \in Nat
        /\ \A i \in 1..Len(LogTargets(c)) : LogTargets(c)[i].target \in Targets /\ image_block(i) \in Log
    BY <1>1, LogOf
  <1>3. t \in Targets /\ t \in Blocks /\ t \notin Log /\ t # J_START
    BY <1>2, Layout, LogLayout
  <1>4. CASE n = [c EXCEPT ![t] = c[image_block(k)]]
    <2>1. n[t] = c[image_block(k)] /\ \A i \in Blocks : i # t => n[i] = c[i]
      BY <1>3, <1>4 DEF Disk
    <2>2. SameTail(c, n) /\ SameLog(c, n)
      BY <1>3, <2>1, Layout, LogLayout DEF SameTail, SameLog
    <2>3. LogTargets(n) = LogTargets(c) /\ LogRevokes(n) = LogRevokes(c)
      BY <1>1, <2>2, SameLogSame
    <2> SUFFICES ASSUME NEW i \in 1..Len(LogTargets(c)), i < k + 1,
                        LogTargets(c)[i].target \notin LogRevokes(c)
                 PROVE  n[LogTargets(c)[i].target] = n[image_block(i)]
      BY <2>3 DEF HomedTo
    <2>4. n[image_block(i)] = c[image_block(i)]
      BY <1>2, <2>2 DEF SameLog
    <2>5. CASE i = k
      BY <2>1, <2>4, <2>5
    <2>6. CASE i # k
      <3>1. i < k /\ LogTargets(c)[i].target # t
        BY <1>1, <1>2, <2>6 DEF Distinct
      <3>2. c[LogTargets(c)[i].target] = c[image_block(i)]
        BY <3>1 DEF HomedTo
      <3>3. n[LogTargets(c)[i].target] = c[LogTargets(c)[i].target]
        BY <1>2, <2>1, <3>1, Layout
      <3> QED
        BY <2>4, <3>2, <3>3
    <2> QED
      BY <2>5, <2>6
  <1>5. CASE n = c /\ t \in LogRevokes(c)
    <2> SUFFICES ASSUME NEW i \in 1..Len(LogTargets(c)), i < k + 1,
                        LogTargets(c)[i].target \notin LogRevokes(c)
                 PROVE  c[LogTargets(c)[i].target] = c[image_block(i)]
      BY <1>5 DEF HomedTo
    <2>1. i # k
      BY <1>5
    <2>2. i < k
      BY <1>2, <2>1
    <2> QED
      BY <2>2 DEF HomedTo
  <1> QED
    BY <1>4, <1>5

\* What a mount would serve, of a log with nothing to replay or nothing new.
LEMMA Recovers ==
    ASSUME NEW m, Disk(m), ~Committed(m) \/ (Whole(m) /\ Homed(m)), NEW t \in Targets
    PROVE  Recovered(m, t) = m[t].content
  <1>1. CASE ~Committed(m)
    BY <1>1 DEF Recovered
  <1>2. CASE Whole(m) /\ Homed(m)
    <2> DEFINE Of == {i \in Replayed(m) : LogTargets(m)[i].target = t}
    <2>1. LogTargets(m) \in Seq(TargetList) /\ DOMAIN LogTargets(m) = 1..Len(LogTargets(m))
      BY <1>2, LogOf, CommittedIs DEF Whole
    <2>2. \A i \in Of : m[t] = m[image_block(i)]
      <3> SUFFICES ASSUME NEW i \in Of
                   PROVE  m[t] = m[image_block(i)]
        OBVIOUS
      <3>1. /\ i \in 1..Len(LogTargets(m)) /\ LogTargets(m)[i].target \notin LogRevokes(m)
            /\ LogTargets(m)[i].target = t
        BY <2>1 DEF Replayed
      <3>2. i < Len(LogTargets(m)) + 1
        BY <2>1, <3>1
      <3> QED
        BY <1>2, <3>1, <3>2 DEF Homed, HomedTo
    <2>3. Of # {} => (CHOOSE i \in Of : TRUE) \in Of
      OBVIOUS
    <2> HIDE DEF Of
    <2>4. Of # {} => m[image_block(CHOOSE i \in Of : TRUE)].content = m[t].content
      BY <2>2, <2>3
    <2> QED
      BY <2>4 DEF Recovered, Of
  <1> QED
    BY <1>1, <1>2

-----------------------------------------------------------------------------
(* The driver against the disks. *)

\* The failures and the deaths whose consequences the driver handles, and the order
\* in which it needs its tail written back.
Handled == /\ TailOrdered
           /\ FaultSteps \cap {"commit", "barrier_commit", "sync", "barrier_sync"} = {}
           /\ "barrier_commit" \notin DeathSteps

Building == {"open", "descriptor", "revoke", "barrier_log"}
Applying == {"checkpoint", "barrier_data", "tail", "replay_image", "replay_tail"}
Resting  == {"down", "idle", "barrier_sync", "record_error", "replay_descriptor"}

Serving == pc \in Building \cup {"commit", "barrier_sync"} \/ (pc = "idle" /\ ~readOnly)

\* How media and cache relate, by where the driver is.
Phase == /\ Serving => Steady(media, cache)
         /\ pc = "commit" => /\ Empty(media, cache) /\ SameLog(media, cache)
                             /\ media[SUPER] = cache[SUPER]
         /\ pc = "barrier_commit" => Committing(media, cache) \/ Held(media, cache)
         /\ pc \in Applying => Held(media, cache)
         /\ pc \in {"tail", "replay_tail"} => SameTargets(media, cache)
         /\ pc # "barrier_commit" => Steady(media, cache) \/ Held(media, cache)

\* What the driver knows of the cache.
Knows == Serving \/ pc \in TxnSteps \cup ReplaySteps => nextSeq = TailSeq(cache)

Rests == /\ pc \in Resting => targets = << >> /\ revokes = {} /\ index = 1
         /\ pc \in Building \cup {"commit", "barrier_commit"} => index = 1
         /\ pc \in ReplaySteps \cup {"down"} => ~dirtyMarked

Opened == pc \in TxnSteps =>
             /\ Distinct(targets)
             /\ \A i \in 1..Len(targets) : cache[image_block(i)] = Image(targets[i].checksum)

Marked == pc \in TxnSteps \/ (pc = "idle" /\ ~readOnly /\ dirtyMarked)
             => cache[SUPER].state = "DIRTY"

Logged == /\ pc \in {"revoke", "barrier_log", "commit"}
                => cache[descriptor_block] = Descriptor(nextSeq, targets)
          /\ pc \in {"barrier_log", "commit"} /\ revokes # {}
                => cache[revoke_block] = RevokeRecord(nextSeq, revokes)
          /\ pc = "revoke" => revokes # {}

Applied == /\ pc \in Applying \cup {"barrier_commit"}
                 => LogTargets(cache) = targets /\ LogRevokes(cache) = revokes
           /\ pc \in {"checkpoint", "replay_image"} => HomedTo(cache, index)
           /\ pc \in {"barrier_data", "tail", "replay_tail"} => Homed(cache)

Scans == pc = "replay_scan" =>
            /\ cache[descriptor_block].type = "descriptor" /\ targets = LogTargets(cache)
            /\ index >= image_block(Len(targets)) + 1
            /\ Committed(cache) => \/ /\ index = image_block(Len(targets)) + 1
                                      /\ revokes = {}
                                   \/ /\ index = image_block(Len(targets)) + 2
                                      /\ HasRevoke(cache) /\ revokes = LogRevokes(cache)

Memory == Knows /\ Rests /\ Opened /\ Marked /\ Logged /\ Applied /\ Scans

\* Every update has a stamp of its own.
Dated(m, s) == \A b \in Blocks :
    /\ m[b].type = "image" => m[b].content \subseteq 1..s
    /\ m[b].type = "descriptor" => \A i \in 1..Len(m[b].targets) : m[b].targets[i].checksum \subseteq 1..s

\* The open transaction is not the one the media would replay.
Fresh == /\ pc \in Building /\ ~SameTail(media, cache) =>
               \A i \in 1..Len(targets), j \in 1..Len(LogTargets(media)) :
                  targets[i].checksum # LogTargets(media)[j].checksum
         /\ pc \in {"descriptor", "revoke", "barrier_log", "commit"} => targets # << >> \/ revokes # {}

\* It frees no block that is free.
FreesOnce == pc \in Building => revokes \cap freed = {}

\* The mark ERROR takes a failed request.
NoFault == faults = 0 => /\ ~readOnly /\ pc # "record_error"
                         /\ media[SUPER].state # "ERROR" /\ cache[SUPER].state # "ERROR"

RInv == /\ Ordered(media) /\ Ordered(cache)
        /\ Phase /\ Memory
        /\ Dated(media, stages) /\ Dated(cache, stages)
        /\ Fresh /\ NoFault

JInv == IInv /\ RInv /\ FreesOnce /\ freed = FreedBy(media)

-----------------------------------------------------------------------------

\* The formatted disk.
LEMMA FormattedDisk ==
    /\ Disk(Formatted) /\ Ordered(Formatted) /\ Quiet(Formatted) /\ Dated(Formatted, 0)
    /\ Formatted[SUPER].state = "CLEAN" /\ Formatted[SUPER].state # "ERROR"
  <1>1. Image({}) \in Content /\ Image({}).type = "image" /\ Image({}).content = {}
    BY ContentMade DEF Image
  <1>2. JournalSuper(1) \in Content /\ JournalSuper(1).type = "tail"
    BY ContentMade
  <1>3. Super("CLEAN") \in Content /\ Super("CLEAN").type = "super" /\ Super("CLEAN").state = "CLEAN"
    BY ContentMade
  <1>4. \A b \in Blocks : Formatted[b] = IF b = SUPER THEN Super("CLEAN")
                                        ELSE IF b = J_START THEN JournalSuper(1) ELSE Image({})
    BY DEF Formatted
  <1>5. \A b \in Log : Formatted[b].type = "image"
    BY <1>1, <1>4, LogLayout
  <1>6. Disk(Formatted)
    BY <1>1, <1>2, <1>3, Layout DEF Formatted, Disk
  <1>7. Ordered(Formatted) /\ Quiet(Formatted)
    BY <1>5 DEF Ordered, Quiet, RecordTypes
  <1>8. Dated(Formatted, 0)
    BY <1>1, <1>2, <1>3, <1>4 DEF Dated
  <1> QED
    BY <1>3, <1>4, <1>6, <1>7, <1>8, Layout

\* A formatted volume recovers to what it holds.
LEMMA InitJInv ==
    ASSUME Init
    PROVE  JInv
  <1>1. IInv
    BY InitInv
  <1>2. Ordered(media) /\ Ordered(cache) /\ Dated(media, stages) /\ Dated(cache, stages)
    BY FormattedDisk DEF Init
  <1>3. Empty(media, cache)
    BY FormattedDisk DEF Init, Empty, SameTail, SameTargets
  <1>4. Phase
    BY <1>3 DEF Init, Phase, Serving, Building, Applying, Steady
  <1>5. Memory
    BY DEF Init, Memory, Knows, Rests, Opened, Marked, Logged, Applied, Scans, Serving, Building,
           Applying, TxnSteps, ReplaySteps
  <1>6. Fresh /\ NoFault /\ FreesOnce
    BY FormattedDisk DEF Init, Fresh, NoFault, FreesOnce, Building
  <1>7. freed = FreedBy(media)
    BY <1>3, QuietLog DEF FreedBy, Empty
  <1> QED
    BY <1>1, <1>2, <1>4, <1>5, <1>6, <1>7 DEF JInv, RInv

-----------------------------------------------------------------------------
(* Every step keeps this. *)

RKeeps == /\ RInv'
          /\ pc' \in Building => /\ revokes' \cap freed = {}
                                 /\ media' = media \/ ~Committed(media')

\* Both disks keep their order, and hold no update from the future.
Sound == /\ Ordered(media') /\ Ordered(cache')
         /\ Dated(media', stages') /\ Dated(cache', stages')

\* A value with updates of the past only.
DatedValue(v, s) == /\ v.type = "image" => v.content \subseteq 1..s
                    /\ v.type = "descriptor" => \A i \in 1..Len(v.targets) : v.targets[i].checksum \subseteq 1..s

\* A write keeps a disk dated.
LEMMA DatedWrite ==
    ASSUME NEW c, NEW n, NEW b \in Blocks, NEW v, Disk(c), n \in {c, [c EXCEPT ![b] = v]},
           NEW s \in Nat, NEW r \in Nat, s <= r, Dated(c, s), DatedValue(v, r)
    PROVE  Dated(n, r)
  <1>1. \A i \in Blocks : n[i] = c[i] \/ n[i] = v
    BY DEF Disk
  <1>2. \A x : x \subseteq 1..s => x \subseteq 1..r
    BY Z3
  <1>3. \A i \in Blocks : DatedValue(c[i], r)
    <2> SUFFICES ASSUME NEW i \in Blocks PROVE DatedValue(c[i], r)
      OBVIOUS
    <2>1. DatedValue(c[i], s)
      BY DEF Dated, DatedValue
    <2> QED
      BY <1>2, <2>1 DEF DatedValue
  <1>4. \A i \in Blocks : DatedValue(n[i], r)
    BY <1>1, <1>3
  <1> QED
    BY <1>4 DEF Dated, DatedValue

\* A step that leaves the disks and the updates alone.
LEMMA StillSound ==
    ASSUME JInv, UNCHANGED <<media, cache, stages>>
    PROVE  Sound
  BY DEF JInv, RInv, Sound

\* So does a flush.
LEMMA SettledSound ==
    ASSUME JInv, Settled, stages' = stages
    PROVE  Sound
  BY DEF JInv, RInv, Sound, Settled

\* Where the driver comes to rest with no transaction.
LEMMA RestKeeps ==
    ASSUME Sound, pc' \in Resting, targets' = << >>, revokes' = {}, index' = 1,
           Steady(media', cache') \/ Held(media', cache'),
           Serving' => Steady(media', cache') /\ nextSeq' = TailSeq(cache'),
           pc' = "replay_descriptor" => nextSeq' = TailSeq(cache'),
           pc' \in {"down", "replay_descriptor"} => ~dirtyMarked',
           pc' = "idle" /\ ~readOnly' /\ dirtyMarked' => cache'[SUPER].state = "DIRTY",
           NoFault'
    PROVE  RKeeps
  <1>1. /\ pc' \notin TxnSteps /\ pc' \notin Building /\ pc' \notin Applying
        /\ pc' \notin {"revoke", "barrier_log", "commit", "barrier_commit", "tail", "replay_tail",
                       "checkpoint", "replay_image", "barrier_data", "replay_scan", "descriptor"}
        /\ pc' \in ReplaySteps => pc' = "replay_descriptor"
    BY DEF Resting, TxnSteps, Building, Applying, ReplaySteps
  <1>2. Phase'
    BY <1>1 DEF Phase
  <1>3. Knows' /\ Rests' /\ Opened' /\ Marked'
    BY <1>1 DEF Knows, Rests, Opened, Marked
  <1>4. Logged' /\ Applied' /\ Scans' /\ Fresh'
    BY <1>1 DEF Logged, Applied, Scans, Fresh
  <1> QED
    BY <1>1, <1>2, <1>3, <1>4 DEF RKeeps, RInv, Memory, Sound

\* wfs_txn_abort: the transaction's sequence goes to the next one.
LEMMA AbortKeeps ==
    ASSUME JInv, Sound, Abort, pc \in TxnSteps, dirtyMarked' = dirtyMarked, nextSeq' = nextSeq,
           TailSeq(cache') = TailSeq(cache), cache'[SUPER] = cache[SUPER], media'[SUPER] = media[SUPER],
           Steady(media', cache'), readOnly' = readOnly, faults' # 0 \/ faults' = faults
    PROVE  RKeeps
  <1>1. pc' = "idle" /\ targets' = << >> /\ revokes' = {} /\ index' = 1
    BY DEF Abort, EmptyTxn
  <1>2. nextSeq' = TailSeq(cache') /\ cache'[SUPER].state = "DIRTY"
    BY DEF JInv, RInv, Memory, Knows, Marked
  <1>3. NoFault'
    BY <1>1 DEF JInv, RInv, NoFault
  <1> QED
    BY <1>1, <1>2, <1>3, RestKeeps DEF Resting

\* The volume latched read-only, once the transaction is durable.
LEMMA LatchKeeps ==
    ASSUME Sound, Latch, Steady(media', cache') \/ Held(media', cache'), faults' # 0
    PROVE  RKeeps
  <1>1. pc' = "idle" /\ targets' = << >> /\ revokes' = {} /\ index' = 1 /\ readOnly'
    BY DEF Latch, Abort, EmptyTxn
  <1>2. NoFault'
    BY DEF NoFault
  <1>3. ~Serving'
    BY <1>1 DEF Serving, Building
  <1> QED
    BY <1>1, <1>2, <1>3, RestKeeps DEF Resting

\* A replay that fails keeps the log.
LEMMA ReplayFailsKeeps ==
    ASSUME Sound, ReplayFails, Steady(media', cache') \/ Held(media', cache'), faults' # 0
    PROVE  RKeeps
  <1>1. pc' = "record_error" /\ targets' = << >> /\ revokes' = {} /\ index' = 1 /\ readOnly'
    BY DEF ReplayFails, EmptyTxn
  <1>2. NoFault'
    BY DEF NoFault
  <1>3. ~Serving'
    BY <1>1 DEF Serving, Building
  <1> QED
    BY <1>1, <1>2, <1>3, RestKeeps DEF Resting

\* A failed request counts.
LEMMA FailedCounts ==
    ASSUME faults \in 0..MaxFaults
    PROVE  /\ \A step, b, v : WriteFailed(step, b, v) => faults' # 0 /\ step \in FaultSteps
           /\ \A step : ReadOrFlushFailed(step) => faults' # 0 /\ step \in FaultSteps /\ UNCHANGED device
  BY JournalAssumption DEF WriteFailed, ReadOrFlushFailed, MayFail

-----------------------------------------------------------------------------
(* The steps of a transaction. *)

\* The bounds that the device's lemmas ask for.
LEMMA JFacts ==
    ASSUME JInv
    PROVE  /\ Disk(media) /\ Disk(cache) /\ Driver /\ faults \in 0..MaxFaults
           /\ Ordered(media) /\ Ordered(cache) /\ Phase /\ Memory /\ Fresh /\ NoFault
           /\ Dated(media, stages) /\ Dated(cache, stages) /\ stages \in Nat /\ IInv
  BY DEF JInv, IInv, TInv, RInv, Driver

\* The superblock of a served volume is written.
LEMMA SuperSound ==
    ASSUME JInv, NEW s, Wrote(SUPER, Super(s)), Disk(cache'), stages' = stages
    PROVE  /\ Sound /\ TailSeq(cache') = TailSeq(cache)
           /\ Steady(media, cache) => Steady(media', cache')
           /\ cache'[SUPER].state # "CLEAN" /\ Held(media, cache) => Held(media', cache')
  <1>1. Disk(cache) /\ Ordered(cache) /\ SUPER \in Blocks /\ SUPER \notin Log /\ SUPER # J_START
    BY JFacts, Layout, LogLayout
  <1>2. cache' \in {cache, [cache EXCEPT ![SUPER] = Super(s)]} /\ media' = media
    BY DEF Wrote
  <1>3. /\ Ordered(cache') /\ TailSeq(cache') = TailSeq(cache)
        /\ Retired(media, cache) => Retired(media, cache')
        /\ Empty(media, cache) => Empty(media, cache')
        /\ cache'[SUPER].state # "CLEAN" /\ Held(media, cache) => Held(media, cache')
    BY <1>1, <1>2, HomeWriteModes
  <1>4. Super(s).type = "super"
    BY DEF Super
  <1>5. DatedValue(Super(s), stages)
    BY <1>4 DEF DatedValue
  <1>6. Dated(cache', stages)
    BY <1>1, <1>2, <1>5, JFacts, DatedWrite
  <1> QED
    BY <1>2, <1>3, <1>6, JFacts DEF Sound, Steady

\* wfs_txn_open marks the volume dirty before the transaction's first write, so a
\* mount replays what is durable.
LEMMA TxnOpenRec ==
    ASSUME JInv, TxnOpen, Keeps
    PROVE  RKeeps
  <1>1. /\ pc = "idle" /\ ~readOnly
        /\ UNCHANGED <<readOnly, nextSeq, targets, revokes, index, outcome, stages, crashes>>
    BY DEF TxnOpen, txn
  <1>2. /\ Serving /\ Steady(media, cache) /\ nextSeq = TailSeq(cache)
        /\ targets = << >> /\ revokes = {} /\ index = 1
    BY <1>1, JFacts DEF Serving, Phase, Memory, Knows, Rests, Resting
  <1>3. Disk(cache')
    BY DEF Keeps, TInv
  <1>4. NoFault' /\ media' = media
    <2>1. CASE faults' = 0
      <3>1. faults = 0 /\ (NoRequest \/ WriteDone(SUPER, Super("DIRTY"))) /\ pc' = "open"
        BY <2>1, JFacts, FailedCounts DEF TxnOpen, NoRequest, WriteDone
      <3>2. cache'[SUPER] \in {cache[SUPER], Super("DIRTY")} /\ media' = media
        BY <3>1, JFacts, Layout DEF NoRequest, WriteDone, Disk, device
      <3>3. Super("DIRTY").state = "DIRTY"
        BY DEF Super
      <3> QED
        BY <1>1, <3>1, <3>2, <3>3, JFacts DEF NoFault
    <2>2. CASE faults' # 0
      BY <2>2 DEF NoFault, TxnOpen, NoRequest, WriteDone, WriteFailed, device
    <2> QED
      BY <2>1, <2>2
  <1>5. /\ Sound /\ TailSeq(cache') = TailSeq(cache) /\ Steady(media', cache')
        /\ pc' \in {"idle", "open"}
        /\ pc' = "open" => cache'[SUPER].state = "DIRTY"
        /\ pc' = "idle" => ~dirtyMarked'
    <2>1. CASE dirtyMarked /\ NoRequest /\ pc' = "open"
      BY <1>1, <1>2, <2>1, StillSound, JFacts DEF NoRequest, device, Memory, Marked
    <2>2. CASE WriteDone(SUPER, Super("DIRTY")) /\ pc' = "open"
      <3>1. Wrote(SUPER, Super("DIRTY"))
        BY <2>2, Requests, JFacts
      <3>2. cache'[SUPER].state = "DIRTY"
        BY <2>2, JFacts, Layout DEF WriteDone, Disk, Super
      <3> QED
        BY <1>1, <1>2, <1>3, <2>2, <3>1, <3>2, SuperSound
    <2>3. CASE ~dirtyMarked /\ WriteFailed("mark_dirty", SUPER, Super("DIRTY")) /\ UNCHANGED <<pc, state, dirtyMarked>>
      <3>1. Wrote(SUPER, Super("DIRTY"))
        BY <2>3, Requests, JFacts
      <3> QED
        BY <1>1, <1>2, <1>3, <2>3, <3>1, SuperSound
    <2> QED
      BY <2>1, <2>2, <2>3 DEF TxnOpen
  <1>6. CASE pc' = "idle"
    BY <1>1, <1>2, <1>4, <1>5, <1>6, RestKeeps DEF Resting
  <1>7. CASE pc' = "open"
    <2>1. Phase'
      BY <1>5, <1>7 DEF Phase, Applying
    <2>2. Memory'
      BY <1>1, <1>2, <1>5, <1>7
      DEF Memory, Knows, Rests, Opened, Marked, Logged, Applied, Scans, Resting, ReplaySteps, Applying,
          Distinct
    <2>3. Fresh'
      BY <1>1, <1>2, <1>7 DEF Fresh
    <2> QED
      BY <1>1, <1>2, <1>4, <1>5, <2>1, <2>2, <2>3 DEF RKeeps, RInv, Sound
  <1> QED
    BY <1>5, <1>6, <1>7

\* The steps of a transaction that make no request.
LEMMA QuietRec ==
    ASSUME JInv, \/ \E t \in Targets : TxnRevoke(t)
                 \/ OperationFails \/ TxnClose
    PROVE  RKeeps
  <1>1. /\ pc = "open" /\ UNCHANGED <<media, cache, faults, state, readOnly, dirtyMarked, nextSeq, stages, crashes>>
    BY DEF TxnRevoke, OperationFails, TxnClose, NoRequest, volume, device
  <1>2. Sound /\ Steady(media', cache') /\ pc \in TxnSteps /\ nextSeq' = TailSeq(cache')
    BY <1>1, StillSound, JFacts DEF Phase, Serving, Building, TxnSteps, Memory, Knows
  <1>3. CASE Abort
    BY <1>1, <1>2, <1>3, AbortKeeps
  <1>4. CASE pc' = "idle" /\ outcome' = "ok" /\ EmptyTxn
    <2>1. NoFault'
      BY <1>1, <1>4, JFacts DEF NoFault
    <2>2. cache'[SUPER].state = "DIRTY"
      BY <1>1, <1>2, JFacts DEF Memory, Marked
    <2> QED
      BY <1>2, <1>4, <2>1, <2>2, RestKeeps DEF EmptyTxn, Resting
  <1>5. ASSUME \/ \E t \in Targets : /\ t \notin freed /\ revokes' = revokes \cup {t}
                                     /\ UNCHANGED <<pc, outcome, targets, index>>
               \/ /\ pc' = "descriptor" /\ UNCHANGED <<outcome, txn>>
                  /\ targets # << >> \/ revokes # {}
        PROVE  RKeeps
    <2>1. /\ pc' \in {"open", "descriptor"} /\ targets' = targets /\ index' = 1
          /\ revokes' \cap freed = {}
          /\ pc' = "descriptor" => targets' # << >> \/ revokes' # {}
      BY <1>1, <1>5, JFacts DEF txn, JInv, FreesOnce, Building, Memory, Rests
    <2>2. Phase'
      BY <1>2, <2>1 DEF Phase, Applying
    <2>3. Memory'
      <3>1. /\ Distinct(targets) /\ cache[SUPER].state = "DIRTY"
            /\ \A i \in 1..Len(targets) : cache[image_block(i)] = Image(targets[i].checksum)
        BY <1>2, JFacts DEF Memory, Opened, Marked
      <3>2. Knows' /\ Rests' /\ Opened' /\ Marked'
        BY <1>1, <1>2, <2>1, <3>1 DEF Knows, Rests, Opened, Marked, Resting, ReplaySteps
      <3>3. Logged' /\ Applied' /\ Scans'
        BY <2>1 DEF Logged, Applied, Scans, Applying
      <3> QED
        BY <3>2, <3>3 DEF Memory
    <2>4. Fresh'
      BY <1>1, <2>1, JFacts DEF Fresh, Building
    <2>5. NoFault'
      BY <1>1, <2>1, JFacts DEF NoFault
    <2> QED
      BY <1>1, <1>2, <2>1, <2>2, <2>3, <2>4, <2>5 DEF RKeeps, RInv, Sound
  <1> QED
    BY <1>3, <1>4, <1>5 DEF TxnRevoke, OperationFails, TxnClose

\* The log is written while the media would recover to what the cache serves.
LEMMA LogSound ==
    ASSUME JInv, NEW b \in Log, NEW v, Wrote(b, v), Steady(media, cache),
           v.type \in RecordTypes => /\ v.type = "descriptor" <=> b = descriptor_block
                                     /\ v.seq <= TailSeq(cache),
           v.type # "commit",
           stages' \in Nat, stages <= stages', DatedValue(v, stages')
    PROVE  /\ Sound /\ Steady(media', cache') /\ TailSeq(cache') = TailSeq(cache)
           /\ cache'[SUPER] = cache[SUPER] /\ cache'[J_START] = cache[J_START] /\ media' = media
           /\ \A i \in Blocks : i # b => cache'[i] = cache[i]
  <1>1. Disk(cache) /\ b \in Blocks /\ b # SUPER /\ b # J_START /\ Disk(media) /\ stages \in Nat
    BY JFacts, LogLayout
  <1>2. cache' \in {cache, [cache EXCEPT ![b] = v]} /\ media' = media
    BY DEF Wrote
  <1>3. \A i \in Blocks : i # b => cache'[i] = cache[i]
    BY <1>1, <1>2 DEF Disk
  <1>4. /\ Ordered(cache') /\ TailSeq(cache') = TailSeq(cache)
        /\ Retired(media, cache) => Retired(media, cache')
        /\ Empty(media, cache) => Empty(media, cache')
    BY <1>1, <1>2, JFacts, LogWriteModes
  <1>5. Dated(cache', stages')
    BY <1>1, <1>2, JFacts, DatedWrite
  <1>6. Dated(media, stages')
    BY <1>1, JFacts, DatedWrite
  <1> QED
    BY <1>1, <1>2, <1>3, <1>4, <1>5, <1>6, JFacts, Layout DEF Sound, Steady

\* The updates of the open transaction are dated as its images are.
LEMMA TargetsDated ==
    ASSUME JInv, pc \in TxnSteps
    PROVE  \A i \in 1..Len(targets) : /\ targets[i].checksum \subseteq 1..stages
                                      /\ image_block(i) \in Log /\ image_block(i) = i + 2
  <1> SUFFICES ASSUME NEW i \in 1..Len(targets)
               PROVE  /\ targets[i].checksum \subseteq 1..stages
                      /\ image_block(i) \in Log /\ image_block(i) = i + 2
    OBVIOUS
  <1>1. /\ cache[image_block(i)] = Image(targets[i].checksum)
        /\ Len(targets) \in 0..MAX_TARGETS
    BY JFacts, LogSlots DEF Memory, Opened
  <1>2. i \in Nat /\ i + 2 \in 2..(MAX_TARGETS + 4)
    BY <1>1, JournalAssumption
  <1>3. image_block(i) \in Log /\ image_block(i) = i + 2 /\ image_block(i) \in Blocks
    BY <1>2, Layout, LogLayout
  <1>4. Image(targets[i].checksum).type = "image" /\ Image(targets[i].checksum).content = targets[i].checksum
    BY DEF Image
  <1> QED
    BY <1>1, <1>3, <1>4, JFacts DEF Dated

\* WriteDescriptor and what its failure leaves: the descriptor has the sequence of
\* the tail and no COMMIT behind it.
LEMMA DescriptorRec ==
    ASSUME JInv, WriteDescriptor
    PROVE  RKeeps
  <1> DEFINE v == Descriptor(nextSeq, targets)
  <1>1. /\ pc = "descriptor" /\ UNCHANGED <<state, readOnly, dirtyMarked, nextSeq, stages, crashes>>
        /\ \/ /\ WriteDone(descriptor_block, v)
              /\ pc' = IF revokes = {} THEN "barrier_log" ELSE "revoke"
              /\ UNCHANGED <<outcome, txn>>
           \/ WriteFailed("descriptor", descriptor_block, v) /\ Abort
    BY DEF WriteDescriptor, LogWrite, volume
  <1>2. /\ pc \in TxnSteps /\ Steady(media, cache) /\ nextSeq = TailSeq(cache) /\ index = 1
        /\ Distinct(targets) /\ cache[SUPER].state = "DIRTY"
        /\ \A i \in 1..Len(targets) : cache[image_block(i)] = Image(targets[i].checksum)
    BY <1>1, JFacts DEF TxnSteps, Phase, Serving, Building, Memory, Knows, Rests, Opened, Marked
  <1>3. v.type = "descriptor" /\ v.seq = nextSeq /\ v.targets = targets
    BY DEF Descriptor
  <1>4. /\ Sound /\ Steady(media', cache') /\ TailSeq(cache') = TailSeq(cache)
        /\ cache'[SUPER] = cache[SUPER] /\ cache'[J_START] = cache[J_START] /\ media' = media
        /\ \A i \in Blocks : i # descriptor_block => cache'[i] = cache[i]
    <2>1. DatedValue(v, stages')
      BY <1>1, <1>2, <1>3, TargetsDated DEF DatedValue
    <2>2. Wrote(descriptor_block, v)
      BY <1>1, Requests, JFacts
    <2>3. v.seq <= TailSeq(cache) /\ descriptor_block \in Log /\ stages' \in Nat /\ stages <= stages'
      BY <1>1, <1>2, <1>3, TailIsNat, JFacts, LogLayout
    <2> HIDE DEF v
    <2> QED
      BY <1>2, <1>3, <2>1, <2>2, <2>3, LogSound
  <1>5. CASE WriteFailed("descriptor", descriptor_block, v) /\ Abort
    BY <1>1, <1>2, <1>4, <1>5, AbortKeeps, FailedCounts, JFacts
  <1>6. CASE /\ WriteDone(descriptor_block, v)
             /\ pc' = IF revokes = {} THEN "barrier_log" ELSE "revoke"
             /\ UNCHANGED <<outcome, txn>>
    <2>1. /\ cache'[descriptor_block] = v /\ faults' = faults
          /\ UNCHANGED <<targets, revokes, index>>
          /\ pc' \in {"barrier_log", "revoke"}
          /\ pc' = "revoke" <=> revokes # {}
      BY <1>6, JFacts, LogLayout DEF WriteDone, Disk, txn
    <2>2. \A i \in 1..Len(targets) : cache'[image_block(i)] = Image(targets[i].checksum)
      <3>1. \A i \in 1..Len(targets) : image_block(i) \in Blocks /\ image_block(i) # descriptor_block
        BY <1>2, TargetsDated, LogLayout, Layout
      <3> QED
        BY <1>2, <1>4, <3>1
    <2> HIDE DEF v
    <2>3. Phase'
      BY <1>4, <2>1 DEF Phase, Applying
    <2>4. Knows' /\ Rests' /\ Opened' /\ Marked'
      BY <1>1, <1>2, <1>4, <2>1, <2>2 DEF Knows, Rests, Opened, Marked, Resting, ReplaySteps
    <2>5. Logged' /\ Applied' /\ Scans'
      BY <1>1, <2>1 DEF Logged, Applied, Scans, Applying, v
    <2>6. Fresh'
      BY <1>1, <1>4, <2>1, JFacts DEF Fresh, Building, SameTail
    <2>7. NoFault' /\ revokes' \cap freed = {}
      BY <1>1, <1>4, <2>1, JFacts DEF NoFault, JInv, FreesOnce, Building
    <2> QED
      BY <1>4, <2>3, <2>4, <2>5, <2>6, <2>7 DEF RKeeps, RInv, Memory, Sound
  <1> QED
    BY <1>1, <1>5, <1>6

\* WriteRevoke: the revoke record is out of the tail's reach, so a mount of the media
\* still finds what it found.
LEMMA RevokeRec ==
    ASSUME JInv, WriteRevoke
    PROVE  RKeeps
  <1> DEFINE v == RevokeRecord(nextSeq, revokes)
  <1>1. /\ pc = "revoke" /\ UNCHANGED <<state, readOnly, dirtyMarked, nextSeq, stages, crashes>>
        /\ \/ /\ WriteDone(revoke_block, v)
              /\ pc' = "barrier_log"
              /\ UNCHANGED <<outcome, txn>>
           \/ WriteFailed("revoke", revoke_block, v) /\ Abort
    BY DEF WriteRevoke, LogWrite, volume
  <1>2. /\ pc \in TxnSteps /\ Steady(media, cache) /\ nextSeq = TailSeq(cache) /\ index = 1
        /\ Distinct(targets) /\ cache[SUPER].state = "DIRTY"
        /\ \A i \in 1..Len(targets) : cache[image_block(i)] = Image(targets[i].checksum)
        /\ cache[descriptor_block] = Descriptor(nextSeq, targets)
    BY <1>1, JFacts DEF TxnSteps, Phase, Serving, Building, Memory, Knows, Rests, Opened, Marked, Logged
  <1>3. v.type = "revoke" /\ v.seq = nextSeq
    BY DEF RevokeRecord
  <1>4. revoke_block = Len(targets) + 3 /\ revoke_block \in Log /\ revoke_block # descriptor_block
        /\ Len(targets) \in Nat
    BY JFacts, LogSlots, LogLayout, Layout
  <1>5. /\ Sound /\ Steady(media', cache') /\ TailSeq(cache') = TailSeq(cache)
        /\ cache'[SUPER] = cache[SUPER] /\ cache'[J_START] = cache[J_START] /\ media' = media
        /\ \A i \in Blocks : i # revoke_block => cache'[i] = cache[i]
    <2>1. DatedValue(v, stages')
      BY <1>3 DEF DatedValue
    <2>2. Wrote(revoke_block, v)
      BY <1>1, Requests, JFacts
    <2>3. v.seq <= TailSeq(cache) /\ stages' \in Nat /\ stages <= stages'
      BY <1>1, <1>2, <1>3, TailIsNat, JFacts
    <2> HIDE DEF v
    <2> QED
      BY <1>2, <1>3, <1>4, <2>1, <2>2, <2>3, LogSound
  <1>6. CASE WriteFailed("revoke", revoke_block, v) /\ Abort
    BY <1>1, <1>2, <1>5, <1>6, AbortKeeps, FailedCounts, JFacts
  <1>7. CASE /\ WriteDone(revoke_block, v) /\ pc' = "barrier_log"
             /\ UNCHANGED <<outcome, txn>>
    <2>1. /\ cache'[revoke_block] = v /\ faults' = faults
          /\ UNCHANGED <<targets, revokes, index>> /\ revoke_block' = revoke_block
      BY <1>4, <1>7, JFacts, LogLayout DEF WriteDone, Disk, txn, revoke_block
    <2>2. \A i \in 1..Len(targets) : cache'[image_block(i)] = Image(targets[i].checksum)
      <3>1. \A i \in 1..Len(targets) : image_block(i) \in Blocks /\ image_block(i) # revoke_block
        BY <1>2, <1>4, TargetsDated, LogLayout
      <3> QED
        BY <1>2, <1>5, <3>1
    <2>3. cache'[descriptor_block] = cache[descriptor_block]
      BY <1>4, <1>5, LogLayout
    <2> HIDE DEF v
    <2>4. Phase'
      BY <1>5, <1>7 DEF Phase, Applying
    <2>5. Knows' /\ Rests' /\ Opened' /\ Marked'
      BY <1>1, <1>2, <1>5, <1>7, <2>1, <2>2 DEF Knows, Rests, Opened, Marked, Resting, ReplaySteps
    <2>6. Logged' /\ Applied' /\ Scans'
      BY <1>1, <1>2, <1>7, <2>1, <2>3 DEF Logged, Applied, Scans, Applying, v
    <2>7. Fresh'
      BY <1>1, <1>5, <1>7, <2>1, JFacts DEF Fresh, Building, SameTail
    <2>8. NoFault' /\ revokes' \cap freed = {}
      BY <1>1, <1>5, <1>7, <2>1, JFacts DEF NoFault, JInv, FreesOnce, Building
    <2> QED
      BY <1>5, <2>4, <2>5, <2>6, <2>7, <2>8 DEF RKeeps, RInv, Memory, Sound
  <1> QED
    BY <1>1, <1>6, <1>7

\* The slot of an update: no other slot has its target.
LEMMA SlotIs ==
    ASSUME JInv, pc = "open", NEW t \in Targets, stages < MaxStages, SlotOf(t) <= MAX_TARGETS
    PROVE  /\ SlotOf(t) \in 1..(Len(targets) + 1) /\ SlotOf(t) \in 1..MAX_TARGETS
           /\ \A i \in 1..Len(targets) : targets[i].target = t <=> i = SlotOf(t)
           /\ StagedAs(t) = {} <=> SlotOf(t) = Len(targets) + 1
           /\ StagedAs(t) # {} => /\ SlotOf(t) \in 1..Len(targets)
                                  /\ journal_redirect(t) = image_block(SlotOf(t))
           /\ StagedAs(t) = {} => journal_redirect(t) = t
  <1>1. /\ SlotOf(t) \in 1..(Len(targets) + 1) /\ SlotOf(t) \in 1..MAX_TARGETS
    BY JFacts, StageFits
  <1>2. DOMAIN targets = 1..Len(targets) /\ Len(targets) \in Nat /\ Distinct(targets)
    BY JFacts DEF Driver, Memory, Opened, TxnSteps
  <1>3. CASE StagedAs(t) = {}
    <2>1. \A i \in 1..Len(targets) : targets[i].target # t
      BY <1>2, <1>3 DEF StagedAs
    <2>2. SlotOf(t) = Len(targets) + 1 /\ journal_redirect(t) = t
      BY <1>3 DEF SlotOf, journal_redirect
    <2> QED
      BY <1>1, <1>2, <1>3, <2>1, <2>2
  <1>4. CASE StagedAs(t) # {}
    <2>1. SlotOf(t) \in StagedAs(t) /\ journal_redirect(t) = image_block(SlotOf(t))
      BY <1>4 DEF SlotOf, journal_redirect
    <2>2. SlotOf(t) \in 1..Len(targets) /\ targets[SlotOf(t)].target = t
      BY <1>2, <2>1 DEF StagedAs
    <2>3. \A i \in 1..Len(targets) : targets[i].target = t <=> i = SlotOf(t)
      BY <1>2, <2>2 DEF Distinct
    <2> QED
      BY <1>1, <1>2, <1>4, <2>1, <2>2, <2>3
  <1> QED
    BY <1>3, <1>4

\* An update adds one stamp to updates of the past.
LEMMA UpdatedDated ==
    ASSUME JInv, pc = "open", NEW t \in Targets, stages < MaxStages, SlotOf(t) <= MAX_TARGETS
    PROVE  Updated(t) \subseteq 1..(stages + 1) /\ stages + 1 \in Updated(t)
  <1>1. cache[journal_redirect(t)].content \subseteq 1..stages
    <2>1. CASE StagedAs(t) = {}
      <3>1. journal_redirect(t) = t /\ t \in Blocks /\ cache[t].type = "image"
        BY <2>1, SlotIs, JFacts, Layout DEF Disk
      <3> QED
        BY <3>1, JFacts DEF Dated
    <2>2. CASE StagedAs(t) # {}
      <3>1. SlotOf(t) \in 1..Len(targets) /\ journal_redirect(t) = image_block(SlotOf(t))
        BY <2>2, SlotIs
      <3>2. image_block(SlotOf(t)) \in Blocks /\ cache[image_block(SlotOf(t))].type = "image"
        BY <3>1, TargetsDated, LogLayout, JFacts DEF IInv, TInv, StagedAreImages, TxnSteps
      <3> QED
        BY <3>1, <3>2, JFacts DEF Dated
    <2> QED
      BY <2>1, <2>2
  <1>2. stages + 1 \in 1..(stages + 1) /\ \A i \in 1..stages : i \in 1..(stages + 1)
    BY JFacts
  <1> QED
    BY <1>1, <1>2 DEF Updated

\* wfs_txn_stage_begin and _take: an image goes to a log slot that a mount does not
\* read, for the tail has passed every record.
LEMMA StageRec ==
    ASSUME JInv, NEW t \in Targets, Stage(t)
    PROVE  RKeeps
  <1> DEFINE slot == SlotOf(t)
             image == Updated(t)
             len == IF slot > Len(targets) THEN slot ELSE Len(targets)
             b == image_block(slot)
             v == Image(image)
  <1>1. /\ pc = "open" /\ stages < MaxStages /\ stages' = stages + 1 /\ slot <= MAX_TARGETS
        /\ UNCHANGED <<state, readOnly, dirtyMarked, nextSeq, crashes>>
        /\ \/ /\ WriteDone(b, v)
              /\ targets' = [i \in 1..len |-> IF i = slot THEN [target |-> t, checksum |-> image]
                                              ELSE targets[i]]
              /\ UNCHANGED <<pc, outcome, revokes, index>>
           \/ WriteFailed("stage", b, v) /\ Abort
    BY DEF Stage, volume
  <1>2. /\ slot \in 1..(Len(targets) + 1) /\ slot \in 1..MAX_TARGETS
        /\ \A i \in 1..Len(targets) : targets[i].target = t <=> i = slot
    BY <1>1, SlotIs
  <1>3. image \subseteq 1..(stages + 1) /\ stages + 1 \in image
    BY <1>1, UpdatedDated
  <1>4. /\ pc \in TxnSteps /\ Steady(media, cache) /\ nextSeq = TailSeq(cache) /\ index = 1
        /\ Distinct(targets) /\ cache[SUPER].state = "DIRTY" /\ Len(targets) \in Nat
        /\ \A i \in 1..Len(targets) : cache[image_block(i)] = Image(targets[i].checksum)
        /\ targets \in Seq(TargetList)
    BY <1>1, JFacts DEF TxnSteps, Phase, Serving, Building, Memory, Knows, Rests, Opened, Marked, Driver
  <1>5. b = slot + 2 /\ b \in Log
    <2>1. slot \in Nat /\ slot + 2 \in 2..(MAX_TARGETS + 4)
      BY <1>2, JournalAssumption
    <2> QED
      BY <2>1, Layout, LogLayout
  <1>6. v.type = "image" /\ v.content = image
    BY DEF Image
  <1>7. /\ Sound /\ Steady(media', cache') /\ TailSeq(cache') = TailSeq(cache)
        /\ cache'[SUPER] = cache[SUPER] /\ cache'[J_START] = cache[J_START] /\ media' = media
        /\ \A i \in Blocks : i # b => cache'[i] = cache[i]
    <2>1. DatedValue(v, stages')
      BY <1>1, <1>3, <1>6 DEF DatedValue
    <2>2. Wrote(b, v)
      BY <1>1, Requests, JFacts
    <2>3. stages' \in Nat /\ stages <= stages' /\ "image" \notin RecordTypes
      BY <1>1, JFacts DEF RecordTypes
    <2> HIDE DEF v, b
    <2> QED
      BY <1>4, <1>5, <1>6, <2>1, <2>2, <2>3, LogSound
  <1>8. CASE WriteFailed("stage", b, v) /\ Abort
    BY <1>1, <1>4, <1>7, <1>8, AbortKeeps, FailedCounts, JFacts
  <1>9. CASE /\ WriteDone(b, v)
             /\ targets' = [i \in 1..len |-> IF i = slot THEN [target |-> t, checksum |-> image]
                                             ELSE targets[i]]
             /\ UNCHANGED <<pc, outcome, revokes, index>>
    <2>1. cache'[b] = v /\ faults' = faults
      BY <1>5, <1>9, JFacts, LogLayout DEF WriteDone, Disk
    <2>2. len \in Nat /\ \A i \in 1..len : i = slot \/ i \in 1..Len(targets)
      BY <1>2, <1>4
    <2> HIDE DEF len, slot, image, b, v
    <2>3. Len(targets') = len /\ \A i \in 1..len : targets'[i] = IF i = slot THEN [target |-> t, checksum |-> image]
                                             ELSE targets[i]
      BY <1>9, <2>2
    <2>4. \A i \in 1..len : /\ i = slot => targets'[i].target = t /\ targets'[i].checksum = image
                            /\ i # slot => i \in 1..Len(targets) /\ targets'[i] = targets[i]
      BY <2>2, <2>3
    <2>5. Distinct(targets')
      BY <1>2, <1>4, <2>3, <2>4 DEF Distinct
    <2>6. \A i \in 1..Len(targets') : cache'[image_block(i)] = Image(targets'[i].checksum)
      <3> SUFFICES ASSUME NEW i \in 1..len
                   PROVE  cache'[image_block(i)] = Image(targets'[i].checksum)
        BY <2>3
      <3>1. CASE i = slot
        BY <2>1, <2>4, <3>1 DEF b, v
      <3>2. CASE i # slot
        <4>1. i \in 1..Len(targets) /\ targets'[i] = targets[i]
          BY <2>4, <3>2
        <4>2. image_block(i) = i + 2 /\ image_block(i) \in Blocks /\ slot \in Nat
          BY <1>2, <1>4, <4>1, TargetsDated, LogLayout
        <4>3. image_block(i) # b
          BY <1>5, <3>2, <4>2
        <4> QED
          BY <1>4, <1>7, <4>1, <4>2, <4>3
      <3> QED
        BY <3>1, <3>2
    <2>7. Phase'
      BY <1>1, <1>7, <1>9 DEF Phase, Applying
    <2>8. Knows' /\ Rests' /\ Opened' /\ Marked'
      BY <1>1, <1>4, <1>7, <1>9, <2>5, <2>6 DEF Knows, Rests, Opened, Marked, Resting, ReplaySteps
    <2>9. Logged' /\ Applied' /\ Scans'
      BY <1>1, <1>9 DEF Logged, Applied, Scans, Applying
    <2>10. Fresh'
      <3> SUFFICES ASSUME ~SameTail(media', cache'),
                          NEW i \in 1..Len(targets'), NEW j \in 1..Len(LogTargets(media'))
                   PROVE  targets'[i].checksum # LogTargets(media')[j].checksum
        BY <1>1, <1>9 DEF Fresh
      <3>1. ~SameTail(media, cache)
        BY <1>7 DEF SameTail
      <3>2. Whole(media)
        BY <1>4, <3>1 DEF Steady, Empty, Retired
      <3>3. media[descriptor_block].type = "descriptor" /\ descriptor_block \in Blocks
        BY <3>2, CommittedIs, LogLayout DEF Whole
      <3>4. LogTargets(media)[j].checksum \subseteq 1..stages
        BY <1>7, <3>3, JFacts DEF Dated, LogTargets
      <3>5. stages + 1 \notin 1..stages
        BY JFacts
      <3>6. CASE i = slot
        <4>1. targets'[i].checksum = image
          BY <2>3, <2>4, <3>6
        <4> QED
          BY <1>3, <1>7, <3>4, <3>5, <4>1
      <3>7. CASE i # slot
        <4>1. i \in 1..Len(targets) /\ targets'[i] = targets[i]
          BY <2>3, <2>4, <3>7
        <4> QED
          BY <1>1, <1>7, <3>1, <4>1, JFacts DEF Fresh, Building
      <3> QED
        BY <3>6, <3>7
    <2>11. NoFault' /\ revokes' \cap freed = {}
      BY <1>1, <1>7, <1>9, <2>1, JFacts DEF NoFault, JInv, FreesOnce, Building
    <2> QED
      BY <1>7, <2>7, <2>8, <2>9, <2>10, <2>11 DEF RKeeps, RInv, Memory, Sound
  <1> QED
    BY <1>1, <1>8, <1>9

\* A flush that carries the log to the media before the COMMIT is written.
LEMMA BarrierLogRec ==
    ASSUME JInv, BarrierLog
    PROVE  RKeeps
  <1>1. /\ pc = "barrier_log" /\ UNCHANGED <<state, readOnly, dirtyMarked, nextSeq, stages, crashes>>
        /\ \/ FlushDone /\ pc' = "commit" /\ UNCHANGED <<outcome, txn>>
           \/ ReadOrFlushFailed("barrier_log") /\ Abort
    BY DEF BarrierLog, LogFlush, volume
  <1>2. /\ pc \in TxnSteps /\ Steady(media, cache) /\ nextSeq = TailSeq(cache)
    BY <1>1, JFacts DEF TxnSteps, Phase, Serving, Building, Memory, Knows
  <1>3. Sound
    BY <1>1, SettledSound, Requests, JFacts
  <1>4. CASE ReadOrFlushFailed("barrier_log") /\ Abort
    <2>1. UNCHANGED <<media, cache>> /\ faults' # 0
      BY <1>4, FailedCounts, JFacts DEF device
    <2> QED
      BY <1>1, <1>2, <1>3, <1>4, <2>1, AbortKeeps
  <1>5. CASE FlushDone /\ pc' = "commit" /\ UNCHANGED <<outcome, txn>>
    <2>1. media' = cache /\ cache' = cache /\ faults' = faults /\ UNCHANGED <<targets, revokes, index>>
          /\ revoke_block' = revoke_block
      BY <1>5 DEF FlushDone, txn, revoke_block
    <2>2. Empty(media', cache') /\ SameLog(media', cache') /\ media'[SUPER] = cache'[SUPER]
      BY <1>2, <2>1, FlushedModes DEF SameLog
    <2>3. Phase'
      BY <1>5, <2>2 DEF Phase, Applying, Steady
    <2>4. Knows' /\ Rests' /\ Opened' /\ Marked'
      BY <1>1, <1>2, <1>5, <2>1, JFacts
      DEF Memory, Knows, Rests, Opened, Marked, Resting, ReplaySteps, Building
    <2>5. Logged' /\ Applied' /\ Scans'
      BY <1>1, <1>5, <2>1, JFacts DEF Memory, Logged, Applied, Scans, Applying
    <2>6. Fresh' /\ pc' \notin Building
      BY <1>1, <1>5, <2>1, JFacts DEF Fresh, Building
    <2>7. NoFault'
      BY <1>1, <1>5, <2>1, JFacts DEF NoFault
    <2> QED
      BY <1>3, <2>3, <2>4, <2>5, <2>6, <2>7 DEF RKeeps, RInv, Memory, Sound
  <1> QED
    BY <1>1, <1>4, <1>5

\* The COMMIT record.
LEMMA CommitRec ==
    ASSUME Handled, JInv, WriteCommit, Keeps
    PROVE  RKeeps
  <1> DEFINE v == CommitRecord(nextSeq, Len(targets))
  <1>1. /\ pc = "commit" /\ UNCHANGED <<state, readOnly, dirtyMarked, nextSeq, stages, crashes>>
        /\ WriteDone(commit_block, v) /\ pc' = "barrier_commit" /\ UNCHANGED <<outcome, txn>>
    BY FailedCounts, JFacts DEF WriteCommit, LogWrite, volume, Handled
  <1>2. /\ pc \in TxnSteps /\ Empty(media, cache) /\ SameLog(media, cache) /\ media[SUPER] = cache[SUPER]
        /\ nextSeq = TailSeq(cache) /\ index = 1 /\ Distinct(targets) /\ cache[SUPER].state = "DIRTY"
        /\ \A i \in 1..Len(targets) : cache[image_block(i)] = Image(targets[i].checksum)
        /\ cache[descriptor_block] = Descriptor(nextSeq, targets)
        /\ revokes # {} => cache[revoke_block] = RevokeRecord(nextSeq, revokes)
        /\ targets # << >> \/ revokes # {}
    BY <1>1, JFacts DEF TxnSteps, Phase, Fresh, Memory, Knows, Rests, Opened, Marked, Logged
  <1>3. /\ targets \in Seq(TargetList) /\ Len(targets) <= MAX_TARGETS /\ Len(targets) \in Nat
        /\ Disk(media) /\ Disk(cache) /\ Ordered(cache) /\ Disk(cache')
        /\ revoke_block = Len(targets) + 3
    BY JFacts, LogSlots DEF Driver, Keeps, TInv
  <1>4. commit_block = Len(targets) + (IF revokes # {} THEN 4 ELSE 3)
    <2>1. image_block(Len(targets)) = Len(targets) + 2
      BY <1>3, Layout
    <2> QED
      BY <1>3, <2>1 DEF commit_block
  <1>5. /\ cache' = [cache EXCEPT ![commit_block] = v] /\ media' = media /\ faults' = faults
        /\ UNCHANGED <<targets, revokes, index>>
    BY <1>1 DEF WriteDone, txn
  <1>6. /\ Committing(media, cache') /\ Ordered(cache') /\ TailSeq(cache') = TailSeq(cache)
        /\ LogTargets(cache') = targets /\ LogRevokes(cache') = revokes
    <2>1. /\ cache[descriptor_block] = Descriptor(TailSeq(cache), targets)
          /\ revokes # {} => cache[Len(targets) + 3] = RevokeRecord(TailSeq(cache), revokes)
          /\ cache' = [cache EXCEPT ![commit_block] = CommitRecord(TailSeq(cache), Len(targets))]
          /\ cache[SUPER].state # "CLEAN"
      BY <1>2, <1>3, <1>5
    <2> QED
      BY <1>2, <1>3, <1>4, <2>1, CommitWriteModes
  <1>7. commit_block \in Log /\ \A i \in Blocks : i # commit_block => cache'[i] = cache[i]
    <2>1. commit_block \in 2..(MAX_TARGETS + 4)
      BY JFacts, LogSlots, JournalAssumption
    <2> QED
      BY <1>3, <1>5, <2>1, LogLayout DEF Disk
  <1>8. Sound
    <2>1. v.type = "commit"
      BY DEF CommitRecord
    <2>2. DatedValue(v, stages)
      BY <2>1 DEF DatedValue
    <2>3. Dated(cache', stages)
      <3>1. commit_block \in Blocks /\ cache' \in {cache, [cache EXCEPT ![commit_block] = v]}
        BY <1>5, <1>7, LogLayout
      <3>2. stages \in Nat /\ stages <= stages /\ Dated(cache, stages)
        BY JFacts
      <3> HIDE DEF v
      <3> QED
        BY <1>3, <2>2, <3>1, <3>2, DatedWrite
    <2> QED
      BY <1>1, <1>5, <1>6, <2>3, JFacts DEF Sound
  <1> HIDE DEF v
  <1>9. \A i \in 1..Len(targets) : cache'[image_block(i)] = Image(targets[i].checksum)
    <2>1. \A i \in 1..Len(targets) : image_block(i) \in Blocks /\ image_block(i) # commit_block
      BY <1>2, <1>3, <1>4, TargetsDated, LogLayout
    <2> QED
      BY <1>2, <1>7, <2>1
  <1>10. cache'[SUPER] = cache[SUPER]
    BY <1>7, LogLayout, Layout
  <1>11. Phase'
    BY <1>1, <1>5, <1>6 DEF Phase, Applying, Serving, Building
  <1>12. Knows' /\ Rests' /\ Opened' /\ Marked'
    BY <1>1, <1>2, <1>5, <1>6, <1>9, <1>10 DEF Knows, Rests, Opened, Marked, Resting, ReplaySteps
  <1>13. Logged' /\ Applied' /\ Scans'
    BY <1>1, <1>5, <1>6 DEF Logged, Applied, Scans, Applying
  <1>14. Fresh' /\ pc' \notin Building
    BY <1>1 DEF Fresh, Building
  <1>15. NoFault'
    BY <1>1, <1>5, <1>10, JFacts DEF NoFault
  <1> QED
    BY <1>8, <1>11, <1>12, <1>13, <1>14, <1>15 DEF RKeeps, RInv, Memory, Sound

\* The flush that makes the transaction durable.
LEMMA BarrierCommitRec ==
    ASSUME Handled, JInv, BarrierCommit
    PROVE  RKeeps
  <1>1. /\ pc = "barrier_commit" /\ UNCHANGED <<state, readOnly, dirtyMarked, nextSeq, stages, crashes>>
        /\ FlushDone /\ pc' = "checkpoint" /\ UNCHANGED <<targets, revokes, index>>
    BY FailedCounts, JFacts DEF BarrierCommit, LogFlush, volume, Handled, txn
  <1>2. media' = cache /\ cache' = cache /\ faults' = faults
    BY <1>1 DEF FlushDone
  <1>3. Held(media', cache')
    BY <1>1, <1>2, FlushedModes, JFacts DEF Phase
  <1>4. Sound
    BY <1>1, SettledSound, Requests, JFacts
  <1>5. Phase'
    BY <1>1, <1>3 DEF Phase, Applying, Serving, Building
  <1>6. Knows' /\ Rests' /\ Opened' /\ Marked'
    BY <1>1, <1>2, JFacts
    DEF Memory, Knows, Rests, Opened, Marked, Resting, ReplaySteps, TxnSteps
  <1>7. HomedTo(cache, 1) /\ index = 1
    <2>1. \A i \in 1..Len(LogTargets(cache)) : ~(i < 1)
      OBVIOUS
    <2> QED
      BY <1>1, <2>1, JFacts DEF HomedTo, Memory, Rests
  <1>8. Logged' /\ Applied' /\ Scans'
    BY <1>1, <1>2, <1>7, JFacts DEF Memory, Logged, Applied, Scans, Applying
  <1>9. Fresh' /\ pc' \notin Building
    BY <1>1 DEF Fresh, Building
  <1>10. NoFault'
    BY <1>1, <1>2, JFacts DEF NoFault
  <1> QED
    BY <1>4, <1>5, <1>6, <1>8, <1>9, <1>10 DEF RKeeps, RInv, Memory, Sound

\* An image of a transaction that both disks hold goes to its metadata block.
LEMMA HomeSound ==
    ASSUME JInv, Held(media, cache), LogTargets(cache) = targets, index \in 1..Len(targets),
           Wrote(targets[index].target, cache[image_block(index)]), stages' = stages, Disk(cache')
    PROVE  /\ Sound /\ Held(media', cache') /\ TailSeq(cache') = TailSeq(cache) /\ media' = media
           /\ cache'[SUPER] = cache[SUPER]
           /\ LogTargets(cache') = targets /\ LogRevokes(cache') = LogRevokes(cache)
           /\ \A i \in Log : cache'[i] = cache[i]
           /\ \A t \in Targets : t # targets[index].target => cache'[t] = cache[t]
           /\ targets[index].target \in LogNames(cache) /\ targets[index].target \in Targets
  <1> DEFINE t == targets[index].target
             v == cache[image_block(index)]
  <1>1. /\ Disk(cache) /\ Ordered(cache) /\ Whole(cache) /\ Dated(cache, stages) /\ stages \in Nat
        /\ cache[descriptor_block].type = "descriptor"
    BY JFacts, CommittedIs DEF Held, Whole
  <1>2. t \in Targets /\ image_block(index) \in Log /\ t \in LogNames(cache)
    BY <1>1, LogOf DEF LogNames
  <1>3. t \in Blocks /\ t \notin Log /\ t # J_START /\ t # SUPER /\ image_block(index) \in Blocks
    BY <1>2, Layout, LogLayout
  <1>4. cache' \in {cache, [cache EXCEPT ![t] = v]} /\ media' = media
    BY DEF Wrote
  <1>5. \A i \in Blocks : i # t => cache'[i] = cache[i]
    BY <1>1, <1>3, <1>4 DEF Disk
  <1>6. cache'[SUPER] = cache[SUPER] /\ cache'[SUPER].state # "CLEAN"
    BY <1>1, <1>3, <1>5, Layout DEF Whole
  <1>7. DatedValue(v, stages)
    BY <1>1, <1>3 DEF Dated, DatedValue
  <1> HIDE DEF t, v
  <1>8. Dated(cache', stages)
    BY <1>1, <1>3, <1>4, <1>7, DatedWrite
  <1>9. /\ SameTail(cache, cache') /\ SameLog(cache, cache') /\ Ordered(cache') /\ TailSeq(cache') = TailSeq(cache)
        /\ LogTargets(cache') = LogTargets(cache) /\ Held(media, cache')
    BY <1>1, <1>2, <1>3, <1>4, <1>6, HomeWriteModes
  <1>10. LogRevokes(cache') = LogRevokes(cache)
    BY <1>1, <1>9, SameLogSame
  <1>11. Sound
    BY <1>4, <1>8, <1>9, JFacts DEF Sound
  <1>12. \A i \in Targets : i # t => cache'[i] = cache[i]
    BY <1>5, Layout
  <1> QED
    BY <1>2, <1>4, <1>6, <1>9, <1>10, <1>11, <1>12 DEF t, SameLog

\* The checkpoint of one image, or the latch if its write fails: the log still has it.
LEMMA CheckpointRec ==
    ASSUME JInv, Checkpoint, Keeps
    PROVE  RKeeps
  <1>1. /\ pc = "checkpoint" /\ UNCHANGED <<stages, crashes>> /\ index \in 1..Len(targets)
    BY JFacts DEF Checkpoint, Driver
  <1>2. /\ Held(media, cache) /\ LogTargets(cache) = targets /\ LogRevokes(cache) = revokes
        /\ HomedTo(cache, index) /\ Whole(cache)
        /\ nextSeq = TailSeq(cache) /\ Distinct(targets) /\ cache[SUPER].state = "DIRTY"
        /\ \A i \in 1..Len(targets) : cache[image_block(i)] = Image(targets[i].checksum)
    BY <1>1, JFacts
    DEF Phase, Applying, Memory, Applied, Held, Knows, Opened, Marked, TxnSteps
  <1>3. Wrote(targets[index].target, cache[image_block(index)]) /\ Disk(cache')
    BY Requests, JFacts DEF Checkpoint, Keeps, TInv
  <1>4. /\ Sound /\ Held(media', cache') /\ TailSeq(cache') = TailSeq(cache) /\ media' = media
        /\ cache'[SUPER] = cache[SUPER]
        /\ LogTargets(cache') = targets /\ LogRevokes(cache') = LogRevokes(cache)
        /\ \A i \in Log : cache'[i] = cache[i]
    BY <1>1, <1>2, <1>3, HomeSound
  <1>5. CASE WriteFailed(pc, targets[index].target, cache[image_block(index)]) /\ Latch
    BY <1>4, <1>5, LatchKeeps, FailedCounts, JFacts
  <1>6. CASE /\ WriteDone(targets[index].target, cache[image_block(index)])
             /\ index' = index + 1
             /\ UNCHANGED <<pc, outcome, targets, revokes, volume>>
    <2>1. UNCHANGED <<state, readOnly, dirtyMarked, nextSeq>>
      BY <1>6 DEF volume
    <2>2. HomedTo(cache', index + 1)
      <3>1. cache' = [cache EXCEPT ![LogTargets(cache)[index].target] = cache[image_block(index)]]
        BY <1>2, <1>6 DEF WriteDone
      <3> QED
        BY <1>1, <1>2, <1>3, <3>1, JFacts, HomedFurther
    <2>3. \A i \in 1..Len(targets) : cache'[image_block(i)] = Image(targets[i].checksum)
      BY <1>1, <1>2, <1>4, TargetsDated DEF TxnSteps
    <2>4. Phase'
      BY <1>1, <1>4, <1>6 DEF Phase, Applying, Serving, Building
    <2>5. Knows' /\ Rests' /\ Opened' /\ Marked'
      BY <1>1, <1>2, <1>4, <1>6, <2>1, <2>3
      DEF Knows, Rests, Opened, Marked, Resting, ReplaySteps, Building
    <2>6. Logged' /\ Applied' /\ Scans'
      BY <1>1, <1>2, <1>4, <1>6, <2>2 DEF Logged, Applied, Scans, Applying
    <2>7. Fresh' /\ pc' \notin Building
      BY <1>1, <1>6 DEF Fresh, Building
    <2>8. NoFault'
      BY <1>1, <1>4, <1>6, <2>1, JFacts DEF NoFault, WriteDone
    <2> QED
      BY <1>4, <2>4, <2>5, <2>6, <2>7, <2>8 DEF RKeeps, RInv, Memory, Sound
  <1> QED
    BY <1>5, <1>6 DEF Checkpoint

\* Every image is in its metadata block, in the cache: the barrier may follow.
LEMMA CheckpointDoneRec ==
    ASSUME JInv, CheckpointDone
    PROVE  RKeeps
  <1>1. /\ pc = "checkpoint" /\ index > Len(targets) /\ pc' = "barrier_data"
        /\ UNCHANGED <<media, cache, faults, state, readOnly, dirtyMarked, nextSeq, targets, revokes, index, stages>>
    BY DEF CheckpointDone, NoRequest, volume, device, txn
  <1>2. Sound
    BY <1>1, StillSound
  <1>3. /\ Held(media, cache) /\ LogTargets(cache) = targets /\ LogRevokes(cache) = revokes
        /\ HomedTo(cache, index) /\ index \in Nat /\ Len(targets) \in Nat
    BY <1>1, JFacts DEF Phase, Applying, Memory, Applied, Driver
  <1>4. Homed(cache)
    BY <1>1, <1>3 DEF HomedTo, Homed
  <1>5. Phase'
    BY <1>1, <1>3 DEF Phase, Applying, Serving, Building
  <1>6. Knows' /\ Rests' /\ Opened' /\ Marked'
    BY <1>1, JFacts
    DEF Memory, Knows, Rests, Opened, Marked, Resting, ReplaySteps, Building, TxnSteps
  <1>7. Logged' /\ Applied' /\ Scans'
    BY <1>1, <1>3, <1>4 DEF Logged, Applied, Scans, Applying
  <1>8. Fresh' /\ pc' \notin Building
    BY <1>1 DEF Fresh, Building
  <1>9. NoFault'
    BY <1>1, JFacts DEF NoFault
  <1> QED
    BY <1>2, <1>5, <1>6, <1>7, <1>8, <1>9 DEF RKeeps, RInv, Memory, Sound

\* The flush after the checkpoint, or the latch if it fails: media and cache hold the
\* transaction in the log and in the home blocks before the tail passes it.
LEMMA BarrierDataRec ==
    ASSUME JInv, BarrierData
    PROVE  RKeeps
  <1>1. pc = "barrier_data" /\ UNCHANGED <<stages, crashes>>
    BY DEF BarrierData
  <1>2. /\ Held(media, cache) /\ LogTargets(cache) = targets /\ LogRevokes(cache) = revokes
        /\ Homed(cache)
    BY <1>1, JFacts DEF Phase, Applying, Memory, Applied
  <1>3. Sound
    BY <1>1, SettledSound, Requests, JFacts DEF BarrierData
  <1>4. CASE ReadOrFlushFailed(pc) /\ Latch
    <2>1. faults' # 0 /\ UNCHANGED <<media, cache>>
      BY <1>4, FailedCounts, JFacts DEF device
    <2> QED
      BY <1>2, <1>3, <1>4, <2>1, LatchKeeps
  <1>5. CASE FlushDone /\ pc' = "tail" /\ UNCHANGED <<outcome, txn, volume>>
    <2>1. /\ media' = cache /\ cache' = cache /\ faults' = faults
          /\ UNCHANGED <<targets, revokes, index, state, readOnly, dirtyMarked, nextSeq>>
      BY <1>5 DEF FlushDone, txn, volume
    <2>2. Held(media', cache') /\ SameTargets(media', cache')
      BY <1>2, <2>1, FlushedModes DEF SameTargets
    <2>3. Phase'
      BY <1>5, <2>2 DEF Phase, Applying, Serving, Building
    <2>4. Knows' /\ Rests' /\ Opened' /\ Marked'
      BY <1>1, <1>5, <2>1, JFacts
      DEF Memory, Knows, Rests, Opened, Marked, Resting, ReplaySteps, Building, TxnSteps
    <2>5. Logged' /\ Applied' /\ Scans'
      BY <1>2, <1>5, <2>1 DEF Logged, Applied, Scans, Applying
    <2>6. Fresh' /\ pc' \notin Building
      BY <1>5 DEF Fresh, Building
    <2>7. NoFault'
      BY <1>5, <2>1, JFacts DEF NoFault
    <2> QED
      BY <1>3, <2>3, <2>4, <2>5, <2>6, <2>7 DEF RKeeps, RInv, Memory, Sound
  <1> QED
    BY <1>4, <1>5 DEF BarrierData

\* The tail's write, of a commit or of a replay, reached the cache or not.
LEMMA TailSound ==
    ASSUME JInv, pc \in {"tail", "replay_tail"}, Wrote(J_START, JournalSuper(RetiredTail)),
           stages' = stages, Disk(cache')
    PROVE  /\ Sound /\ (Steady(media', cache') \/ Held(media', cache'))
           /\ media' = media /\ cache'[SUPER] = cache[SUPER]
           /\ cache' = [cache EXCEPT ![J_START] = JournalSuper(RetiredTail)] =>
                 Retired(media', cache') /\ TailSeq(cache') = RetiredTail
  <1>1. /\ Disk(media) /\ Disk(cache) /\ Ordered(cache) /\ Held(media, cache) /\ Homed(cache)
        /\ SameTargets(media, cache) /\ nextSeq = TailSeq(cache)
    BY JFacts DEF Phase, Applying, Memory, Applied, Knows, TxnSteps, ReplaySteps
  <1>2. RetiredTail = TailSeq(cache) + 1
    BY <1>1 DEF RetiredTail
  <1>3. media' = media /\ cache' \in {cache, [cache EXCEPT ![J_START] = JournalSuper(RetiredTail)]}
    BY DEF Wrote
  <1>4. J_START \in Blocks /\ JournalSuper(RetiredTail).type = "tail"
    BY Layout DEF JournalSuper
  <1>5. DatedValue(JournalSuper(RetiredTail), stages)
    BY <1>4 DEF DatedValue
  <1>6. Dated(cache', stages)
    BY <1>1, <1>3, <1>4, <1>5, JFacts, DatedWrite
  <1>7. cache'[SUPER] = cache[SUPER]
    BY <1>1, <1>3, Layout DEF Disk
  <1>8. CASE cache' = [cache EXCEPT ![J_START] = JournalSuper(RetiredTail)]
    <2>1. Retired(media, cache') /\ Ordered(cache') /\ TailSeq(cache') = RetiredTail
      BY <1>1, <1>2, <1>8, TailWriteModes
    <2> QED
      BY <1>3, <1>6, <1>7, <2>1, JFacts DEF Sound, Steady
  <1>9. CASE cache' # [cache EXCEPT ![J_START] = JournalSuper(RetiredTail)]
    BY <1>1, <1>3, <1>7, <1>9, JFacts DEF Sound
  <1> QED
    BY <1>8, <1>9

\* The tail retires the transaction.
LEMMA WriteTailRec ==
    ASSUME JInv, WriteTail, Keeps
    PROVE  RKeeps
  <1>1. pc = "tail" /\ UNCHANGED <<stages, crashes>> /\ Disk(cache')
        /\ Wrote(J_START, JournalSuper(RetiredTail))
    BY Requests, JFacts DEF WriteTail, Keeps, TInv
  <1>2. /\ Sound /\ (Steady(media', cache') \/ Held(media', cache'))
        /\ media' = media /\ cache'[SUPER] = cache[SUPER]
        /\ cache' = [cache EXCEPT ![J_START] = JournalSuper(RetiredTail)] =>
                 Retired(media', cache') /\ TailSeq(cache') = RetiredTail
    BY <1>1, TailSound
  <1>3. CASE WriteFailed(pc, J_START, JournalSuper(RetiredTail)) /\ Latch
    BY <1>2, <1>3, LatchKeeps, FailedCounts, JFacts
  <1>4. CASE /\ WriteDone(J_START, JournalSuper(RetiredTail)) /\ nextSeq' = RetiredTail
             /\ pc' = "idle" /\ EmptyTxn /\ UNCHANGED <<state, readOnly, dirtyMarked>>
    <2>1. Retired(media', cache') /\ nextSeq' = TailSeq(cache') /\ faults' = faults
      BY <1>2, <1>4 DEF WriteDone
    <2>2. NoFault'
      BY <1>2, <1>4, <2>1, JFacts DEF NoFault
    <2>3. cache'[SUPER].state = "DIRTY"
      BY <1>1, <1>2, JFacts DEF Memory, Marked, TxnSteps
    <2> QED
      BY <1>2, <1>4, <2>1, <2>2, <2>3, RestKeeps DEF Resting, EmptyTxn, Steady
  <1> QED
    BY <1>3, <1>4 DEF WriteTail

-----------------------------------------------------------------------------
(* Unmounting, the end of the driver, and the device. *)

\* An unmount leaves a clean mark on a volume with nothing to replay.
LEMMA SyncRec ==
    ASSUME Handled, JInv, SyncClean \/ BarrierSync, Keeps
    PROVE  RKeeps
  <1>1. CASE SyncClean
    <2>1. /\ pc = "idle" /\ ~readOnly /\ WriteDone(SUPER, Super("CLEAN")) /\ pc' = "barrier_sync"
          /\ UNCHANGED <<readOnly, dirtyMarked, nextSeq, targets, revokes, index, outcome, stages, crashes>>
      BY <1>1, FailedCounts, JFacts DEF SyncClean, Handled, txn
    <2>2. Wrote(SUPER, Super("CLEAN")) /\ Disk(cache')
      BY <2>1, Requests, JFacts DEF Keeps, TInv
    <2>3. /\ Serving /\ Steady(media, cache) /\ nextSeq = TailSeq(cache)
          /\ targets = << >> /\ revokes = {} /\ index = 1
      BY <2>1, JFacts DEF Serving, Phase, Memory, Knows, Rests, Resting
    <2>4. Sound /\ Steady(media', cache') /\ TailSeq(cache') = TailSeq(cache)
      BY <2>1, <2>2, <2>3, SuperSound
    <2>5. NoFault'
      <3>1. cache'[SUPER].state = "CLEAN" /\ media' = media /\ faults' = faults
        BY <2>1, JFacts, Layout DEF WriteDone, Disk, Super
      <3> QED
        BY <2>1, <3>1, JFacts DEF NoFault
    <2> QED
      BY <2>1, <2>3, <2>4, <2>5, RestKeeps DEF Resting
  <1>2. CASE BarrierSync
    <2>1. /\ pc = "barrier_sync" /\ FlushDone /\ pc' = "idle" /\ dirtyMarked' = FALSE
          /\ UNCHANGED <<readOnly, nextSeq, targets, revokes, index, outcome, stages, crashes>>
      BY <1>2, FailedCounts, JFacts DEF BarrierSync, Handled, txn
    <2>2. media' = cache /\ cache' = cache /\ faults' = faults
      BY <2>1 DEF FlushDone
    <2>3. /\ Steady(media, cache) /\ nextSeq = TailSeq(cache)
          /\ targets = << >> /\ revokes = {} /\ index = 1
      BY <2>1, JFacts DEF Serving, Phase, Memory, Knows, Rests, Resting
    <2>4. Sound /\ Steady(media', cache')
      BY <2>1, <2>2, <2>3, SettledSound, Requests, FlushedModes, JFacts DEF Steady
    <2>5. NoFault'
      BY <2>1, <2>2, JFacts DEF NoFault
    <2> QED
      BY <2>1, <2>2, <2>3, <2>4, <2>5, RestKeeps DEF Resting
  <1> QED
    BY <1>1, <1>2

\* The mark of a failed replay.
LEMMA RecordErrorRec ==
    ASSUME JInv, RecordError, Keeps
    PROVE  RKeeps
  <1>1. /\ pc = "record_error" /\ pc' = "idle" /\ readOnly
        /\ UNCHANGED <<readOnly, dirtyMarked, nextSeq, targets, revokes, index, outcome, stages, crashes>>
    BY DEF RecordError, txn, JInv, IInv, ErrorKnown
  <1>2. Wrote(SUPER, Super("ERROR")) /\ Disk(cache') /\ media' = media
    BY Requests, JFacts DEF RecordError, Keeps, TInv, Wrote
  <1>3. faults' # 0
    BY <1>1, JFacts, FailedCounts DEF RecordError, NoFault, WriteDone
  <1>4. /\ Steady(media, cache) \/ Held(media, cache)
        /\ targets = << >> /\ revokes = {} /\ index = 1
    BY <1>1, JFacts DEF Phase, Memory, Rests, Resting
  <1>5. Held(media, cache) => cache'[SUPER].state # "CLEAN"
    <2>1. cache'[SUPER] \in {cache[SUPER], Super("ERROR")}
      BY <1>2, JFacts, Layout DEF Wrote, Disk
    <2>2. Super("ERROR").state = "ERROR"
      BY DEF Super
    <2> QED
      BY <2>1, <2>2 DEF Held, Whole
  <1>6. Sound /\ (Steady(media', cache') \/ Held(media', cache'))
    BY <1>1, <1>2, <1>4, <1>5, SuperSound
  <1>7. ~Serving' /\ NoFault'
    BY <1>1, <1>3 DEF Serving, Building, NoFault
  <1> QED
    BY <1>1, <1>4, <1>6, <1>7, RestKeeps DEF Resting

\* The driver ends, alone or with the power.
LEMMA DownRec ==
    ASSUME Handled, JInv, Exit \/ Crash
    PROVE  RKeeps
  <1>1. /\ Restart /\ media' = media
        /\ \/ cache' = media /\ pc # "down"
           \/ cache' = cache /\ pc # "barrier_commit"
    BY DEF Exit, Crash, device, Handled
  <1>2. /\ pc' = "down" /\ readOnly' = FALSE /\ dirtyMarked' = FALSE
        /\ targets' = << >> /\ revokes' = {} /\ index' = 1 /\ UNCHANGED <<stages, faults>>
    BY <1>1 DEF Restart, EmptyTxn
  <1>3. Sound
    BY <1>1, <1>2, JFacts DEF Sound
  <1>4. Steady(media', cache') \/ Held(media', cache')
    <2>1. CASE cache' = cache /\ pc # "barrier_commit"
      BY <1>1, <2>1, JFacts DEF Phase
    <2>2. CASE cache' = media
      <3>1. Retired(media, cache) \/ Empty(media, cache) \/ Committing(media, cache) \/ Held(media, cache)
        BY JFacts DEF Phase, Steady
      <3>2. Empty(media, media) \/ Held(media, media)
        BY <3>1, CutModes
      <3> QED
        BY <1>1, <2>2, <3>2 DEF Steady
    <2> QED
      BY <1>1, <2>1, <2>2
  <1>5. ~Serving' /\ NoFault'
    BY <1>1, <1>2, JFacts DEF Serving, Building, NoFault
  <1> QED
    BY <1>2, <1>3, <1>4, <1>5, RestKeeps DEF Resting

\* A cached block reaches the media.
LEMMA WritebackRec ==
    ASSUME Handled, JInv, NEW b \in Blocks, Writeback(b), Keeps
    PROVE  RKeeps
  <1>1. /\ media[b] # cache[b] /\ (b = J_START \/ SameTail(media, cache))
        /\ media' = [media EXCEPT ![b] = cache[b]]
        /\ UNCHANGED <<cache, pc, state, readOnly, dirtyMarked, nextSeq, targets, revokes, index,
                       outcome, stages, crashes, faults>>
    BY DEF Writeback, volume, txn, Handled, SameTail
  <1>2. /\ Disk(media) /\ Disk(cache) /\ Ordered(media) /\ Ordered(cache) /\ Disk(media')
        /\ Steady(media, cache) \/ Committing(media, cache) \/ Held(media, cache)
    BY JFacts DEF Phase, Keeps, TInv
  <1>3. /\ Ordered(media')
        /\ Retired(media, cache) => Empty(media', cache) /\ b = J_START
        /\ Empty(media, cache) => Empty(media', cache)
        /\ Committing(media, cache) => Committing(media', cache) \/ Held(media', cache)
        /\ Held(media, cache) => Held(media', cache)
    BY <1>1, <1>2, WritebackModes
  <1>4. /\ Steady(media, cache) => Steady(media', cache') /\ Empty(media', cache')
        /\ Held(media, cache) => Held(media', cache')
        /\ Committing(media, cache) => Committing(media', cache') \/ Held(media', cache')
        /\ Empty(media, cache) => Empty(media', cache')
    BY <1>1, <1>3 DEF Steady
  <1>5. \A i \in Blocks : media'[i] = media[i] \/ media'[i] = cache[i]
    BY <1>1, <1>2 DEF Disk
  <1>6. Sound
    <2>1. Dated(media', stages)
      BY <1>5, JFacts DEF Dated
    <2> QED
      BY <1>1, <1>3, <2>1, JFacts DEF Sound
  <1>7. /\ SameLog(media, cache) => SameLog(media', cache')
        /\ SameTargets(media, cache) => SameTargets(media', cache')
        /\ media[SUPER] = cache[SUPER] => media'[SUPER] = cache'[SUPER]
    BY <1>1, <1>5, Layout DEF SameLog, SameTargets
  <1>8. Serving' = Serving
    BY <1>1 DEF Serving
  <1>9. Phase'
    BY <1>1, <1>4, <1>7, <1>8, JFacts DEF Phase
  <1>10. Memory'
    BY <1>1, <1>8, JFacts
    DEF Memory, Knows, Rests, Opened, Marked, Logged, Applied, Scans, revoke_block
  <1>11. pc \in Building => Empty(media', cache') /\ SameTail(media', cache') /\ ~Committed(media')
    BY <1>4, JFacts, QuietLog DEF Phase, Serving, Empty
  <1>12. Fresh'
    BY <1>1, <1>11, JFacts DEF Fresh
  <1>13. NoFault'
    <2>1. media'[SUPER] = media[SUPER] \/ media'[SUPER] = cache[SUPER]
      BY <1>5, Layout
    <2> QED
      BY <1>1, <2>1, JFacts DEF NoFault
  <1>14. pc \in Building => revokes' \cap freed = {}
    BY <1>1 DEF JInv, FreesOnce
  <1> QED
    BY <1>1, <1>6, <1>9, <1>10, <1>11, <1>12, <1>13, <1>14 DEF RKeeps, RInv, Sound

-----------------------------------------------------------------------------
(* Mounting and recovery. *)

\* A mount serves a clean volume as it is: a transaction to replay left it dirty.
LEMMA MountRec ==
    ASSUME JInv, Mount
    PROVE  RKeeps
  <1>1. /\ pc = "down" /\ state' = cache[SUPER].state /\ UNCHANGED <<media, cache>>
        /\ UNCHANGED <<dirtyMarked, targets, revokes, index, outcome, stages, crashes>>
    BY DEF Mount, NoRequest, ReadOrFlushFailed, device, txn
  <1>2. /\ Steady(media, cache) \/ Held(media, cache)
        /\ targets = << >> /\ revokes = {} /\ index = 1 /\ ~dirtyMarked
    BY <1>1, JFacts DEF Phase, Memory, Rests, Resting
  <1>3. Sound
    BY <1>1, StillSound
  <1>4. CASE ReadOrFlushFailed(pc) /\ readOnly' = TRUE /\ pc' = "idle"
    <2>1. ~Serving' /\ NoFault'
      BY <1>4, FailedCounts, JFacts DEF Serving, Building, NoFault
    <2> QED
      BY <1>1, <1>2, <1>3, <1>4, <2>1, RestKeeps DEF Resting
  <1>5. CASE /\ NoRequest /\ readOnly' = mounts_read_only(state') /\ nextSeq' = cache[J_START].seq
             /\ pc' = IF needs_replay(state') THEN "replay_descriptor" ELSE "idle"
    <2>1. nextSeq' = TailSeq(cache') /\ faults' = faults
      BY <1>1, <1>5 DEF TailSeq, NoRequest
    <2>2. cache[SUPER].state \in {"CLEAN", "DIRTY", "ERROR"}
      BY JFacts, Layout, ContentByType DEF Disk
    <2>3. Serving' => Steady(media', cache')
      <3>1. Serving' => state' # "DIRTY" /\ state' # "ERROR"
        BY <1>5 DEF Serving, Building, needs_replay, mounts_read_only
      <3>2. Held(media, cache) => state' # "CLEAN"
        BY <1>1 DEF Held, Whole
      <3> QED
        BY <1>1, <1>2, <2>2, <3>1, <3>2
    <2>4. NoFault'
      BY <1>1, <1>5, <2>1, JFacts DEF NoFault, mounts_read_only
    <2>5. pc' \in {"idle", "replay_descriptor"}
      BY <1>5
    <2> QED
      BY <1>1, <1>2, <1>3, <2>1, <2>3, <2>4, <2>5, RestKeeps DEF Resting
  <1> QED
    BY <1>4, <1>5 DEF Mount

\* The reads and the barrier of a replay that fail.
LEMMA ReplayReadRec ==
    ASSUME JInv, pc \in ReplaySteps, ReadOrFlushFailed(pc), ReplayFails, stages' = stages
    PROVE  RKeeps
  <1>1. UNCHANGED <<media, cache>> /\ faults' # 0
    BY FailedCounts, JFacts DEF device
  <1>2. Sound
    BY <1>1, StillSound
  <1>3. pc # "barrier_commit"
    BY DEF ReplaySteps
  <1> QED
    BY <1>1, <1>2, <1>3, ReplayFailsKeeps, JFacts DEF Phase

\* The end of a replay that finds nothing.
LEMMA NothingRec ==
    ASSUME JInv, pc \in ReplaySteps, NothingToReplay, ~Held(media, cache),
           UNCHANGED <<volume, media, cache, faults, stages>>
    PROVE  RKeeps
  <1>1. /\ pc' = "idle" /\ targets' = << >> /\ revokes' = {} /\ index' = 1
        /\ UNCHANGED <<readOnly, dirtyMarked, nextSeq>>
    BY DEF NothingToReplay, EmptyTxn, volume
  <1>2. Steady(media', cache') /\ nextSeq' = TailSeq(cache') /\ ~dirtyMarked'
    BY <1>1, JFacts DEF ReplaySteps, Phase, Memory, Knows, Rests
  <1>3. Sound /\ NoFault'
    BY <1>1, StillSound, JFacts DEF NoFault
  <1> QED
    BY <1>1, <1>2, <1>3, RestKeeps DEF Resting

\* A replay reads the descriptor: the block holds no other record.
LEMMA ReplayDescriptorRec ==
    ASSUME JInv, ReplayDescriptor
    PROVE  RKeeps
  <1> DEFINE d == cache[descriptor_block]
  <1>1. /\ pc = "replay_descriptor" /\ UNCHANGED <<media, cache, faults, stages>>
    BY DEF ReplayDescriptor, NoRequest, device
  <1>2. /\ Steady(media, cache) \/ Held(media, cache)
        /\ nextSeq = TailSeq(cache) /\ targets = << >> /\ revokes = {} /\ index = 1 /\ ~dirtyMarked
        /\ pc \in ReplaySteps
    BY <1>1, JFacts DEF Phase, Memory, Knows, Rests, Resting, ReplaySteps
  <1>3. Held(media, cache) => Live(d, nextSeq)
    BY <1>2, CommittedIs DEF Held, Whole, Live, RecordTypes
  <1>4. Live(d, nextSeq) => d.type = "descriptor"
    BY JFacts, LogLayout DEF Ordered, Live
  <1>5. CASE ~Live(d, nextSeq) /\ NothingToReplay /\ UNCHANGED volume
    BY <1>1, <1>2, <1>3, <1>5, NothingRec
  <1>6. CASE /\ d.type = "descriptor" /\ targets' = d.targets
             /\ index' = image_block(Len(d.targets)) + 1 /\ pc' = "replay_scan"
             /\ UNCHANGED <<revokes, volume>>
    <2>1. UNCHANGED <<readOnly, dirtyMarked, nextSeq>>
      BY <1>6 DEF volume
    <2>2. targets' = LogTargets(cache')
      BY <1>1, <1>6 DEF LogTargets
    <2>3. index' \in Nat /\ index' = image_block(Len(targets')) + 1
      <3>1. Len(LogTargets(cache)) \in Nat /\ image_block(Len(LogTargets(cache))) = Len(LogTargets(cache)) + 2
        BY <1>6, LogOf, JFacts
      <3> QED
        BY <1>6, <3>1 DEF LogTargets
    <2>4. Phase'
      BY <1>1, <1>2, <1>6 DEF Phase, Applying, Serving, Building
    <2>5. Knows' /\ Rests' /\ Opened' /\ Marked'
      BY <1>1, <1>2, <1>6, <2>1 DEF Knows, Rests, Opened, Marked, Resting, ReplaySteps, Building, TxnSteps
    <2>6. Logged' /\ Applied'
      BY <1>6 DEF Logged, Applied, Applying
    <2>7. Scans'
      BY <1>1, <1>2, <1>6, <2>2, <2>3 DEF Scans
    <2>8. Fresh' /\ pc' \notin Building
      BY <1>6 DEF Fresh, Building
    <2>9. NoFault'
      BY <1>1, <1>6, <2>1, JFacts DEF NoFault
    <2>10. Sound
      BY <1>1, StillSound
    <2> QED
      BY <2>4, <2>5, <2>6, <2>7, <2>8, <2>9, <2>10 DEF RKeeps, RInv, Memory, Sound
  <1> QED
    BY <1>4, <1>5, <1>6 DEF ReplayDescriptor

\* The scan behind the images meets the record that the log was written with.
LEMMA ReplayScanRec ==
    ASSUME JInv, ReplayScan
    PROVE  RKeeps
  <1> DEFINE d == IF index \in Log THEN cache[index] ELSE JournalSuper(0)
             len == Len(targets)
  <1>1. /\ pc = "replay_scan" /\ UNCHANGED <<media, cache, faults, stages>> /\ pc \in ReplaySteps
    BY DEF ReplayScan, NoRequest, device, ReplaySteps
  <1>2. /\ Steady(media, cache) \/ Held(media, cache)
        /\ nextSeq = TailSeq(cache) /\ ~dirtyMarked
        /\ cache[descriptor_block].type = "descriptor" /\ targets = LogTargets(cache)
        /\ index \in Nat /\ Disk(cache) /\ Ordered(cache)
    BY <1>1, JFacts DEF Phase, Memory, Knows, Rests, ReplaySteps, Scans, Driver
  <1>3. len \in Nat /\ image_block(len) = len + 2 /\ len + 3 \in Log
        /\ CommitAt(cache) = len + (IF HasRevoke(cache) THEN 4 ELSE 3) /\ CommitAt(cache) \in Log
    BY <1>2, LogOf
  <1>4. /\ index >= len + 3
        /\ Committed(cache) => \/ index = len + 3 /\ revokes = {}
                               \/ index = len + 4 /\ HasRevoke(cache) /\ revokes = LogRevokes(cache)
    BY <1>1, <1>3, JFacts DEF Memory, Scans
  <1>5. Live(d, nextSeq) => index \in Log /\ d = cache[index]
    <2>1. JournalSuper(0).type \notin RecordTypes
      BY DEF JournalSuper, RecordTypes
    <2> QED
      BY <2>1 DEF Live
  <1>6. HasRevoke(cache) <=> Live(cache[len + 3], nextSeq) /\ cache[len + 3].type = "revoke"
    <2>1. image_block(Len(LogTargets(cache))) + 1 = len + 3
      BY <1>2, <1>3
    <2> QED
      BY <1>2, <2>1 DEF HasRevoke, TailSeq
  <1>7. HasRevoke(cache) => LogRevokes(cache) = cache[len + 3].blocks
    <2>1. image_block(Len(LogTargets(cache))) + 1 = len + 3
      BY <1>2, <1>3
    <2> QED
      BY <2>1 DEF LogRevokes
  <1>8. Committed(cache) =>
           /\ cache[CommitAt(cache)].type = "commit" /\ cache[CommitAt(cache)].count = len
           /\ Live(cache[CommitAt(cache)], nextSeq)
    <2>1. /\ CommitRecord(nextSeq, len).type = "commit" /\ CommitRecord(nextSeq, len).count = len
          /\ CommitRecord(nextSeq, len).seq = nextSeq
      BY DEF CommitRecord
    <2>2. Committed(cache) => cache[CommitAt(cache)] = CommitRecord(nextSeq, len)
      BY <1>2, CommittedIs
    <2> QED
      BY <2>1, <2>2 DEF Live, RecordTypes
  <1>9. Held(media, cache) => Committed(cache)
    BY DEF Held, Whole
  <1>10. index \in Log /\ Live(cache[index], nextSeq) /\ cache[index].type = "commit" => Held(media, cache)
    <2>1. Steady(media, cache) => Quiet(cache)
      BY DEF Steady, Retired, Empty
    <2> QED
      BY <1>2, <2>1 DEF Quiet, Live
  <1> HIDE DEF len, d
  <1>11. Committed(cache) =>
            \/ /\ index = len + 3 /\ revokes = {} /\ HasRevoke(cache)
               /\ index \in Log /\ Live(cache[index], nextSeq) /\ cache[index].type = "revoke"
            \/ /\ index = len + 3 /\ revokes = {} /\ ~HasRevoke(cache)
               /\ index \in Log /\ Live(cache[index], nextSeq)
               /\ cache[index].type = "commit" /\ cache[index].count = len
            \/ /\ index = len + 4 /\ HasRevoke(cache) /\ revokes = LogRevokes(cache)
               /\ index \in Log /\ Live(cache[index], nextSeq)
               /\ cache[index].type = "commit" /\ cache[index].count = len
    BY <1>3, <1>4, <1>6, <1>8
  <1>12. CASE ~Live(d, nextSeq) /\ NothingToReplay /\ UNCHANGED volume
    <2>1. ~Held(media, cache)
      BY <1>9, <1>11, <1>12 DEF d
    <2> QED
      BY <1>1, <1>12, <2>1, NothingRec
  <1>13. ASSUME Live(d, nextSeq), d.type = "descriptor" \/ (d.type = "commit" /\ d.count # len)
         PROVE  FALSE
    <2>1. index \in Log /\ d = cache[index] /\ d.type \in RecordTypes
      BY <1>5, <1>13 DEF Live
    <2>2. CASE d.type = "descriptor"
      <3>1. index = descriptor_block
        BY <1>2, <2>1, <2>2 DEF Ordered
      <3> QED
        BY <1>2, <1>3, <1>4, <3>1, Layout
    <2>3. CASE d.type = "commit" /\ d.count # len
      BY <1>9, <1>10, <1>11, <1>13, <2>1, <2>3
    <2> QED
      BY <1>13, <2>2, <2>3
  <1>14. Sound
    BY <1>1, StillSound
  <1>15. CASE /\ Live(d, nextSeq) /\ d.type = "revoke" /\ revokes' = d.blocks /\ index' = index + 1
              /\ UNCHANGED <<pc, targets, volume>>
    <2>1. UNCHANGED <<readOnly, dirtyMarked, nextSeq>> /\ index \in Log /\ d = cache[index]
      BY <1>5, <1>15 DEF volume
    <2>2. Committed(cache) => index' = len + 4 /\ HasRevoke(cache) /\ revokes' = LogRevokes(cache)
      BY <1>3, <1>7, <1>11, <1>15, <2>1
    <2>3. index' >= len + 3
      BY <1>2, <1>3, <1>4, <1>15
    <2>4. Phase'
      BY <1>1, <1>2, <1>15 DEF Phase, Applying, Serving, Building
    <2>5. Knows' /\ Rests' /\ Opened' /\ Marked'
      BY <1>1, <1>2, <1>15, <2>1 DEF Knows, Rests, Opened, Marked, Resting, ReplaySteps, Building, TxnSteps
    <2>6. Logged' /\ Applied'
      BY <1>1, <1>15 DEF Logged, Applied, Applying
    <2>7. Scans'
      <3>1. image_block(Len(targets')) + 1 = len + 3 /\ image_block(Len(targets')) + 2 = len + 4
        BY <1>3, <1>15 DEF len
      <3> QED
        BY <1>1, <1>2, <1>15, <2>2, <2>3, <3>1 DEF Scans
    <2>8. Fresh' /\ pc' \notin Building
      BY <1>1, <1>15 DEF Fresh, Building
    <2>9. NoFault'
      BY <1>1, <1>15, <2>1, JFacts DEF NoFault
    <2> QED
      BY <1>14, <2>4, <2>5, <2>6, <2>7, <2>8, <2>9 DEF RKeeps, RInv, Memory, Sound
  <1>16. CASE /\ Live(d, nextSeq) /\ d.type = "commit" /\ d.count = len /\ index' = 1
              /\ pc' = "replay_image" /\ UNCHANGED <<targets, revokes, volume>>
    <2>1. UNCHANGED <<readOnly, dirtyMarked, nextSeq>> /\ index \in Log /\ d = cache[index]
      BY <1>5, <1>16 DEF volume
    <2>2. Held(media, cache)
      BY <1>10, <1>16, <2>1
    <2>3. LogRevokes(cache) = revokes
      <3>1. ~HasRevoke(cache) => LogRevokes(cache) = {}
        BY DEF LogRevokes
      <3> QED
        BY <1>9, <1>11, <1>16, <2>1, <2>2, <3>1
    <2>4. HomedTo(cache, 1)
      BY DEF HomedTo
    <2>5. Phase'
      BY <1>1, <1>16, <2>2 DEF Phase, Applying, Serving, Building
    <2>6. Knows' /\ Rests' /\ Opened' /\ Marked'
      BY <1>1, <1>2, <1>16, <2>1 DEF Knows, Rests, Opened, Marked, Resting, ReplaySteps, Building, TxnSteps
    <2>7. Logged' /\ Applied' /\ Scans'
      BY <1>1, <1>2, <1>16, <2>3, <2>4 DEF Logged, Applied, Scans, Applying
    <2>8. Fresh' /\ pc' \notin Building
      BY <1>16 DEF Fresh, Building
    <2>9. NoFault'
      BY <1>1, <1>16, <2>1, JFacts DEF NoFault
    <2> QED
      BY <1>14, <2>5, <2>6, <2>7, <2>8, <2>9 DEF RKeeps, RInv, Memory, Sound
  <1> QED
    BY <1>12, <1>13, <1>15, <1>16 DEF ReplayScan, d, len

\* A replay applies the images: each verifies.
LEMMA ReplayImageRec ==
    ASSUME JInv, ReplayImage, Keeps
    PROVE  RKeeps
  <1> DEFINE t == targets[index].target
             v == cache[image_block(index)]
  <1>1. pc = "replay_image" /\ index \in 1..Len(targets) /\ UNCHANGED <<stages, crashes>>
    BY JFacts DEF ReplayImage, Driver
  <1>2. /\ Held(media, cache) /\ LogTargets(cache) = targets /\ LogRevokes(cache) = revokes
        /\ HomedTo(cache, index) /\ Whole(cache) /\ nextSeq = TailSeq(cache) /\ ~dirtyMarked
        /\ Disk(cache) /\ Disk(cache')
    BY <1>1, JFacts
    DEF Phase, Applying, Memory, Applied, Held, Knows, Rests, ReplaySteps, Keeps, TInv
  <1>3. Checks(index, v)
    BY <1>1, <1>2 DEF Whole, Checks
  <1>4. ASSUME Sound, Held(media', cache'), TailSeq(cache') = TailSeq(cache), media' = media,
               LogTargets(cache') = targets, LogRevokes(cache') = revokes, HomedTo(cache', index + 1),
               cache'[SUPER] = cache[SUPER], faults' = faults, index' = index + 1,
               UNCHANGED <<pc, targets, revokes, volume>>
        PROVE  RKeeps
    <2>1. UNCHANGED <<readOnly, dirtyMarked, nextSeq>>
      BY <1>4 DEF volume
    <2>2. Phase'
      BY <1>1, <1>4 DEF Phase, Applying, Serving, Building
    <2>3. Knows' /\ Rests' /\ Opened' /\ Marked'
      BY <1>1, <1>2, <1>4, <2>1 DEF Knows, Rests, Opened, Marked, Resting, ReplaySteps, Building, TxnSteps
    <2>4. Logged' /\ Applied' /\ Scans'
      BY <1>1, <1>4 DEF Logged, Applied, Scans, Applying
    <2>5. Fresh' /\ pc' \notin Building
      BY <1>1, <1>4 DEF Fresh, Building
    <2>6. NoFault'
      BY <1>1, <1>4, <2>1, JFacts DEF NoFault
    <2> QED
      BY <1>4, <2>2, <2>3, <2>4, <2>5, <2>6 DEF RKeeps, RInv, Memory, Sound
  <1>5. CASE /\ Revoked(t) /\ index' = index + 1 /\ NoRequest
             /\ UNCHANGED <<pc, targets, revokes, volume>>
    <2>1. UNCHANGED <<media, cache, faults>>
      BY <1>5 DEF NoRequest, device
    <2>2. HomedTo(cache, index + 1)
      BY <1>1, <1>2, <1>5, HomedFurther DEF Revoked
    <2>3. Sound
      BY <1>1, <2>1, StillSound
    <2> QED
      BY <1>2, <1>4, <1>5, <2>1, <2>2, <2>3
  <1>6. CASE Wrote(t, v)
    <2>1. /\ Sound /\ Held(media', cache') /\ TailSeq(cache') = TailSeq(cache) /\ media' = media
          /\ cache'[SUPER] = cache[SUPER]
          /\ LogTargets(cache') = targets /\ LogRevokes(cache') = LogRevokes(cache)
      BY <1>1, <1>2, <1>6, HomeSound
    <2>2. CASE /\ WriteDone(t, v) /\ index' = index + 1
               /\ UNCHANGED <<pc, targets, revokes, volume>>
      <3>1. cache' = [cache EXCEPT ![LogTargets(cache)[index].target] = cache[image_block(index)]]
            /\ faults' = faults
        BY <1>2, <2>2 DEF WriteDone
      <3>2. HomedTo(cache', index + 1)
        BY <1>1, <1>2, <3>1, HomedFurther
      <3> QED
        BY <1>2, <1>4, <2>1, <2>2, <3>1, <3>2
    <2>3. CASE WriteFailed(pc, t, v) /\ ReplayFails
      BY <2>1, <2>3, ReplayFailsKeeps, FailedCounts, JFacts
    <2>4. CASE NoRequest /\ Revoked(t) /\ index' = index + 1 /\ UNCHANGED <<pc, targets, revokes, volume>>
      BY <1>5, <2>4
    <2> QED
      BY <1>3, <2>2, <2>3, <2>4 DEF ReplayImage
  <1> QED
    BY <1>3, <1>5, <1>6, Requests, JFacts DEF ReplayImage

\* The flush after a replay: what it applied is on the media before the tail passes it.
LEMMA ReplayBarrierRec ==
    ASSUME JInv, ReplayBarrier
    PROVE  RKeeps
  <1>1. pc = "replay_image" /\ index > Len(targets) /\ UNCHANGED <<stages, crashes>> /\ pc \in ReplaySteps
    BY DEF ReplayBarrier, ReplaySteps
  <1>2. CASE ReadOrFlushFailed(pc) /\ ReplayFails
    BY <1>1, <1>2, ReplayReadRec
  <1>3. CASE FlushDone /\ pc' = "replay_tail" /\ UNCHANGED <<txn, volume>>
    <2>1. /\ media' = cache /\ cache' = cache /\ faults' = faults
          /\ UNCHANGED <<targets, revokes, index, state, readOnly, dirtyMarked, nextSeq>>
      BY <1>3 DEF FlushDone, txn, volume
    <2>2. /\ Held(media, cache) /\ LogTargets(cache) = targets /\ LogRevokes(cache) = revokes
          /\ HomedTo(cache, index) /\ index \in Nat /\ Len(targets) \in Nat
      BY <1>1, JFacts DEF Phase, Applying, Memory, Applied, Driver
    <2>3. Homed(cache)
      BY <1>1, <2>2 DEF HomedTo, Homed
    <2>4. Held(media', cache') /\ SameTargets(media', cache')
      BY <2>1, <2>2, FlushedModes DEF SameTargets
    <2>5. Sound
      BY <1>1, <1>3, SettledSound, Requests, JFacts
    <2>6. Phase'
      BY <1>3, <2>4 DEF Phase, Applying, Serving, Building
    <2>7. Knows' /\ Rests' /\ Opened' /\ Marked'
      BY <1>1, <1>3, <2>1, JFacts
      DEF Memory, Knows, Rests, Opened, Marked, Resting, ReplaySteps, Building, TxnSteps
    <2>8. Logged' /\ Applied' /\ Scans'
      BY <1>3, <2>1, <2>2, <2>3 DEF Logged, Applied, Scans, Applying
    <2>9. Fresh' /\ pc' \notin Building
      BY <1>3 DEF Fresh, Building
    <2>10. NoFault'
      BY <1>3, <2>1, JFacts DEF NoFault
    <2> QED
      BY <2>5, <2>6, <2>7, <2>8, <2>9, <2>10 DEF RKeeps, RInv, Memory, Sound
  <1> QED
    BY <1>2, <1>3 DEF ReplayBarrier

\* The tail retires a replayed transaction as it does a committed one.
LEMMA ReplayTailRec ==
    ASSUME JInv, ReplayTail, Keeps
    PROVE  RKeeps
  <1>1. pc = "replay_tail" /\ UNCHANGED <<stages, crashes>> /\ Disk(cache')
        /\ Wrote(J_START, JournalSuper(RetiredTail))
    BY Requests, JFacts DEF ReplayTail, Keeps, TInv
  <1>2. /\ Sound /\ (Steady(media', cache') \/ Held(media', cache'))
        /\ media' = media /\ cache'[SUPER] = cache[SUPER]
        /\ cache' = [cache EXCEPT ![J_START] = JournalSuper(RetiredTail)] =>
                 Retired(media', cache') /\ TailSeq(cache') = RetiredTail
    BY <1>1, TailSound
  <1>3. CASE WriteFailed(pc, J_START, JournalSuper(RetiredTail)) /\ ReplayFails
    BY <1>2, <1>3, ReplayFailsKeeps, FailedCounts, JFacts
  <1>4. CASE /\ WriteDone(J_START, JournalSuper(RetiredTail)) /\ nextSeq' = RetiredTail
             /\ pc' = "idle" /\ EmptyTxn /\ UNCHANGED <<state, readOnly, dirtyMarked>>
    <2>1. Retired(media', cache') /\ nextSeq' = TailSeq(cache') /\ faults' = faults
      BY <1>2, <1>4 DEF WriteDone
    <2>2. NoFault'
      BY <1>2, <1>4, <2>1, JFacts DEF NoFault
    <2>3. ~dirtyMarked'
      BY <1>1, <1>4, JFacts DEF Memory, Rests, ReplaySteps
    <2> QED
      BY <1>2, <1>4, <2>1, <2>2, <2>3, RestKeeps DEF Resting, EmptyTxn, Steady
  <1> QED
    BY <1>3, <1>4 DEF ReplayTail

-----------------------------------------------------------------------------
(* The whole. *)

\* Every step of the driver and of the device.
LEMMA StepRec ==
    ASSUME Handled, JInv, Step
    PROVE  RKeeps
  <1>1. Keeps
    BY JFacts, StepKeeps
  <1>2. CASE Replay
    <2>1. CASE ReplayReadFails
      BY <2>1, ReplayReadRec DEF ReplayReadFails, ReplaySteps
    <2> QED
      BY <1>1, <1>2, <2>1, ReplayDescriptorRec, ReplayScanRec, ReplayImageRec, ReplayBarrierRec,
         ReplayTailRec, RecordErrorRec
      DEF Replay
  <1>3. CASE Commit
    BY <1>1, <1>3, DescriptorRec, RevokeRec, BarrierLogRec, CommitRec, BarrierCommitRec,
       CheckpointRec, CheckpointDoneRec, BarrierDataRec, WriteTailRec
    DEF Commit
  <1>4. CASE \E t \in Targets : Stage(t) \/ TxnRevoke(t)
    BY <1>4, StageRec, QuietRec
  <1>5. CASE \E b \in Blocks : Writeback(b)
    BY <1>1, <1>5, WritebackRec
  <1> QED
    BY <1>1, <1>2, <1>3, <1>4, <1>5, MountRec, TxnOpenRec, QuietRec, SyncRec, DownRec
    DEF Step

\* The inductive step.
LEMMA JNext ==
    ASSUME Handled, JInv, [Next]_vars
    PROVE  JInv'
  <1>1. CASE Next
    <2>1. RKeeps /\ freed' = FreedBy(media') /\ IInv'
      BY <1>1, StepRec, NextInv, JFacts DEF Next
    <2>2. FreesOnce'
      <3> SUFFICES ASSUME pc' \in Building PROVE revokes' \cap freed' = {}
        BY DEF FreesOnce, Building
      <3>1. freed' = freed
        BY <2>1 DEF RKeeps, FreedBy, JInv
      <3> QED
        BY <2>1, <3>1 DEF RKeeps
    <2>3. (freed = FreedBy(media))'
      BY <2>1 DEF FreedBy
    <2> QED
      BY <2>1, <2>2, <2>3 DEF JInv, RKeeps
  <1>2. CASE UNCHANGED vars
    <2>1. UNCHANGED <<media, cache, freed, pc, state, readOnly, dirtyMarked, nextSeq, targets,
                      revokes, index, outcome, stages, crashes, faults>>
      BY <1>2 DEF vars, volume, txn
    <2>2. IInv'
      BY NextInv, JFacts
    <2>3. Phase' /\ Memory'
      BY <2>1, JFacts
      DEF Phase, Memory, Serving, Knows, Rests, Opened, Marked, Logged, Applied, Scans, revoke_block
    <2>4. Fresh' /\ NoFault' /\ FreesOnce' /\ (freed = FreedBy(media))'
      BY <2>1, JFacts DEF Fresh, NoFault, FreesOnce, FreedBy, JInv
    <2> QED
      BY <2>1, <2>2, <2>3, <2>4, JFacts DEF JInv, RInv
  <1> QED
    BY <1>1, <1>2

\* The inductive invariant holds of every behaviour whose faults the driver handles.
LEMMA JInvariance == Handled => (Spec => []JInv)
  <1> SUFFICES ASSUME Handled PROVE Spec => []JInv
    OBVIOUS
  <1>1. Init => JInv
    BY InitJInv
  <1>2. JInv /\ [Next]_vars => JInv'
    BY JNext
  <1> QED
    BY <1>1, <1>2, PTL DEF Spec

\* What a served volume is.
LEMMA SteadyRecovers ==
    ASSUME JInv, Steady(media, cache), NEW t \in Targets
    PROVE  Recovered(media, t) = cache[t].content /\ media[t] = cache[t]
  <1>1. ~Committed(media) \/ (Whole(media) /\ Homed(media))
    BY QuietLog DEF Steady, Retired, Empty
  <1>2. media[t] = cache[t]
    BY DEF Steady, Retired, Empty, SameTargets
  <1> QED
    BY <1>1, <1>2, Recovers, JFacts

\* A mount that hands the volume out for writing serves exactly what the disk had
\* committed, and so does the driver between two transactions (wfs_mount_task,
\* wfs_recover_task, wfs_txn_commit_task), for every size of volume and transaction.
THEOREM ServedStable == Handled => (Spec => []ServedIsStable)
  <1>1. JInv => ServedIsStable
    BY SteadyRecovers, JFacts DEF ServedIsStable, Phase, Serving
  <1> QED
    BY <1>1, JInvariance, PTL

\* No crash before the COMMIT block is written leaves a transaction that a mount
\* would replay: the tail, the descriptor's sequence and the stale COMMIT behind it
\* cannot agree (wfs_txn_commit_task, steps 1 to 3).
THEOREM EarlyCrashes == Handled => (Spec => []EarlyCrashDiscards)
  <1>1. JInv => EarlyCrashDiscards
    <2> SUFFICES ASSUME JInv, pc = "barrier_log", Durable PROVE FALSE
      BY DEF EarlyCrashDiscards
    <2>1. Committed(media) /\ LogTargets(media) = targets /\ LogRevokes(media) = revokes
      BY DEF Durable
    <2>2. Retired(media, cache) /\ ~SameTail(media, cache)
      <3>1. ~Quiet(media) /\ Steady(media, cache)
        BY <2>1, QuietLog, JFacts DEF Phase, Serving, Building
      <3>2. Retired(media, cache) /\ TailSeq(media) \in Nat
        BY <3>1, TailIsNat, JFacts DEF Steady, Empty
      <3> QED
        BY <3>2 DEF Retired, SameTail, TailSeq
    <2>3. revokes \subseteq freed
      BY <2>1 DEF JInv, FreedBy
    <2>4. revokes = {} /\ targets # << >>
      BY <2>3, JFacts DEF JInv, FreesOnce, Fresh, Building
    <2>5. 1 \in 1..Len(targets)
      BY <2>4, JFacts DEF Driver
    <2> QED
      BY <2>1, <2>2, <2>5, JFacts DEF Fresh, Building
  <1> QED
    BY <1>1, JInvariance, PTL

\* Power cuts and deaths of the driver alone never cost the volume its writability:
\* every log that a replay meets parses and every image verifies (wfs_recover_task).
THEOREM CrashesKeepWritable == Handled => (Spec => []CrashKeepsWritable)
  <1>1. JInv => CrashKeepsWritable
    BY JFacts DEF CrashKeepsWritable, NoFault
  <1> QED
    BY <1>1, JInvariance, PTL

\* A replay never writes a block that the committed bitmaps hold free: the revoke
\* record of the transaction that freed it is in the log it replays (wfs_txn_revoke,
\* wfs_recover_task).
THEOREM ReplaysSpareFreed == Handled => (Spec => ReplaySparesFreed)
  <1>1. JInv /\ [Next]_vars =>
           [pc = "replay_image" => \A t \in freed : cache'[t] = cache[t] \/ pc' = "down"]_vars
    <2> SUFFICES ASSUME JInv, Next, pc = "replay_image", NEW t \in freed, pc' # "down"
                 PROVE  cache'[t] = cache[t]
      OBVIOUS
    <2>1. /\ Held(media, cache) /\ LogTargets(cache) = targets /\ LogRevokes(cache) = revokes
          /\ Disk(media) /\ Disk(cache) /\ targets \in Seq(TargetList) /\ index \in Nat \ {0}
      BY JFacts DEF Phase, Applying, Memory, Applied, Driver
    <2>2. Committed(media) /\ LogTargets(media) = targets /\ LogRevokes(media) = revokes
      BY <2>1, SameLogSame DEF Held, Whole
    <2>3. \A i \in DOMAIN targets : targets[i].target = t => t \in revokes
      BY <2>2 DEF JInv, FreedBy
    <2>4. CASE ReplayImage
      <3>1. index \in DOMAIN targets
        BY <2>1, <2>4 DEF ReplayImage
      <3>2. Revoked(targets[index].target) \/ t # targets[index].target
        BY <2>3, <3>1 DEF Revoked
      <3>3. \/ cache' = cache
            \/ /\ t # targets[index].target
               /\ cache' = [cache EXCEPT ![targets[index].target] = cache[image_block(index)]]
        BY <2>4, <3>2 DEF ReplayImage, NoRequest, WriteDone, WriteFailed, device
      <3>4. t \in Blocks
        BY Layout DEF JInv, IInv
      <3> QED
        BY <2>1, <3>3, <3>4 DEF Disk
    <2>5. CASE ~ReplayImage
      <3>1. ReplayBarrier \/ Crash \/ \E b \in Blocks : Writeback(b)
        BY <2>5
        DEF Next, Step, Replay, Commit, Mount, TxnOpen, OperationFails, TxnClose, Stage, TxnRevoke,
            SyncClean, BarrierSync, Exit, ReplayReadFails, ReplayDescriptor, ReplayScan, ReplayTail,
            RecordError, WriteDescriptor, WriteRevoke, BarrierLog, WriteCommit, BarrierCommit,
            LogWrite, LogFlush, Checkpoint, CheckpointDone, BarrierData, WriteTail
      <3> QED
        BY <3>1 DEF ReplayBarrier, FlushDone, ReadOrFlushFailed, device, Crash, Restart, Writeback
    <2> QED
      BY <2>4, <2>5
  <1> QED
    BY <1>1, JInvariance, PTL DEF Spec, ReplaySparesFreed

-----------------------------------------------------------------------------
(* The journal implements AtomicVolume. *)

\* What a mount would serve, of a log with a transaction: the images of the blocks
\* that it does not revoke, and the others as they are.
LEMMA WholeRecovers ==
    ASSUME NEW m, Disk(m), Whole(m), m[SUPER].state = "DIRTY", NEW t \in Targets,
           t \notin LogRevokes(m)
    PROVE  /\ \A i \in 1..Len(LogTargets(m)) :
                 LogTargets(m)[i].target = t => Recovered(m, t) = LogTargets(m)[i].checksum
           /\ t \notin LogNames(m) => Recovered(m, t) = m[t].content
  <1> DEFINE ts == LogTargets(m)
             Of == {i \in Replayed(m) : ts[i].target = t}
  <1>1. Committed(m) /\ m[SUPER].state = "DIRTY" /\ DOMAIN ts = 1..Len(ts) /\ Distinct(ts)
    BY LogOf, CommittedIs DEF Whole
  <1>2. Replayed(m) = {i \in DOMAIN ts : ts[i].target \notin LogRevokes(m)}
    BY <1>1 DEF Whole, Replayed
  <1>3. Of = {i \in 1..Len(ts) : ts[i].target = t}
    BY <1>1, <1>2
  <1>4. Recovered(m, t) = IF Of # {} THEN m[image_block(CHOOSE i \in Of : TRUE)].content
                          ELSE m[t].content
    BY <1>1 DEF Recovered
  <1>5. ASSUME NEW k \in 1..Len(ts), ts[k].target = t
        PROVE  Recovered(m, t) = ts[k].checksum
    <2>1. k \in Of /\ \A i \in Of : i = k
      BY <1>1, <1>3, <1>5 DEF Distinct
    <2> HIDE DEF Of
    <2>2. Of # {} /\ (CHOOSE i \in Of : TRUE) = k
      BY <2>1
    <2>3. m[image_block(k)] = Image(ts[k].checksum)
      BY DEF Whole
    <2>4. Recovered(m, t) = m[image_block(k)].content
      BY <1>4, <2>2
    <2> QED
      BY <2>3, <2>4 DEF Image
  <1>6. ASSUME t \notin LogNames(m)
        PROVE  Recovered(m, t) = m[t].content
    BY <1>3, <1>4, <1>6 DEF LogNames
  <1> QED
    BY <1>5, <1>6

\* A log with a transaction is that of a volume in use, or of one that says ERROR.
LEMMA WholeIsDirty ==
    ASSUME NEW m, Disk(m), Whole(m), m[SUPER].state # "ERROR"
    PROVE  m[SUPER].state = "DIRTY"
  <1>1. m[SUPER].state \in {"CLEAN", "DIRTY", "ERROR"}
    BY Layout, ContentByType DEF Disk
  <1> QED
    BY <1>1 DEF Whole

\* The four relations exclude each other as far as the transaction is durable.
LEMMA NotHeld ==
    ASSUME NEW m, NEW c, Disk(m), Steady(m, c) \/ Committing(m, c)
    PROVE  ~Held(m, c)
  <1>1. TailSeq(m) \in Nat
    BY TailIsNat
  <1>2. Retired(m, c) => ~SameTail(m, c)
    BY <1>1 DEF Retired, SameTail, TailSeq
  <1>3. Quiet(m) => ~Whole(m)
    BY QuietLog DEF Whole
  <1> QED
    BY <1>2, <1>3 DEF Held, Steady, Empty, Committing

\* Two disks with nothing to replay and the same metadata blocks recover alike.
LEMMA RecoverAlike ==
    ASSUME NEW m, NEW n, Disk(m), Disk(n), ~Committed(m) \/ (Whole(m) /\ Homed(m)), ~Committed(n),
           NEW t \in Targets, m[t] = n[t]
    PROVE  Recovered(n, t) = Recovered(m, t)
  BY Recovers

\* The media changes with a flush or with a block that the device writes back; then
\* the relation of media and cache stays, or the COMMIT record becomes stable.
LEMMA MediaStep ==
    ASSUME Handled, JInv, Step, Disk(media')
    PROVE  \/ media' = media
           \/ /\ cache' = cache
              /\ media'[SUPER] \in {media[SUPER], cache[SUPER]}
              /\ \/ Steady(media, cache) /\ Empty(media', cache)
                 \/ Committing(media, cache) /\ Committing(media', cache)
                 \/ Held(media, cache) /\ Held(media', cache)
                 \/ /\ Committing(media, cache) /\ Held(media', cache) /\ pc = "barrier_commit"
                    /\ pc' \in {"barrier_commit", "checkpoint"}
                    /\ UNCHANGED <<targets, revokes, outcome>>
  <1>1. /\ Disk(media) /\ Disk(cache) /\ Ordered(media) /\ Ordered(cache)
        /\ Steady(media, cache) \/ Held(media, cache)
              \/ (Committing(media, cache) /\ pc = "barrier_commit")
    BY JFacts DEF Phase
  <1>2. ASSUME NEW b \in Blocks, Writeback(b)
        PROVE  /\ cache' = cache
               /\ media'[SUPER] \in {media[SUPER], cache[SUPER]}
               /\ \/ Steady(media, cache) /\ Empty(media', cache)
                  \/ Committing(media, cache) /\ Committing(media', cache)
                  \/ Held(media, cache) /\ Held(media', cache)
                  \/ /\ Committing(media, cache) /\ Held(media', cache) /\ pc = "barrier_commit"
                     /\ pc' \in {"barrier_commit", "checkpoint"}
                     /\ UNCHANGED <<targets, revokes, outcome>>
    <2>1. /\ media[b] # cache[b] /\ (b = J_START \/ SameTail(media, cache))
          /\ media' = [media EXCEPT ![b] = cache[b]]
          /\ UNCHANGED <<cache, pc, targets, revokes, outcome>>
      BY <1>2 DEF Writeback, volume, txn, Handled, SameTail
    <2>2. /\ Retired(media, cache) => Empty(media', cache)
          /\ Empty(media, cache) => Empty(media', cache)
          /\ Committing(media, cache) => Committing(media', cache) \/ Held(media', cache)
          /\ Held(media, cache) => Held(media', cache)
      BY <1>1, <2>1, WritebackModes
    <2>3. media'[SUPER] \in {media[SUPER], cache[SUPER]}
      BY <1>1, <2>1, Layout DEF Disk
    <2> QED
      BY <1>1, <2>1, <2>2, <2>3 DEF Steady
  <1>3. ASSUME media' = cache, cache' = cache,
               pc = "barrier_commit" => pc' = "checkpoint" /\ UNCHANGED <<targets, revokes, outcome>>
        PROVE  \/ Steady(media, cache) /\ Empty(media', cache)
               \/ Held(media, cache) /\ Held(media', cache)
               \/ /\ Committing(media, cache) /\ Held(media', cache) /\ pc = "barrier_commit"
                  /\ pc' \in {"barrier_commit", "checkpoint"}
                  /\ UNCHANGED <<targets, revokes, outcome>>
    BY <1>1, <1>3, FlushedModes
  <1>4. \/ media' = media
        \/ \E b \in Blocks : Writeback(b)
        \/ /\ media' = cache /\ cache' = cache
           /\ pc = "barrier_commit" => pc' = "checkpoint" /\ UNCHANGED <<targets, revokes, outcome>>
    <2>1. CASE Commit
      <3>1. CASE BarrierCommit
        BY <3>1, FailedCounts, JFacts DEF BarrierCommit, LogFlush, Handled, FlushDone, txn
      <3>2. CASE BarrierLog \/ BarrierData
        BY <3>2 DEF BarrierLog, LogFlush, BarrierData, FlushDone, ReadOrFlushFailed, device
      <3> QED
        BY <2>1, <3>1, <3>2
        DEF Commit, WriteDescriptor, WriteRevoke, WriteCommit, LogWrite, Checkpoint, CheckpointDone,
            WriteTail, WriteDone, WriteFailed, NoRequest, device
    <2>2. CASE Replay
      BY <2>2
      DEF Replay, ReplayReadFails, ReplayDescriptor, ReplayScan, ReplayImage, ReplayBarrier,
          ReplayTail, RecordError, WriteDone, WriteFailed, FlushDone, ReadOrFlushFailed, NoRequest,
          device
    <2>3. CASE \E t \in Targets : Stage(t) \/ TxnRevoke(t)
      BY <2>3 DEF Stage, TxnRevoke, WriteDone, WriteFailed, NoRequest, device
    <2>4. CASE Mount \/ TxnOpen \/ OperationFails \/ TxnClose
      BY <2>4
      DEF Mount, TxnOpen, OperationFails, TxnClose, WriteDone, WriteFailed, ReadOrFlushFailed,
          NoRequest, device
    <2>5. CASE SyncClean \/ BarrierSync \/ Exit \/ Crash
      BY <2>5
      DEF SyncClean, BarrierSync, Exit, Crash, WriteDone, WriteFailed, FlushDone,
          ReadOrFlushFailed, device
    <2> QED
      BY <2>1, <2>2, <2>3, <2>4, <2>5 DEF Step
  <1> QED
    BY <1>2, <1>3, <1>4

\* What a mount would serve stays, but for the step that makes the COMMIT record
\* stable.
LEMMA StableStays ==
    ASSUME JInv, Disk(media'), freed' = FreedBy(media'), Lost' = Lost,
           \/ media' = media
           \/ /\ cache' = cache
              /\ \/ Steady(media, cache) /\ Empty(media', cache)
                 \/ Committing(media, cache) /\ Committing(media', cache)
                 \/ Held(media, cache) /\ Held(media', cache)
    PROVE  StableContent' = StableContent
  <1>1. CASE Lost
    <2>1. Lost'
      BY <1>1
    <2>2. StableContent = [t \in Targets |-> FREE]
      BY <1>1 DEF StableContent
    <2>3. StableContent' = [t \in Targets |-> FREE]
      BY <2>1 DEF StableContent
    <2> QED
      BY <2>2, <2>3
  <1> SUFFICES ASSUME ~Lost
               PROVE  freed' = freed /\ \A t \in Targets \ freed : Recovered(media', t) = Recovered(media, t)
    BY <1>1 DEF StableContent
  <1>2. Disk(media) /\ Disk(cache) /\ freed = FreedBy(media)
    BY JFacts DEF JInv
  <1>3. CASE media' = media
    BY <1>2, <1>3
  <1>4. CASE Steady(media, cache) /\ Empty(media', cache)
    <2>1. ~Committed(media') /\ freed' = freed
      BY <1>4, QuietLog DEF Empty, FreedBy
    <2>2. ~Committed(media) \/ (Whole(media) /\ Homed(media))
      BY <1>4, QuietLog DEF Steady, Retired, Empty
    <2>3. \A t \in Targets : media[t] = media'[t]
      BY <1>4 DEF Steady, Retired, Empty, SameTargets
    <2> QED
      BY <1>2, <2>1, <2>2, <2>3, RecoverAlike
  <1>5. CASE Committing(media, cache) /\ Committing(media', cache)
    <2>1. ~Committed(media') /\ ~Committed(media) /\ freed' = freed
      BY <1>5, QuietLog DEF Committing, FreedBy
    <2>2. \A t \in Targets : media[t] = media'[t]
      BY <1>5 DEF Committing, SameTargets
    <2> QED
      BY <1>2, <2>1, <2>2, RecoverAlike
  <1>6. CASE Held(media, cache) /\ Held(media', cache)
    <2>1. /\ Whole(media) /\ Whole(media') /\ Committed(media) /\ Committed(media')
          /\ SameTail(media, media') /\ SameLog(media, media')
      BY <1>6 DEF Held, Whole, SameTail, SameLog
    <2>2. media[SUPER].state = "DIRTY" /\ media'[SUPER].state = "DIRTY"
      BY <1>2, <2>1, WholeIsDirty DEF Lost
    <2>3. /\ LogTargets(media') = LogTargets(media) /\ LogRevokes(media') = LogRevokes(media)
          /\ LogNames(media') = LogNames(media)
      BY <1>2, <2>1, SameLogSame
    <2>4. LogNames(media) = {LogTargets(media)[i].target : i \in DOMAIN LogTargets(media)}
      BY <1>2, <2>1, LogOf, CommittedIs DEF LogNames
    <2>5. freed = (freed \ LogNames(media)) \cup LogRevokes(media) /\ LogRevokes(media) \subseteq freed
      BY <1>2, <2>1, <2>4 DEF FreedBy
    <2>6. freed' = freed
      BY <2>1, <2>3, <2>4, <2>5 DEF FreedBy
    <2>7. ASSUME NEW t \in Targets, t \notin freed
          PROVE  Recovered(media', t) = Recovered(media, t)
      <3>1. t \notin LogRevokes(media) /\ t \notin LogRevokes(media')
        BY <2>3, <2>5, <2>7
      <3>2. CASE t \in LogNames(media)
        <4>1. PICK i \in 1..Len(LogTargets(media)) : LogTargets(media)[i].target = t
          BY <3>2 DEF LogNames
        <4>2. Recovered(media, t) = LogTargets(media)[i].checksum
          BY <1>2, <2>1, <2>2, <3>1, <4>1, WholeRecovers
        <4>3. Recovered(media', t) = LogTargets(media')[i].checksum
          BY <2>1, <2>2, <2>3, <3>1, <4>1, WholeRecovers
        <4> QED
          BY <2>3, <4>2, <4>3
      <3>3. CASE t \notin LogNames(media)
        <4>1. Recovered(media, t) = media[t].content /\ Recovered(media', t) = media'[t].content
          BY <1>2, <2>1, <2>2, <2>3, <3>1, <3>3, WholeRecovers
        <4>2. LogNames(cache) = LogNames(media)
          BY <1>2, <1>6, SameLogSame DEF Held
        <4>3. media[t] = cache[t] /\ media'[t] = cache[t]
          BY <1>6, <3>3, <4>2 DEF Held
        <4> QED
          BY <4>1, <4>3
      <3> QED
        BY <3>2, <3>3
    <2> QED
      BY <2>6, <2>7
  <1> QED
    BY <1>3, <1>4, <1>5, <1>6

\* The names of an open transaction's blocks and what it makes of them.
Names(ts) == {ts[i].target : i \in 1..Len(ts)}

PendingAs == /\ PendingContent = [t \in Names(targets) |-> PendingContent[t]]
             /\ \A i \in 1..Len(targets) : PendingContent[targets[i].target] = targets[i].checksum

\* An open transaction holds for each block the content that its checksum was taken of.
LEMMA PendingIs ==
    ASSUME JInv, pc \in TxnSteps
    PROVE  PendingAs
  <1>1. DOMAIN targets = 1..Len(targets) /\ Distinct(targets)
        /\ \A i \in 1..Len(targets) : cache[image_block(i)] = Image(targets[i].checksum)
    BY JFacts DEF Driver, Memory, Opened
  <1>2. PendingContent = [t \in Names(targets) |-> cache[journal_redirect(t)].content]
    BY <1>1 DEF PendingContent, Names
  <1>3. \A t \in Names(targets) : PendingContent[t] = cache[journal_redirect(t)].content
    BY <1>2
  <1>4. ASSUME NEW k \in 1..Len(targets)
        PROVE  PendingContent[targets[k].target] = targets[k].checksum
    <2> DEFINE t == targets[k].target
    <2>1. k \in StagedAs(t) /\ \A i \in StagedAs(t) : i = k
      BY <1>1 DEF StagedAs, Distinct
    <2>2. StagedAs(t) # {} /\ (CHOOSE i \in StagedAs(t) : TRUE) = k
      BY <2>1
    <2>3. journal_redirect(t) = image_block(k)
      BY <2>2 DEF journal_redirect
    <2>4. t \in Names(targets)
      BY DEF Names
    <2> HIDE DEF t
    <2>5. PendingContent[t] = cache[image_block(k)].content
      BY <1>3, <2>3, <2>4
    <2>6. Image(targets[k].checksum).content = targets[k].checksum
      BY DEF Image
    <2>7. PendingContent[t] = targets[k].checksum
      BY <1>1, <2>5, <2>6
    <2> QED
      BY <2>7 DEF t
  <1> QED
    BY <1>2, <1>4 DEF PendingAs

\* A transaction is committed exactly when both disks hold it.
LEMMA DurableIs ==
    ASSUME JInv, pc \in TxnSteps
    PROVE  Durable <=> Held(media, cache)
  <1>1. Disk(media) /\ Disk(cache)
    BY JFacts
  <1>2. ASSUME Held(media, cache)
        PROVE  Durable
    <2>1. pc \notin Building \cup {"commit"}
      BY <1>1, <1>2, NotHeld, JFacts DEF Phase, Serving
    <2>2. LogTargets(cache) = targets /\ LogRevokes(cache) = revokes /\ cache[SUPER].state = "DIRTY"
      BY <2>1, JFacts DEF Memory, Applied, Marked, TxnSteps, Building, Applying
    <2>3. LogTargets(media) = targets /\ LogRevokes(media) = revokes /\ Committed(media)
      BY <1>1, <1>2, <2>2, SameLogSame DEF Held, Whole
    <2>4. media[SUPER].state \in {"CLEAN", "DIRTY", "ERROR"}
      BY <1>1, Layout, ContentByType DEF Disk
    <2>5. media[SUPER].state # "CLEAN" /\ media[SUPER].state # "ERROR"
      BY <1>2, <2>2, JFacts DEF Held, Whole, IInv, ErrorKnown
    <2> QED
      BY <2>3, <2>4, <2>5 DEF Durable
  <1>3. ASSUME Durable, ~Held(media, cache)
        PROVE  FALSE
    <2>1. Committed(media) /\ LogTargets(media) = targets /\ LogRevokes(media) = revokes /\ ~Quiet(media)
      BY <1>3, QuietLog DEF Durable
    <2>2. pc \in Building /\ Retired(media, cache)
      BY <1>3, <2>1, JFacts
      DEF Phase, Serving, Building, Applying, TxnSteps, Steady, Empty, Committing
    <2>3. ~SameTail(media, cache)
      BY <1>1, <2>2, TailIsNat DEF Retired, SameTail, TailSeq
    <2>4. revokes \subseteq freed
      BY <2>1 DEF JInv, FreedBy
    <2>5. revokes = {} /\ targets # << >>
      BY <2>1, <2>2, <2>4 DEF JInv, FreesOnce, Retired, Whole
    <2>6. 1 \in 1..Len(targets)
      BY <2>5, JFacts DEF Driver
    <2> QED
      BY <2>1, <2>2, <2>3, <2>6, JFacts DEF Fresh
  <1> QED
    BY <1>2, <1>3

\* What the refinement mapping makes of an open transaction.
Mapped == pc \in TxnSteps => /\ ~Lost
                             /\ PendingAs
                             /\ Durable <=> Held(media, cache)
                             /\ pc \in Building => ~Durable

\* It is as the inductive invariant says, now
LEMMA MappedNow == JInv => Mapped
  <1> SUFFICES ASSUME JInv, pc \in TxnSteps
               PROVE  /\ ~Lost /\ PendingAs
                      /\ Durable <=> Held(media, cache)
                      /\ pc \in Building => ~Durable
    BY DEF Mapped
  <1>1. pc \in Building => ~Held(media, cache)
    BY NotHeld, JFacts DEF Phase, Serving
  <1>2. ~Lost
    BY JFacts DEF Memory, Marked, IInv, ErrorKnown, Lost
  <1> QED
    BY <1>1, <1>2, PendingIs, DurableIs

\* and a step later.
LEMMA MappedNext ==
    ASSUME JInv'
    PROVE  Mapped'
  <1>1. (JInv => Mapped)'
    BY MappedNow, PTL
  <1> QED
    BY <1>1

\* A transaction that stages nothing new prepares nothing new.
LEMMA PendingStays ==
    ASSUME JInv, JInv', pc \in TxnSteps, pc' \in TxnSteps, targets' = targets
    PROVE  PendingContent' = PendingContent
  <1>1. PendingAs /\ PendingAs'
    BY MappedNow, MappedNext DEF Mapped
  <1>2. \A t \in Names(targets) : PendingContent'[t] = PendingContent[t]
    BY <1>1 DEF PendingAs, Names
  <1> DEFINE P == PendingContent
             Q == PendingContent'
  <1>3. /\ P = [t \in Names(targets) |-> P[t]] /\ Q = [t \in Names(targets) |-> Q[t]]
    BY <1>1 DEF PendingAs
  <1> HIDE DEF P, Q
  <1>4. [t \in Names(targets) |-> P[t]] = [t \in Names(targets) |-> Q[t]]
    BY <1>2 DEF P, Q
  <1>5. P = Q
    BY <1>3, <1>4
  <1> QED
    BY <1>5 DEF P, Q

\* The COMMIT record becomes stable, and with it the whole transaction.
LEMMA CommitRefines ==
    ASSUME JInv, JInv', Disk(media'), freed' = FreedBy(media'), cache' = cache,
           Committing(media, cache), Held(media', cache), pc = "barrier_commit",
           pc' \in {"barrier_commit", "checkpoint"}, UNCHANGED <<targets, revokes, outcome>>
    PROVE  Volume!Commit
  <1>1. Disk(media) /\ Disk(cache) /\ pc \in TxnSteps /\ pc' \in TxnSteps
        /\ LogTargets(cache) = targets /\ LogRevokes(cache) = revokes
        /\ targets \in Seq(TargetList) /\ DOMAIN targets = 1..Len(targets)
    BY JFacts DEF TxnSteps, Memory, Applied, Driver
  <1>2. ~Durable /\ Durable' /\ PendingAs /\ ~Lost /\ ~Lost'
    BY <1>1, NotHeld, MappedNow, MappedNext DEF Mapped
  <1>3. TxnStatus = "open" /\ TxnStatus' = "committed" /\ Dropped = revokes /\ Dropped' = revokes
    BY <1>1, <1>2 DEF TxnStatus, Dropped
  <1>4. PendingContent' = PendingContent
    BY <1>1, PendingStays
  <1>5. /\ Whole(media') /\ Committed(media') /\ ~Committed(media) /\ LogTargets(media') = targets
        /\ LogRevokes(media') = revokes /\ LogNames(cache) = Names(targets)
        /\ LogNames(media') = Names(targets)
    BY <1>1, SameLogSame, QuietLog DEF Held, Whole, Committing, LogNames, Names
  <1>6. media'[SUPER].state = "DIRTY"
    BY <1>2, <1>5, WholeIsDirty DEF Lost
  <1>7. freed' = (freed \ Names(targets)) \cup revokes
    BY <1>1, <1>5 DEF FreedBy, Names
  <1>8. DOMAIN PendingContent = Names(targets)
    BY <1>2 DEF PendingAs
  <1>9. ASSUME NEW t \in Targets
        PROVE  (IF t \in freed' THEN FREE ELSE Recovered(media', t))
                  = IF t \in revokes THEN FREE
                    ELSE IF t \in Names(targets) THEN PendingContent[t] ELSE StableContent[t]
    <2>1. CASE t \in revokes
      BY <1>7, <2>1
    <2>2. CASE t \notin revokes /\ t \in Names(targets)
      <3>1. PICK i \in 1..Len(targets) : targets[i].target = t
        BY <2>2 DEF Names
      <3>2. Recovered(media', t) = targets[i].checksum
        BY <1>5, <1>6, <2>2, <3>1, WholeRecovers
      <3>3. PendingContent[t] = targets[i].checksum
        BY <1>2, <3>1 DEF PendingAs
      <3> QED
        BY <1>7, <2>2, <3>2, <3>3
    <2>3. CASE t \notin revokes /\ t \notin Names(targets)
      <3>1. Recovered(media', t) = media'[t].content
        BY <1>5, <1>6, <2>3, WholeRecovers
      <3>2. Recovered(media, t) = media[t].content
        BY <1>1, <1>5, Recovers
      <3>3. media'[t] = cache[t] /\ media[t] = cache[t]
        BY <1>5, <2>3 DEF Held, Committing, SameTargets
      <3>4. StableContent[t] = IF t \in freed THEN FREE ELSE Recovered(media, t)
        BY <1>2 DEF StableContent
      <3> QED
        BY <1>7, <2>3, <3>1, <3>2, <3>3, <3>4
    <2> QED
      BY <2>1, <2>2, <2>3
  <1>10. StableContent' = [t \in Targets |-> IF t \in revokes THEN FREE
                                            ELSE IF t \in Names(targets) THEN PendingContent[t]
                                            ELSE StableContent[t]]
    BY <1>2, <1>9 DEF StableContent
  <1>11. StableContent' = [t \in Targets |-> IF t \in Dropped THEN FREE
                                             ELSE IF t \in DOMAIN PendingContent THEN PendingContent[t]
                                             ELSE StableContent[t]]
    BY <1>3, <1>8, <1>10
  <1>12. Lost' = Lost
    BY <1>2 DEF Lost
  <1> QED
    BY <1>3, <1>4, <1>11, <1>12 DEF Volume!Commit

\* An update that succeeds.
StageDone(t) ==
    /\ pc = "open" /\ pc' = pc /\ outcome' = outcome /\ revokes' = revokes
    /\ stages < MaxStages /\ SlotOf(t) <= MAX_TARGETS
    /\ targets' = [i \in 1..(IF SlotOf(t) > Len(targets) THEN SlotOf(t) ELSE Len(targets)) |->
                     IF i = SlotOf(t) THEN [target |-> t, checksum |-> Updated(t)] ELSE targets[i]]

\* A block that is freed.
RevokeDone(t) == /\ pc = "open" /\ pc' = pc /\ outcome' = outcome /\ targets' = targets
                 /\ revokes' = revokes \cup {t}

\* An update starts from what the transaction has made of the block, or from what a
\* mount would serve of it, or afresh if the block was free.
LEMMA UpdatedIs ==
    ASSUME JInv, pc = "open", NEW t \in Targets, stages < MaxStages, SlotOf(t) <= MAX_TARGETS
    PROVE  Updated(t) = Volume!Base(t) \cup {stages + 1}
  <1>1. PendingAs /\ DOMAIN PendingContent = Names(targets) /\ pc \in TxnSteps /\ ~Lost
    BY MappedNow DEF Mapped, TxnSteps, PendingAs
  <1>2. DOMAIN targets = 1..Len(targets)
    BY JFacts DEF Driver
  <1>3. CASE StagedAs(t) # {}
    <2>1. /\ SlotOf(t) \in 1..Len(targets) /\ journal_redirect(t) = image_block(SlotOf(t))
          /\ targets[SlotOf(t)].target = t
      BY <1>3, SlotIs
    <2>2. cache[image_block(SlotOf(t))] = Image(targets[SlotOf(t)].checksum)
      BY <1>1, <2>1, JFacts DEF Memory, Opened
    <2>3. cache[journal_redirect(t)].content = targets[SlotOf(t)].checksum
      BY <2>1, <2>2 DEF Image
    <2>4. PendingContent[t] = targets[SlotOf(t)].checksum /\ t \in Names(targets)
      BY <1>1, <2>1 DEF PendingAs, Names
    <2>5. Volume!Base(t) = PendingContent[t]
      BY <1>1, <2>4 DEF Volume!Base
    <2> QED
      BY <1>3, <2>3, <2>4, <2>5 DEF Updated
  <1>4. CASE StagedAs(t) = {}
    <2>1. journal_redirect(t) = t /\ t \notin Names(targets)
      BY <1>2, <1>4 DEF journal_redirect, StagedAs, Names
    <2>2. Volume!Base(t) = IF StableContent[t] = FREE THEN {} ELSE StableContent[t]
      BY <1>1, <2>1 DEF Volume!Base
    <2>3. StableContent[t] = IF t \in freed THEN FREE ELSE Recovered(media, t)
      BY <1>1 DEF StableContent
    <2>4. Recovered(media, t) = cache[t].content
      BY SteadyRecovers, JFacts DEF Phase, Serving, Building
    <2>5. cache[t].content \in SUBSET (1..MaxStages)
      BY JFacts, Layout, ContentByType DEF Disk, Stamps
    <2>6. cache[t].content # FREE
      BY <2>5, FreeAssumption
    <2> QED
      BY <1>4, <2>1, <2>2, <2>3, <2>4, <2>6 DEF Updated
  <1> QED
    BY <1>3, <1>4

\* wfs_txn_stage_take updates one block of the open transaction.
LEMMA StageRefines ==
    ASSUME JInv, JInv', NEW t \in Targets, StageDone(t), StableContent' = StableContent, Lost' = Lost
    PROVE  Volume!Update(t)
  <1> DEFINE slot == SlotOf(t)
             len == IF slot > Len(targets) THEN slot ELSE Len(targets)
             P == PendingContent
             Q == PendingContent'
             ts == targets'
  <1>1. /\ pc = "open" /\ pc' = "open" /\ outcome' = outcome /\ revokes' = revokes
        /\ stages < MaxStages /\ slot <= MAX_TARGETS /\ pc \in TxnSteps /\ pc' \in TxnSteps
    BY DEF StageDone, TxnSteps
  <1>2. /\ slot \in 1..(Len(targets) + 1) /\ Len(targets) \in Nat
        /\ \A i \in 1..Len(targets) : targets[i].target = t <=> i = slot
        /\ stages \in Nat /\ DOMAIN targets = 1..Len(targets)
    BY <1>1, SlotIs, JFacts DEF Driver
  <1>3. PendingAs /\ PendingAs'
    BY <1>1, MappedNow, MappedNext DEF Mapped
  <1>4. ~Durable /\ ~Durable'
    BY <1>1, MappedNow, MappedNext DEF Mapped, Building
  <1>6. TxnStatus = "open" /\ TxnStatus' = "open" /\ Dropped' = Dropped
    BY <1>1, <1>4 DEF TxnStatus, Dropped
  <1>7. /\ Len(ts) = len /\ slot \in 1..len
        /\ \A i \in 1..len : ts[i] = IF i = slot THEN [target |-> t, checksum |-> Updated(t)] ELSE targets[i]
    <2>1. len \in Nat /\ slot \in 1..len /\ DOMAIN ts = 1..len
      BY <1>2 DEF StageDone
    <2>2. ts \in Seq(TargetList)
      BY DEF JInv, IInv, TInv, Driver
    <2>3. Len(ts) = len
      BY <2>1, <2>2
    <2> QED
      BY <2>1, <2>3 DEF StageDone
  <1>8. Names(ts) = Names(targets) \cup {t}
    <2>1. ts[slot].target = t
      BY <1>7
    <2>2. \A i \in 1..Len(targets) : i \in 1..len /\ ts[i].target = targets[i].target
      BY <1>2, <1>7
    <2>3. \A i \in 1..len : i \in 1..Len(targets) \/ i = slot
      BY <1>2
    <2> HIDE DEF slot, len, ts
    <2> QED
      BY <1>7, <2>1, <2>2, <2>3 DEF Names
  <1>9. Q[t] = Updated(t)
    <2>1. ts[slot].target = t /\ ts[slot].checksum = Updated(t)
      BY <1>7
    <2>2. Q[ts[slot].target] = ts[slot].checksum
      BY <1>3, <1>7 DEF PendingAs
    <2> QED
      BY <2>1, <2>2
  <1>10. ASSUME NEW u \in Names(targets), u # t
         PROVE  Q[u] = P[u]
    <2>1. PICK i \in 1..Len(targets) : targets[i].target = u
      BY DEF Names
    <2>2. i # slot /\ i \in 1..Len(ts) /\ ts[i] = targets[i]
      BY <1>2, <1>7, <1>10, <2>1
    <2>3. Q[ts[i].target] = ts[i].checksum
      BY <1>3, <2>2 DEF PendingAs
    <2>4. P[targets[i].target] = targets[i].checksum
      BY <1>3 DEF PendingAs
    <2> QED
      BY <2>1, <2>2, <2>3, <2>4
  <1>11. Updated(t) = Volume!Base(t) \cup {stages + 1} /\ stages + 1 \in Stamps
    BY <1>1, <1>2, UpdatedIs, JournalAssumption DEF Stamps
  <1>12. /\ DOMAIN P = Names(targets)
         /\ Q = [u \in Names(ts) |-> Q[u]]
    BY <1>3 DEF PendingAs
  <1>13. Q = [u \in DOMAIN P \cup {t} |-> IF u = t THEN Volume!Base(t) \cup {stages + 1} ELSE P[u]]
    <2> HIDE DEF P, Q, ts
    <2>1. \A u \in DOMAIN P \cup {t} : Q[u] = IF u = t THEN Volume!Base(t) \cup {stages + 1} ELSE P[u]
      BY <1>9, <1>10, <1>11, <1>12
    <2>2. [u \in DOMAIN P \cup {t} |-> Q[u]]
             = [u \in DOMAIN P \cup {t} |-> IF u = t THEN Volume!Base(t) \cup {stages + 1} ELSE P[u]]
      BY <2>1
    <2> QED
      BY <1>8, <1>12, <2>2
  <1> QED
    BY <1>1, <1>6, <1>11, <1>13 DEF Volume!Update

\* How a transaction begins, goes on and ends, and what its caller is told.
Course == /\ pc \notin TxnSteps => outcome' = outcome
          /\ pc \notin TxnSteps /\ pc' \in TxnSteps =>
                /\ pc = "idle" /\ pc' = "open"
                /\ targets' = targets /\ revokes' = revokes
          /\ pc \in TxnSteps /\ pc' \notin TxnSteps =>
                \/ outcome' = "failed"
                \/ outcome' = "ok" /\ pc = "tail"
                \/ outcome' = "ok" /\ pc = "open" /\ targets = << >> /\ revokes = {}
          /\ pc \in TxnSteps /\ pc' \in TxnSteps =>
                \/ UNCHANGED <<outcome, targets, revokes>>
                \/ \E t \in Targets : StageDone(t) \/ RevokeDone(t)

\* Every step keeps to it: an operation that fails is reported so, and success is
\* reported by WriteTail, or by TxnClose for a transaction with no change.
LEMMA Courses ==
    ASSUME Step
    PROVE  Course
  <1>1. CASE Replay
    <2>1. pc \notin TxnSteps /\ pc' \notin TxnSteps /\ outcome' = outcome
      BY <1>1
      DEF Replay, ReplayReadFails, ReplayDescriptor, ReplayScan, ReplayImage, ReplayBarrier,
          ReplayTail, RecordError, ReplayFails, NothingToReplay, TxnSteps
    <2> QED
      BY <2>1 DEF Course
  <1>2. CASE Commit
    <2>1. pc \in TxnSteps
      BY <1>2
      DEF Commit, WriteDescriptor, WriteRevoke, BarrierLog, WriteCommit, BarrierCommit, LogWrite,
          LogFlush, Checkpoint, CheckpointDone, BarrierData, WriteTail, TxnSteps
    <2>2. \/ pc' \in TxnSteps /\ UNCHANGED <<outcome, targets, revokes>>
          \/ pc' \notin TxnSteps /\ outcome' = "failed"
          \/ pc' \notin TxnSteps /\ outcome' = "ok" /\ pc = "tail"
      BY <1>2
      DEF Commit, WriteDescriptor, WriteRevoke, BarrierLog, WriteCommit, BarrierCommit, LogWrite,
          LogFlush, Checkpoint, CheckpointDone, BarrierData, WriteTail, TxnSteps, Abort, Latch, txn
    <2> QED
      BY <2>1, <2>2 DEF Course
  <1>3. ASSUME NEW t \in Targets, Stage(t)
        PROVE  Course
    <2>1. pc = "open" /\ (StageDone(t) \/ (pc' = "idle" /\ outcome' = "failed"))
      BY <1>3 DEF Stage, StageDone, Abort
    <2>2. pc \in TxnSteps /\ (StageDone(t) => pc' \in TxnSteps) /\ "idle" \notin TxnSteps
      BY <2>1 DEF StageDone, TxnSteps
    <2>3. CASE StageDone(t)
      BY <2>2, <2>3 DEF Course
    <2>4. CASE pc' = "idle" /\ outcome' = "failed"
      BY <2>2, <2>4 DEF Course
    <2> QED
      BY <2>1, <2>3, <2>4
  <1>4. ASSUME NEW t \in Targets, TxnRevoke(t)
        PROVE  Course
    <2>1. pc = "open" /\ (RevokeDone(t) \/ (pc' = "idle" /\ outcome' = "failed"))
      BY <1>4 DEF TxnRevoke, RevokeDone, Abort
    <2>2. pc \in TxnSteps /\ (RevokeDone(t) => pc' \in TxnSteps) /\ "idle" \notin TxnSteps
      BY <2>1 DEF RevokeDone, TxnSteps
    <2>3. CASE RevokeDone(t)
      BY <2>2, <2>3 DEF Course
    <2>4. CASE pc' = "idle" /\ outcome' = "failed"
      BY <2>2, <2>4 DEF Course
    <2> QED
      BY <2>1, <2>3, <2>4
  <1>5. CASE Mount \/ SyncClean \/ BarrierSync \/ Exit
    <2>1. pc \notin TxnSteps /\ pc' \notin TxnSteps /\ outcome' = outcome
      BY <1>5 DEF Mount, SyncClean, BarrierSync, Exit, Restart, TxnSteps
    <2> QED
      BY <2>1 DEF Course
  <1>6. CASE TxnOpen
    BY <1>6 DEF TxnOpen, Course, TxnSteps, txn
  <1>7. CASE OperationFails
    BY <1>7 DEF OperationFails, Abort, Course, TxnSteps
  <1>8. CASE TxnClose
    BY <1>8 DEF TxnClose, Course, TxnSteps, txn
  <1>9. CASE Crash
    <2>1. pc' \notin TxnSteps /\ outcome' = IF pc \in TxnSteps THEN "failed" ELSE outcome
      BY <1>9 DEF Crash, Restart, TxnSteps
    <2> QED
      BY <2>1 DEF Course
  <1>10. CASE \E b \in Blocks : Writeback(b)
    <2>1. UNCHANGED <<pc, outcome, targets, revokes>>
      BY <1>10 DEF Writeback, txn
    <2> QED
      BY <2>1 DEF Course
  <1> QED
    BY <1>1, <1>2, <1>3, <1>4, <1>5, <1>6, <1>7, <1>8, <1>9, <1>10 DEF Step

\* The steps that leave what a mount would serve alone begin a transaction, add to
\* it, end it, or do nothing to it.
LEMMA OtherRefines ==
    ASSUME JInv, JInv', Course, StableContent' = StableContent, Lost' = Lost,
           UNCHANGED <<targets, revokes>> /\ pc \in TxnSteps /\ pc' \in TxnSteps => Durable' = Durable
    PROVE  Volume!Next \/ UNCHANGED Volume!vars
  <1>1. CASE pc \notin TxnSteps /\ pc' \notin TxnSteps
    <2>1. UNCHANGED <<PendingContent, Dropped, TxnStatus, outcome>>
      BY <1>1 DEF Course, PendingContent, Dropped, TxnStatus
    <2> QED
      BY <2>1 DEF Volume!vars
  <1>2. CASE pc \notin TxnSteps /\ pc' \in TxnSteps
    <2>1. pc = "idle" /\ pc' = "open" /\ targets' = << >> /\ revokes' = {} /\ outcome' = outcome
      BY <1>2, JFacts DEF Course, Memory, Rests, Resting
    <2>2. ~Durable' /\ PendingAs' /\ ~Lost
      BY <1>2, <2>1, MappedNext DEF Mapped, Building
    <2>3. TxnStatus = "idle" /\ TxnStatus' = "open" /\ Dropped = {} /\ Dropped' = {}
      BY <1>2, <2>1, <2>2 DEF TxnStatus, Dropped
    <2>4. PendingContent = [t \in {} |-> {}]
      BY <1>2 DEF PendingContent
    <2>5. PendingContent' = [t \in {} |-> {}]
      <3>1. Names(targets)' = {}
        BY <2>1 DEF Names
      <3> QED
        BY <2>2, <3>1 DEF PendingAs
    <2>6. Volume!Begin
      BY <2>1, <2>2, <2>3, <2>4, <2>5 DEF Volume!Begin
    <2> QED
      BY <2>6 DEF Volume!Next
  <1>3. CASE pc \in TxnSteps /\ pc' \notin TxnSteps
    <2>1. TxnStatus # "idle" /\ Volume!Over
      BY <1>3 DEF TxnStatus, Volume!Over, Volume!NoUpdate, PendingContent, Dropped
    <2>2. CASE outcome' = "failed"
      BY <2>1, <2>2 DEF Volume!Fail, Volume!Next
    <2>3. CASE outcome' = "ok" /\ pc = "tail"
      <3>1. TxnStatus = "committed"
        BY <1>3, <2>3, MappedNow, JFacts DEF Mapped, Phase, Applying, TxnStatus
      <3> QED
        BY <2>1, <2>3, <3>1 DEF Volume!Acknowledge, Volume!Next
    <2>4. CASE outcome' = "ok" /\ pc = "open" /\ targets = << >> /\ revokes = {}
      <3>1. TxnStatus = "open" /\ Dropped = {} /\ PendingAs
        BY <1>3, <2>4, MappedNow DEF Mapped, TxnStatus, Dropped, Building
      <3>2. Names(targets) = {}
        BY <2>4 DEF Names
      <3>3. PendingContent = Volume!NoUpdate
        BY <3>1, <3>2 DEF PendingAs, Volume!NoUpdate
      <3> QED
        BY <2>1, <2>4, <3>1, <3>3 DEF Volume!Acknowledge, Volume!Next
    <2> QED
      BY <1>3, <2>2, <2>3, <2>4 DEF Course
  <1>4. CASE pc \in TxnSteps /\ pc' \in TxnSteps
    <2>1. CASE UNCHANGED <<outcome, targets, revokes>>
      <3>1. UNCHANGED <<PendingContent, Dropped, TxnStatus>>
        BY <1>4, <2>1, PendingStays DEF Dropped, TxnStatus
      <3> QED
        BY <2>1, <3>1 DEF Volume!vars
    <2>2. ASSUME NEW t \in Targets, StageDone(t)
          PROVE  Volume!Next
      BY <2>2, StageRefines DEF Volume!Next
    <2>3. ASSUME NEW t \in Targets, RevokeDone(t)
          PROVE  Volume!Next
      <3>1. /\ pc = "open" /\ pc' = "open" /\ outcome' = outcome /\ targets' = targets
            /\ revokes' = revokes \cup {t}
        BY <2>3 DEF RevokeDone
      <3>2. ~Durable /\ ~Durable' /\ PendingContent' = PendingContent
        BY <1>4, <3>1, MappedNow, MappedNext, PendingStays DEF Mapped, Building
      <3>3. TxnStatus = "open" /\ TxnStatus' = "open" /\ Dropped' = Dropped \cup {t}
        BY <1>4, <3>1, <3>2 DEF TxnStatus, Dropped
      <3>4. Volume!Free(t)
        BY <3>1, <3>2, <3>3 DEF Volume!Free
      <3> QED
        BY <3>4 DEF Volume!Next
    <2> QED
      BY <1>4, <2>1, <2>2, <2>3 DEF Course
  <1> QED
    BY <1>1, <1>2, <1>3, <1>4

\* ERROR reaches the disk between two transactions, and the volume is lost.
LEMMA LossRefines ==
    ASSUME Handled, JInv, JInv', Next, Course, Disk(media'), Lost' # Lost
    PROVE  Volume!Lose
  <1>1. ~Lost /\ Lost' /\ Step
    <2>1. KeepsMark
      BY NextInv, JFacts
    <2> QED
      BY <2>1 DEF KeepsMark, Lost, Next
  <1>2. media' # media
    BY <1>1 DEF Lost
  <1>3. pc \notin TxnSteps
    <2> SUFFICES ASSUME pc \in TxnSteps
                 PROVE  FALSE
      OBVIOUS
    <2>1. cache[SUPER].state = "DIRTY"
      BY JFacts DEF Memory, Marked
    <2>2. media'[SUPER] \in {media[SUPER], cache[SUPER]}
      BY <1>1, <1>2, MediaStep
    <2> QED
      BY <1>1, <2>1, <2>2 DEF Lost
  <1>4. pc' \notin TxnSteps
    BY <1>1, MappedNext DEF Mapped
  <1>5. outcome' = outcome
    BY <1>3 DEF Course
  <1>6. PendingContent' = PendingContent /\ Dropped' = Dropped /\ TxnStatus = "idle" /\ TxnStatus' = "idle"
    BY <1>3, <1>4 DEF PendingContent, Dropped, TxnStatus
  <1>7. StableContent' = [t \in Targets |-> FREE]
    BY <1>1 DEF StableContent
  <1>8. Lost' = TRUE
    BY <1>1 DEF Lost
  <1> QED
    BY <1>5, <1>6, <1>7, <1>8 DEF Volume!Lose

\* Every step of the driver and of the device is one of the volume's, or none.
LEMMA StepRefines ==
    ASSUME Handled, JInv, JInv', [Next]_vars
    PROVE  Volume!Next \/ UNCHANGED Volume!vars
  <1>1. CASE Next
    <2>1. Step /\ freed' = FreedBy(media') /\ Disk(media) /\ Disk(media')
      BY <1>1, JFacts DEF Next, JInv, IInv, TInv
    <2>2. Course
      BY <2>1, Courses
    <2>3. CASE /\ Committing(media, cache) /\ Held(media', cache) /\ cache' = cache
               /\ pc = "barrier_commit" /\ pc' \in {"barrier_commit", "checkpoint"}
               /\ UNCHANGED <<targets, revokes, outcome>>
      BY <2>1, <2>3, CommitRefines DEF Volume!Next
    <2>4. CASE Lost' # Lost
      BY <1>1, <2>1, <2>2, <2>4, LossRefines DEF Volume!Next
    <2>5. CASE /\ Lost' = Lost
               /\ \/ media' = media
                  \/ /\ cache' = cache
                     /\ \/ Steady(media, cache) /\ Empty(media', cache)
                        \/ Committing(media, cache) /\ Committing(media', cache)
                        \/ Held(media, cache) /\ Held(media', cache)
      <3>1. StableContent' = StableContent
        BY <2>1, <2>5, StableStays
      <3>2. ASSUME UNCHANGED <<targets, revokes>>, pc \in TxnSteps, pc' \in TxnSteps
            PROVE  Durable' = Durable
        <4>1. CASE media' = media
          BY <3>2, <4>1 DEF Durable
        <4>2. CASE /\ cache' = cache
                   /\ \/ Steady(media, cache) /\ Empty(media', cache)
                      \/ Committing(media, cache) /\ Committing(media', cache)
                      \/ Held(media, cache) /\ Held(media', cache)
          <5>1. Held(media, cache) <=> Held(media', cache')
            BY <2>1, <4>2, NotHeld DEF Steady
          <5>2. (Durable <=> Held(media, cache)) /\ (Durable' <=> Held(media', cache'))
            BY <3>2, MappedNow, MappedNext DEF Mapped
          <5> QED
            BY <5>1, <5>2 DEF Durable
        <4> QED
          BY <2>5, <4>1, <4>2
      <3> QED
        BY <2>2, <2>5, <3>1, <3>2, OtherRefines
    <2> QED
      BY <2>1, <2>3, <2>4, <2>5, MediaStep
  <1>2. CASE UNCHANGED vars
    <2>1. UNCHANGED <<media, cache, freed, pc, targets, revokes, outcome>>
      BY <1>2 DEF vars, txn
    <2>2. UNCHANGED <<StableContent, Dropped, TxnStatus, Lost>>
      BY <2>1 DEF StableContent, Dropped, TxnStatus, Durable, Lost
    <2>3. UNCHANGED PendingContent
      <3>1. CASE pc \in TxnSteps
        BY <2>1, <3>1, PendingStays
      <3>2. CASE pc \notin TxnSteps
        BY <2>1, <3>2 DEF PendingContent
      <3> QED
        BY <3>1, <3>2
    <2> QED
      BY <2>1, <2>2, <2>3 DEF Volume!vars
  <1> QED
    BY <1>1, <1>2

\* A formatted volume holds no updates, and no transaction is open.
LEMMA InitRefines ==
    ASSUME Init
    PROVE  Volume!Init
  <1>1. JInv /\ pc = "down" /\ freed = {} /\ media = Formatted /\ outcome = "none"
    BY InitJInv DEF Init
  <1>2. Steady(media, cache)
    BY <1>1, FormattedDisk DEF Init, Steady, Empty, SameTail, SameTargets
  <1>3. ASSUME NEW t \in Targets
        PROVE  Recovered(media, t) = {}
    <2>1. t \in Blocks /\ t # SUPER /\ t # J_START
      BY Layout
    <2>2. media[t] = Image({})
      BY <1>1, <2>1 DEF Formatted
    <2> QED
      BY <1>1, <1>2, <2>2, SteadyRecovers DEF Image
  <1>4. ~Lost /\ Lost = FALSE
    BY <1>1, Layout DEF Formatted, Super, Lost
  <1>5. StableContent = [t \in Targets |-> {}]
    BY <1>1, <1>3, <1>4 DEF StableContent
  <1>6. pc \notin TxnSteps
    BY <1>1 DEF TxnSteps
  <1>7. PendingContent = Volume!NoUpdate /\ Dropped = {} /\ TxnStatus = "idle"
    BY <1>6 DEF PendingContent, Dropped, TxnStatus, Volume!NoUpdate
  <1> QED
    BY <1>1, <1>5, <1>7, <1>4 DEF Volume!Init

\* The journal implements AtomicVolume: whatever a power cut, a death of the driver or a
\* handled failure interrupts, what a later mount recovers changes by one whole
\* transaction at a time, and wfs_txn_close reports success only for a transaction that
\* recovery finds (wfs_txn_commit_task, wfs_recover_task).  The promise ends where a
\* recorded ERROR reaches the disk, which happens between two transactions: no mount
\* replays the log of such a volume (wfs_super_parse).
THEOREM JournalRefines == Handled => (Spec => VolumeSpec)
  <1> SUFFICES ASSUME Handled PROVE Spec => VolumeSpec
    OBVIOUS
  <1>1. Init => Volume!Init
    BY InitRefines
  <1>2. JInv /\ JInv' /\ [Next]_vars => [Volume!Next]_(Volume!vars)
    BY StepRefines
  <1> QED
    BY <1>1, <1>2, JInvariance, PTL DEF Spec, VolumeSpec, Volume!Spec
=============================================================================
