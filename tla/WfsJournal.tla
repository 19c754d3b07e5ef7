----------------------------- MODULE WfsJournal -----------------------------
(***************************************************************************)
(* The write-ahead metadata journal of the WFS driver                      *)
(* (src/drivers/fs_wfs): transactions (wfs_journal.c), replay at mount     *)
(* (wfs_recover.c, wfs_mount.c) and the volume's mount state (wfs_sync.c). *)
(*                                                                         *)
(* The driver has one request in flight and awaits each reply, so a step   *)
(* is one block request together with what the driver does on its reply.   *)
(* Reads change nothing and are part of the step that uses them.           *)
(*                                                                         *)
(* The device has a volatile write cache: a write reaches `cache`, any     *)
(* cached block may reach `media` at any time and in any order, a flush    *)
(* puts all of it there.  A power cut leaves the media alone; the driver's *)
(* process may also die by itself, which leaves the cache in place.  A     *)
(* request may fail; a failed write may have reached the cache or not.     *)
(*                                                                         *)
(* A metadata block's content is the set of updates it has received, each  *)
(* with a stamp of its own.  The update of a block is a read-modify-write  *)
(* through the transaction's redirect, so an update that is lost, torn     *)
(* from its transaction or resurrected shows.  A checksum is modelled by   *)
(* the content it was taken over.                                          *)
(***************************************************************************)
EXTENDS Naturals, Sequences, FiniteSets

CONSTANTS
    NTargets,     \* number of metadata blocks
    MAX_TARGETS,  \* WFS_TXN_MAX_TARGETS
    MAX_REVOKES,  \* WFS_TXN_MAX_REVOKES
    FREE,         \* the promised content of a freed block
    TailOrdered,  \* assumption: no later write overtakes the journal's tail
    DeathSteps,   \* the steps at which the driver's process may die alone
    FaultSteps,   \* the requests that may fail, by the step that makes them
    MaxStages,    \* bound: updates of metadata blocks
    MaxCrashes,   \* bound: power cuts and driver deaths
    MaxFaults     \* bound: failed requests

ASSUME JournalAssumption ==
    /\ NTargets \in Nat \ {0}
    /\ MAX_TARGETS \in Nat \ {0}
    /\ MAX_REVOKES \in Nat
    /\ TailOrdered \in BOOLEAN
    /\ MaxStages \in Nat /\ MaxCrashes \in Nat /\ MaxFaults \in Nat

\* No content of a block is the mark of a freed one.
ASSUME FreeAssumption == \A content \in SUBSET (1..MaxStages) : content # FREE

VARIABLES
    media,        \* block -> content that survives a power cut
    cache,        \* block -> content the device answers reads with
    freed,        \* blocks the committed allocation bitmaps hold free
    pc,           \* the driver's next request, or where it waits for a call
    state,        \* vol->super.state
    readOnly,     \* vol->super.read_only
    dirtyMarked,  \* vol->dirty_marked
    nextSeq,      \* j->next_sequence, also j->sequence while a transaction is open
    targets,      \* j->targets, or ctx->targets of a replay: [target, checksum]
    revokes,      \* j->revokes, or ctx->revokes of a replay
    index,        \* ctx->index of the checkpoint or the replay; ctx->cursor of its scan
    outcome,      \* what the last caller of wfs_txn_close was told
    stages, crashes, faults

device == <<media, cache>>
volume == <<state, readOnly, dirtyMarked, nextSeq>>
txn    == <<targets, revokes, index>>
vars   == <<media, cache, freed, pc, volume, txn, outcome, stages, crashes, faults>>

-----------------------------------------------------------------------------
(* The layout of the volume and of the log. *)

SUPER   == 0
J_START == 1
LogBlocks(t, r) == 1 + t + (IF r > 0 THEN 1 ELSE 0) + 1
J_BLOCKS == 1 + LogBlocks(MAX_TARGETS, 1)
Log      == (J_START + 1)..(J_START + J_BLOCKS - 1)
Targets  == (J_START + J_BLOCKS)..(J_START + J_BLOCKS + NTargets - 1)
Blocks   == 0..(J_START + J_BLOCKS + NTargets - 1)

descriptor_block == J_START + 1
image_block(i)   == descriptor_block + i
revoke_block     == image_block(Len(targets)) + 1
commit_block     == image_block(Len(targets)) + (IF revokes # {} THEN 1 ELSE 0) + 1

(* Block contents.  A log record names its sequence. *)
Super(s)       == [type |-> "super", state |-> s]
JournalSuper(n) == [type |-> "tail", seq |-> n]
Image(c)       == [type |-> "image", content |-> c]
Descriptor(n, ts) == [type |-> "descriptor", seq |-> n, targets |-> ts]
RevokeRecord(n, bs) == [type |-> "revoke", seq |-> n, blocks |-> bs]
CommitRecord(n, k)  == [type |-> "commit", seq |-> n, count |-> k]

RecordTypes == {"descriptor", "revoke", "commit"}

\* record_is_live: the record verifies and carries the sequence.
Live(rec, n) == rec.type \in RecordTypes /\ rec.seq = n

-----------------------------------------------------------------------------
(* The device. *)

\* A request that succeeds.
WriteDone(b, v) == /\ cache' = [cache EXCEPT ![b] = v]
                   /\ UNCHANGED <<media, faults>>
FlushDone == /\ media' = cache
             /\ UNCHANGED <<cache, faults>>
NoRequest == UNCHANGED <<device, faults>>

\* A request that fails.
MayFail(step) == /\ faults < MaxFaults
                 /\ step \in FaultSteps
                 /\ faults' = faults + 1
WriteFailed(step, b, v) == /\ MayFail(step)
                           /\ cache' \in {cache, [cache EXCEPT ![b] = v]}
                           /\ UNCHANGED media
ReadOrFlushFailed(step) == MayFail(step) /\ UNCHANGED device

\* The device writes a cached block back on its own.
Writeback(b) == /\ media[b] # cache[b]
                /\ TailOrdered => b = J_START \/ media[J_START] = cache[J_START]
                /\ media' = [media EXCEPT ![b] = cache[b]]
                /\ UNCHANGED <<cache, pc, volume, txn, outcome, stages, crashes, faults>>

-----------------------------------------------------------------------------
(* Transactions. *)

TxnSteps == {"open", "descriptor", "revoke", "barrier_log", "commit",
             "barrier_commit", "checkpoint", "barrier_data", "tail"}

EmptyTxn == /\ targets' = << >>
            /\ revokes' = {}
            /\ index' = 1

\* wfs_txn_abort, and the error its caller returns.
Abort == /\ pc' = "idle"
         /\ outcome' = "failed"
         /\ EmptyTxn

\* ns_begin, wfs_txn_open: the volume is marked dirty once per mount, then the
\* transaction begins.
TxnOpen == /\ pc = "idle"
           /\ ~readOnly
           /\ stages < MaxStages
           /\ \/ /\ dirtyMarked
                 /\ NoRequest
                 /\ pc' = "open"
                 /\ UNCHANGED <<state, dirtyMarked>>
              \/ /\ ~dirtyMarked
                 /\ WriteDone(SUPER, Super("DIRTY"))
                 /\ state' = "DIRTY"
                 /\ dirtyMarked' = TRUE
                 /\ pc' = "open"
              \/ /\ ~dirtyMarked
                 /\ WriteFailed("mark_dirty", SUPER, Super("DIRTY"))
                 /\ UNCHANGED <<pc, state, dirtyMarked>>
           /\ UNCHANGED <<readOnly, nextSeq, txn, outcome, stages, crashes>>

StagedAs(t) == {i \in DOMAIN targets : targets[i].target = t}

\* journal_redirect: where a read of t goes while the transaction is open.
journal_redirect(t) == IF StagedAs(t) = {} THEN t
                       ELSE image_block(CHOOSE i \in StagedAs(t) : TRUE)

\* The new content of t.  A block taken from the free ones is built anew.
Updated(t) == (IF t \in freed /\ StagedAs(t) = {} THEN {}
               ELSE cache[journal_redirect(t)].content) \cup {stages + 1}

\* The slot of t: its own if it was staged before, else the next.
SlotOf(t) == IF StagedAs(t) = {} THEN Len(targets) + 1
             ELSE CHOOSE i \in StagedAs(t) : TRUE

\* wfs_txn_stage_begin and _take.  No caller stages a block it has freed in
\* the same transaction; one target too many is refused (OperationFails).
Stage(t) ==
    /\ pc = "open"
    /\ t \notin revokes
    /\ stages < MaxStages
    /\ stages' = stages + 1
    /\ LET slot  == SlotOf(t)
           image == Updated(t)
       IN /\ slot <= MAX_TARGETS
          /\ \/ /\ WriteDone(image_block(slot), Image(image))
                /\ targets' = [i \in 1..(IF slot > Len(targets) THEN slot ELSE Len(targets)) |->
                                 IF i = slot THEN [target |-> t, checksum |-> image]
                                 ELSE targets[i]]
                /\ UNCHANGED <<pc, outcome, revokes, index>>
             \/ /\ WriteFailed("stage", image_block(slot), Image(image))
                /\ Abort
    /\ UNCHANGED <<volume, crashes>>

\* Mutation: room for one revoke more than the record holds.
RevokeListFullLate == Cardinality(revokes) > MAX_REVOKES
RevokeListFull == Cardinality(revokes) >= MAX_REVOKES

\* wfs_free_blocks_task of a metadata block: wfs_txn_revoke.  A full list
\* fails the operation, which aborts.
TxnRevoke(t) ==
    /\ pc = "open"
    /\ t \notin freed \cup revokes
    /\ \/ /\ ~RevokeListFull
          /\ revokes' = revokes \cup {t}
          /\ UNCHANGED <<pc, outcome, targets, index>>
       \/ /\ RevokeListFull
          /\ Abort
    /\ NoRequest
    /\ UNCHANGED <<volume, stages, crashes>>

\* ns_end after an operation that failed before its commit: a read, a check of
\* its arguments, or a stage refused with WASMOS_ERR_FS_TXN_FULL.
OperationFails == /\ pc = "open"
                  /\ Abort
                  /\ NoRequest
                  /\ UNCHANGED <<volume, stages, crashes>>

\* wfs_txn_close: an empty transaction is only closed.  The log is never too
\* short for the others: wfs_journal_load_task refuses such a log.
TxnClose == /\ pc = "open"
            /\ \/ /\ targets = << >> /\ revokes = {}
                  /\ pc' = "idle"
                  /\ outcome' = "ok"
                  /\ EmptyTxn
               \/ /\ targets # << >> \/ revokes # {}
                  /\ pc' = "descriptor"
                  /\ UNCHANGED <<outcome, txn>>
            /\ NoRequest
            /\ UNCHANGED <<volume, stages, crashes>>

\* A step of wfs_txn_commit_task before the transaction is durable: a failure
\* abandons it, and the next one reuses its sequence.
LogWrite(step, next, b, v) == /\ pc = step
                              /\ \/ /\ WriteDone(b, v)
                                    /\ pc' = next
                                    /\ UNCHANGED <<outcome, txn>>
                                 \/ /\ WriteFailed(step, b, v)
                                    /\ Abort
                              /\ UNCHANGED <<volume, stages, crashes>>
LogFlush(step, next) == /\ pc = step
                        /\ \/ /\ FlushDone
                              /\ pc' = next
                              /\ UNCHANGED <<outcome, txn>>
                           \/ /\ ReadOrFlushFailed(step)
                              /\ Abort
                        /\ UNCHANGED <<volume, stages, crashes>>

WriteDescriptor == LogWrite("descriptor", IF revokes = {} THEN "barrier_log" ELSE "revoke",
                            descriptor_block, Descriptor(nextSeq, targets))
WriteRevoke     == LogWrite("revoke", "barrier_log",
                            revoke_block, RevokeRecord(nextSeq, revokes))
\* Mutation: the COMMIT follows the log without a barrier.
NoBarrierLog    == /\ pc = "barrier_log"
                   /\ pc' = "commit"
                   /\ NoRequest
                   /\ UNCHANGED <<volume, txn, outcome, stages, crashes>>
BarrierLog      == LogFlush("barrier_log", "commit")
WriteCommit     == LogWrite("commit", "barrier_commit",
                            commit_block, CommitRecord(nextSeq, Len(targets)))
BarrierCommit   == LogFlush("barrier_commit", "checkpoint")

\* A failure once the transaction is durable: the volume latches read-only.
Latch == /\ readOnly' = TRUE
         /\ Abort
         /\ UNCHANGED <<state, dirtyMarked, nextSeq>>

\* One image to its target block: a read of the log and a write.
Checkpoint ==
    /\ pc = "checkpoint"
    /\ index <= Len(targets)
    /\ LET t == targets[index].target
           v == cache[image_block(index)]
       IN \/ /\ WriteDone(t, v)
             /\ index' = index + 1
             /\ UNCHANGED <<pc, outcome, targets, revokes, volume>>
          \/ WriteFailed(pc, t, v) /\ Latch
    /\ UNCHANGED <<stages, crashes>>

CheckpointDone == /\ pc = "checkpoint"
                  /\ index > Len(targets)
                  /\ pc' = "barrier_data"
                  /\ NoRequest
                  /\ UNCHANGED <<volume, txn, outcome, stages, crashes>>

BarrierData == /\ pc = "barrier_data"
               /\ \/ /\ FlushDone
                     /\ pc' = "tail"
                     /\ UNCHANGED <<outcome, txn, volume>>
                  \/ ReadOrFlushFailed(pc) /\ Latch
               /\ UNCHANGED <<stages, crashes>>

\* The sequence the tail names once a transaction is retired.
\* Mutation: the retired transaction's own.
RetiredTailStays == nextSeq
RetiredTail == nextSeq + 1

\* The tail retires the transaction.  No flush follows.
WriteTail == /\ pc = "tail"
             /\ \/ /\ WriteDone(J_START, JournalSuper(RetiredTail))
                   /\ nextSeq' = RetiredTail
                   /\ pc' = "idle"
                   /\ outcome' = "ok"
                   /\ EmptyTxn
                   /\ UNCHANGED <<state, readOnly, dirtyMarked>>
                \/ WriteFailed(pc, J_START, JournalSuper(RetiredTail)) /\ Latch
             /\ UNCHANGED <<stages, crashes>>

-----------------------------------------------------------------------------
(* Unmounting: wfs_do_shutdown and wfs_sync_task with WFS_STATE_CLEAN. *)

SyncClean == /\ pc = "idle"
             /\ ~readOnly
             /\ state # "CLEAN"
             /\ \/ /\ WriteDone(SUPER, Super("CLEAN"))
                   /\ state' = "CLEAN"
                   /\ pc' = "barrier_sync"
                \/ /\ WriteFailed("sync", SUPER, Super("CLEAN"))
                   /\ UNCHANGED <<pc, state>>
             /\ UNCHANGED <<readOnly, dirtyMarked, nextSeq, txn, outcome, stages, crashes>>

BarrierSync == /\ pc = "barrier_sync"
               /\ pc' = "idle"
               /\ \/ FlushDone /\ dirtyMarked' = FALSE
                  \/ ReadOrFlushFailed(pc) /\ UNCHANGED dirtyMarked
               /\ UNCHANGED <<state, readOnly, nextSeq, txn, outcome, stages, crashes>>

\* The driver's memory is gone.
Restart == /\ pc' = "down"
           /\ state' = "CLEAN"
           /\ readOnly' = FALSE
           /\ dirtyMarked' = FALSE
           /\ nextSeq' = 0
           /\ EmptyTxn
           /\ UNCHANGED <<stages, faults>>

\* After the reply to an unmount the process ends; the machine runs on.
Exit == /\ pc = "idle"
        /\ Restart
        /\ UNCHANGED <<device, outcome, crashes>>

\* A power cut, or the death of the driver's process alone.
Crash == /\ pc # "down"
         /\ crashes < MaxCrashes
         /\ crashes' = crashes + 1
         /\ \/ cache' = media
            \/ pc \in DeathSteps /\ cache' = cache
         /\ Restart
         /\ outcome' = IF pc \in TxnSteps THEN "failed" ELSE outcome
         /\ UNCHANGED media

-----------------------------------------------------------------------------
(* Mounting and recovery. *)

\* What the recorded state asks of a mount (wfs_super_parse).
\* Mutations: a dirty volume is served as it is; one in error is served for writing.
NeverReplays(s) == FALSE
needs_replay(s) == s = "DIRTY"
WritableInError(s) == FALSE
mounts_read_only(s) == s = "ERROR"

\* wfs_mount_task up to the replay: the superblock is read, then the journal's
\* (wfs_journal_load_task).  An unreadable log costs only the writability.
Mount == /\ pc = "down"
         /\ state' = cache[SUPER].state
         /\ \/ /\ NoRequest
               /\ readOnly' = mounts_read_only(state')
               /\ nextSeq' = cache[J_START].seq
               /\ pc' = IF needs_replay(state') THEN "replay_descriptor" ELSE "idle"
            \/ /\ ReadOrFlushFailed(pc)
               /\ readOnly' = TRUE
               /\ pc' = "idle"
               /\ UNCHANGED nextSeq
         /\ UNCHANGED <<dirtyMarked, txn, outcome, stages, crashes>>

\* The replay ends, and with it the mount: the log held nothing committed.
NothingToReplay == /\ pc' = "idle"
                   /\ EmptyTxn

\* A failed replay leaves the volume read-only and records the error.
ReplayFails == /\ pc' = "record_error"
               /\ readOnly' = TRUE
               /\ EmptyTxn
               /\ UNCHANGED <<state, dirtyMarked, nextSeq>>

ReplayReadFails == /\ pc \in {"replay_descriptor", "replay_scan"}
                   /\ ReadOrFlushFailed(pc)
                   /\ ReplayFails
                   /\ UNCHANGED <<outcome, stages, crashes>>

ReplayDescriptor ==
    /\ pc = "replay_descriptor"
    /\ LET d == cache[descriptor_block]
       IN \/ /\ ~Live(d, nextSeq)
             /\ NothingToReplay
             /\ UNCHANGED volume
          \/ /\ Live(d, nextSeq) /\ d.type # "descriptor"
             /\ ReplayFails
          \/ /\ Live(d, nextSeq) /\ d.type = "descriptor"
             /\ targets' = d.targets
             /\ index' = image_block(Len(d.targets)) + 1
             /\ pc' = "replay_scan"
             /\ UNCHANGED <<revokes, volume>>
    /\ NoRequest
    /\ UNCHANGED <<outcome, stages, crashes>>

\* The record behind the images: a revoke, the commit, or stale content.
ReplayScan ==
    /\ pc = "replay_scan"
    /\ LET d == IF index \in Log THEN cache[index] ELSE JournalSuper(0)
       IN \/ /\ ~Live(d, nextSeq)
             /\ NothingToReplay
             /\ UNCHANGED volume
          \/ /\ Live(d, nextSeq) /\ d.type = "revoke"
             /\ revokes' = d.blocks
             /\ index' = index + 1
             /\ UNCHANGED <<pc, targets, volume>>
          \/ /\ Live(d, nextSeq) /\ d.type = "commit" /\ d.count = Len(targets)
             /\ index' = 1
             /\ pc' = "replay_image"
             /\ UNCHANGED <<targets, revokes, volume>>
          \/ /\ Live(d, nextSeq)
             /\ d.type = "descriptor" \/ (d.type = "commit" /\ d.count # Len(targets))
             /\ ReplayFails
    /\ NoRequest
    /\ UNCHANGED <<outcome, stages, crashes>>

\* Mutation: the revoke records are not consulted.
RevokesIgnored(t) == FALSE
Revoked(t) == t \in revokes

Checks(i, v) == v = Image(targets[i].checksum)

ReplayImage ==
    /\ pc = "replay_image"
    /\ index <= Len(targets)
    /\ LET t == targets[index].target
           v == cache[image_block(index)]
       IN \/ /\ Revoked(t)
             /\ index' = index + 1
             /\ NoRequest
             /\ UNCHANGED <<pc, targets, revokes, volume>>
          \/ /\ ~Revoked(t) /\ Checks(index, v)
             /\ WriteDone(t, v)
             /\ index' = index + 1
             /\ UNCHANGED <<pc, targets, revokes, volume>>
          \/ /\ ~Revoked(t) /\ ~Checks(index, v)
             /\ NoRequest
             /\ ReplayFails
          \/ /\ ~Revoked(t) /\ Checks(index, v)
             /\ WriteFailed(pc, t, v)
             /\ ReplayFails
    /\ UNCHANGED <<outcome, stages, crashes>>

ReplayBarrier == /\ pc = "replay_image"
                 /\ index > Len(targets)
                 /\ \/ /\ FlushDone
                       /\ pc' = "replay_tail"
                       /\ UNCHANGED <<txn, volume>>
                    \/ ReadOrFlushFailed(pc) /\ ReplayFails
                 /\ UNCHANGED <<outcome, stages, crashes>>

ReplayTail == /\ pc = "replay_tail"
              /\ \/ /\ WriteDone(J_START, JournalSuper(RetiredTail))
                    /\ nextSeq' = RetiredTail
                    /\ pc' = "idle"
                    /\ EmptyTxn
                    /\ UNCHANGED <<state, readOnly, dirtyMarked>>
                 \/ WriteFailed(pc, J_START, JournalSuper(RetiredTail)) /\ ReplayFails
              /\ UNCHANGED <<outcome, stages, crashes>>

\* The superblock says ERROR; a failure to record it is not reported.
RecordError == /\ pc = "record_error"
               /\ pc' = "idle"
               /\ \/ /\ WriteDone(SUPER, Super("ERROR"))
                     /\ state' = "ERROR"
                  \/ /\ WriteFailed(pc, SUPER, Super("ERROR"))
                     /\ UNCHANGED state
               /\ UNCHANGED <<readOnly, dirtyMarked, nextSeq, txn, outcome, stages, crashes>>

-----------------------------------------------------------------------------
(* What a mount would make of a disk m, were it cut off from the cache: the *)
(* reference the replay is compared with, and the volume's stable content.  *)

LogTargets(m) == m[descriptor_block].targets
HasRevoke(m) == LET b == image_block(Len(LogTargets(m))) + 1
                IN Live(m[b], m[J_START].seq) /\ m[b].type = "revoke"
LogRevokes(m) == IF HasRevoke(m) THEN m[image_block(Len(LogTargets(m))) + 1].blocks ELSE {}

\* The log of m holds a transaction at its tail that a mount would replay.
Committed(m) ==
    /\ Live(m[descriptor_block], m[J_START].seq)
    /\ m[descriptor_block].type = "descriptor"
    /\ LET b == image_block(Len(LogTargets(m))) + (IF HasRevoke(m) THEN 2 ELSE 1)
       IN b \in Log /\ m[b] = CommitRecord(m[J_START].seq, Len(LogTargets(m)))

\* The images a replay applies before it meets one that fails its checksum.
Replayed(m) ==
    LET ts == LogTargets(m)
        Bad == {i \in DOMAIN ts : /\ ts[i].target \notin LogRevokes(m)
                                  /\ m[image_block(i)] # Image(ts[i].checksum)}
    IN {i \in DOMAIN ts : /\ ts[i].target \notin LogRevokes(m)
                          /\ \A b \in Bad : i < b}

\* Only a DIRTY volume owes a replay: one that says ERROR is served as it is.
Recovered(m, t) ==
    LET Of == {i \in Replayed(m) : LogTargets(m)[i].target = t}
    IN IF m[SUPER].state = "DIRTY" /\ Committed(m) /\ Of # {}
       THEN m[image_block(CHOOSE i \in Of : TRUE)].content
       ELSE m[t].content

\* The allocation bitmaps become stable with their transaction.
FreedBy(m) ==
    IF Committed(m)
    THEN (freed \ {LogTargets(m)[i].target : i \in DOMAIN LogTargets(m)}) \cup LogRevokes(m)
    ELSE freed

-----------------------------------------------------------------------------
\* A formatted volume: an empty log, no updates.
Formatted == [b \in Blocks |-> IF b = SUPER THEN Super("CLEAN")
                               ELSE IF b = J_START THEN JournalSuper(1)
                               ELSE Image({})]

Init == /\ media = Formatted
        /\ cache = Formatted
        /\ freed = {}
        /\ pc = "down"
        /\ state = "CLEAN"
        /\ readOnly = FALSE
        /\ dirtyMarked = FALSE
        /\ nextSeq = 0
        /\ targets = << >>
        /\ revokes = {}
        /\ index = 1
        /\ outcome = "none"
        /\ stages = 0
        /\ crashes = 0
        /\ faults = 0

Commit == \/ WriteDescriptor \/ WriteRevoke \/ BarrierLog \/ WriteCommit \/ BarrierCommit
          \/ Checkpoint \/ CheckpointDone \/ BarrierData \/ WriteTail

Replay == \/ ReplayReadFails \/ ReplayDescriptor \/ ReplayScan \/ ReplayImage
          \/ ReplayBarrier \/ ReplayTail \/ RecordError

Step == \/ Mount \/ Replay
        \/ TxnOpen \/ OperationFails \/ TxnClose \/ Commit
        \/ \E t \in Targets : Stage(t) \/ TxnRevoke(t)
        \/ SyncClean \/ BarrierSync \/ Exit
        \/ Crash
        \/ \E b \in Blocks : Writeback(b)

Next == Step /\ freed' = FreedBy(media')

Spec == Init /\ [][Next]_vars

-----------------------------------------------------------------------------
Stamps == 1..MaxStages

Steps == TxnSteps \cup {"down", "idle", "barrier_sync", "replay_descriptor", "replay_scan",
                        "replay_image", "replay_tail", "record_error"}

TargetList == [target : Targets, checksum : SUBSET Stamps]

Contents ==
    [type : {"super"}, state : {"CLEAN", "DIRTY", "ERROR"}]
    \cup [type : {"tail"}, seq : Nat]
    \cup [type : {"image"}, content : SUBSET Stamps]
    \cup [type : {"descriptor"}, seq : Nat, targets : Seq(TargetList)]
    \cup [type : {"revoke"}, seq : Nat, blocks : SUBSET Targets]
    \cup [type : {"commit"}, seq : Nat, count : Nat]

\* Every variable keeps its type and the log its layout: the superblocks and the
\* metadata blocks hold nothing but their kind, a transaction stays within
\* WFS_TXN_MAX_TARGETS and WFS_TXN_MAX_REVOKES.
TypeOK == /\ media \in [Blocks -> Contents]
          /\ cache \in [Blocks -> Contents]
          /\ \A d \in {media, cache} : /\ d[SUPER].type = "super"
                                       /\ d[J_START].type = "tail"
                                       /\ \A t \in Targets : d[t].type = "image"
          /\ freed \subseteq Targets
          /\ pc \in Steps
          /\ state \in {"CLEAN", "DIRTY", "ERROR"}
          /\ readOnly \in BOOLEAN /\ dirtyMarked \in BOOLEAN
          /\ nextSeq \in Nat
          /\ targets \in Seq(TargetList) /\ Len(targets) <= MAX_TARGETS
          /\ revokes \subseteq Targets /\ Cardinality(revokes) <= MAX_REVOKES
          /\ index \in Nat
          /\ outcome \in {"none", "ok", "failed"}
          /\ stages \in 0..MaxStages /\ crashes \in 0..MaxCrashes /\ faults \in 0..MaxFaults

-----------------------------------------------------------------------------
(* The promise: wfs_journal.h and section 14 of docs/WFS_WASMOS_FILE_SYSTEM.md. *)

\* A mount would replay the open transaction from the media.
Durable == /\ media[SUPER].state = "DIRTY"
           /\ Committed(media)
           /\ LogTargets(media) = targets
           /\ LogRevokes(media) = revokes

\* What a mount would serve of each block that is not free.  Of a volume that says
\* ERROR it promises nothing: no mount replays its log and fsck does not read it, so
\* a transaction that a failed replay left half checkpointed stays so.
Lost == media[SUPER].state = "ERROR"
StableContent == [t \in Targets |-> IF Lost \/ t \in freed THEN FREE ELSE Recovered(media, t)]

\* What the open transaction makes of the blocks it stages, and how far it is.
PendingContent == IF pc \notin TxnSteps THEN [t \in {} |-> {}]
                  ELSE [t \in {targets[i].target : i \in DOMAIN targets} |->
                          cache[journal_redirect(t)].content]
Dropped == IF pc \notin TxnSteps THEN {} ELSE revokes
TxnStatus == IF pc \notin TxnSteps THEN "idle" ELSE IF Durable THEN "committed" ELSE "open"

Volume == INSTANCE AtomicVolume WITH
    stable <- StableContent, pending <- PendingContent, dropped <- Dropped, status <- TxnStatus,
    lost <- Lost

\* Whatever a power cut, a driver death or a failed request interrupts, what a
\* later mount recovers changes only by one whole transaction at a time, each
\* built on the ones before it, and wfs_txn_close reports success only for a
\* transaction that recovery would find (wfs_txn_commit_task, steps 1 to 7).  It
\* ends where ERROR reaches the disk: from then on nothing is written any more,
\* and nothing is promised of what a mount serves (wfs_super_parse).
VolumeSpec == Volume!Spec

\* A crash before the COMMIT block is written discards the transaction: once the
\* descriptor is out, no mount of the media may take an older COMMIT for its own
\* (wfs_journal.h, "a crash before step 3 discards the transaction").
EarlyCrashDiscards == pc = "barrier_log" => ~Durable

\* A mount that hands the volume out for writing has applied exactly what the
\* disk had committed, neither less (a committed transaction skipped) nor more
\* (an abandoned one resurrected): wfs_mount_task's "there is no third state".
ServedIsStable == (pc = "idle" /\ ~readOnly)
                     => \A t \in Targets \ freed : cache[t].content = Recovered(media, t)

\* A replay never writes a block that a committed transaction has freed, for the
\* block may hold a file's data by then (wfs_free_blocks_task, section 18).
ReplaySparesFreed ==
    [][pc = "replay_image" => \A t \in freed : cache'[t] = cache[t] \/ pc' = "down"]_vars

\* A volume that says ERROR says so until it is repaired: no later mount writes
\* over the mark (wfs_super_parse, wfs_super_write_task).
ErrorIsSticky == [][media[SUPER].state = "ERROR" => media'[SUPER].state = "ERROR"]_vars

\* Without a failed request no crash costs the volume its writability.
CrashKeepsWritable == faults = 0 => ~readOnly
=============================================================================
