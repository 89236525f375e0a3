------------------------ MODULE ResourcesPersistence ------------------------
(***************************************************************************)
(* The background writer of a session's resources (persistence.rs): a      *)
(* FIFO channel of snapshots, a debounced one that is held back, and the   *)
(* file, replaced by rename.  Snapshots are serialised and enqueued under  *)
(* the resources lock, so the order of the channel is the order of the     *)
(* states.  A crash is a crash of the process: what was renamed stays.     *)
(***************************************************************************)
EXTENDS Naturals, Sequences

CONSTANTS Snapshot,     \* what Resources::serialize can return
          NoSnapshot    \* pending == None

ASSUME NoSnapshotAssumption == NoSnapshot \notin Snapshot

VARIABLES chan,     \* ResourcesPersistenceCommand: the channel
          held,     \* writer_loop's pending
          disk,     \* the state file
          reply     \* the oneshot of the caller that awaits SaveAndFlush

pvars == <<chan, held, disk, reply>>

Command == [op : {"Save", "SaveAndFlush"}, snap : Snapshot, waited : BOOLEAN]

PersistTypeOK ==
    /\ chan \in Seq(Command)
    /\ held \in Snapshot \cup {NoSnapshot}
    /\ disk \in Snapshot
    /\ reply \in {"none", "ok", "err"}

PersistInit == chan = <<>> /\ held = NoSnapshot /\ disk \in Snapshot /\ reply = "none"

Enqueue(op, s) ==
    chan' = Append(chan, [op |-> op, snap |-> s, waited |-> op = "SaveAndFlush"])

Save(s) == Enqueue("Save", s) /\ UNCHANGED <<held, disk, reply>>

\* enqueue_save_and_flush; the caller awaits its own oneshot.
SaveAndFlush(s) == Enqueue("SaveAndFlush", s) /\ reply' = "none" /\ UNCHANGED <<held, disk>>

\* A receiver dropped by a timeout or a cancellation: the command stays.
StopWaiting ==
    /\ chan' = [i \in 1..Len(chan) |-> [chan[i] EXCEPT !.waited = FALSE]]
    /\ reply' = "none"
    /\ UNCHANGED <<held, disk>>

----------------------------------------------------------------------------
(* writer_loop.                                                            *)

RecvSave ==
    /\ chan # <<>> /\ Head(chan).op = "Save"
    /\ held' = Head(chan).snap
    /\ chan' = Tail(chan)
    /\ UNCHANGED <<disk, reply>>

\* Faulty: the held snapshot survives the flush and is written after it.
RecvFlushKeepsHeld(landed, ok) ==
    /\ chan # <<>> /\ Head(chan).op = "SaveAndFlush"
    /\ ok => landed
    /\ chan' = Tail(chan)
    /\ disk' = IF landed THEN Head(chan).snap ELSE disk
    /\ reply' = IF Head(chan).waited THEN (IF ok THEN "ok" ELSE "err") ELSE reply
    /\ UNCHANGED held

\* The held snapshot is older and is dropped even if the write fails.
\* write_json_durable can fail before the rename, or after it when the
\* directory cannot be synced.
RecvSaveAndFlush(landed, ok) ==
    /\ chan # <<>> /\ Head(chan).op = "SaveAndFlush"
    /\ ok => landed
    /\ held' = NoSnapshot
    /\ chan' = Tail(chan)
    /\ disk' = IF landed THEN Head(chan).snap ELSE disk
    /\ reply' = IF Head(chan).waited THEN (IF ok THEN "ok" ELSE "err") ELSE reply

\* The debounce tick, and the end of the channel at a graceful stop.
WriteHeld(landed) ==
    /\ held # NoSnapshot
    /\ held' = NoSnapshot
    /\ disk' = IF landed THEN held ELSE disk
    /\ UNCHANGED <<chan, reply>>

Writer ==
    \/ RecvSave
    \/ \E landed, ok \in BOOLEAN : RecvSaveAndFlush(landed, ok)
    \/ \E landed \in BOOLEAN : WriteHeld(landed)

WriterCrash == chan' = <<>> /\ held' = NoSnapshot /\ reply' = "none" /\ UNCHANGED disk

PersistNext ==
    \/ \E s \in Snapshot : Save(s) \/ SaveAndFlush(s)
    \/ StopWaiting \/ Writer \/ WriterCrash

PersistSpec == PersistInit /\ [][PersistNext]_pvars

----------------------------------------------------------------------------
\* What may still be written, oldest first.
Issued ==
    (IF held = NoSnapshot THEN <<>> ELSE <<held>>)
        \o [i \in 1..Len(chan) |-> chan[i].snap]

Register == INSTANCE SnapshotRegister WITH stored <- disk, later <- Issued, told <- reply

\* The writer never puts an older snapshot back over a newer one, whatever
\* interleaving of debounced saves, flushes, failed writes, abandoned waits
\* and crashes: it implements the register its callers assume.
ImplementsRegister == Register!Spec
============================================================================
