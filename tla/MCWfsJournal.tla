---------------------------- MODULE MCWfsJournal ----------------------------
(* Instances of WfsJournal for TLC. *)
EXTENDS WfsJournal

AnyStep == Steps \cup {"mark_dirty", "stage", "sync"}

\* Every step whose failure the driver handles without giving the sequence of
\* a possibly durable transaction to the next, or leaving a CLEAN volume that
\* it believes marked dirty.
HandledFaults == AnyStep \ {"commit", "barrier_commit", "sync", "barrier_sync"}

\* A driver that dies after writing its commit record and before flushing it
\* leaves a transaction that only the device's cache has committed.
HandledDeaths == Steps \ {"barrier_commit"}

\* A perfect disk, and a driver that lives as long as the machine.
NoStep == {}
=============================================================================
