--------------------------- MODULE MCBackupService ---------------------------
(* BackupService with the channel sets TLC checks it with. *)
EXTENDS BackupService

\* Every change is a new channel set.
Distinct == [v \in Versions |-> v]

\* A channel opens and closes again: odd versions have one set, even ones the other.
Returning == [v \in Versions |-> v % 2]
=============================================================================
