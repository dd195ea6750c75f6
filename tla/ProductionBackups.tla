-------------------------- MODULE ProductionBackups --------------------------
(***************************************************************************)
(* The base backups of the production database.  A timer takes one a day,  *)
(* a pilot takes its own and restores it.  A job of either kind pushes a   *)
(* backup, names the last one listed, waits until the log it switched is   *)
(* archived, writes evidence of the backup, and only then deletes old ones.*)
(* Timer, pilots and whatever else switches the log share the storage, the *)
(* archiver and the files of evidence.                                     *)
(*                                                                         *)
(* A segment of the log is its number; a backup bears the number of the    *)
(* segment it starts in.                                                   *)
(***************************************************************************)
EXTENDS Nothing, Naturals, FiniteSets, FiniteSetsExt

CONSTANTS
  DailyJobs,    \* Runs of the timer's script.
  PilotJobs,    \* Pilots, all of one run identifier, as when one is run again.
  Retain,       \* Backups that are kept.
  LastSegment,  \* Bound: segments of the log.
  MaxAnew       \* Bound: times the host is prepared anew.

ASSUME BackupsAssumption ==
  /\ {Retain, LastSegment, MaxAnew} \subseteq Nat /\ Retain > 0 /\ LastSegment > 0
  /\ DailyJobs \cap PilotJobs = {} /\ None \notin Nat

VARIABLES
  store,   \* [taken, kept]: backups that were completed, those not deleted.
  pushing, \* The backup being taken: [id, by]; the database lets one at a time.
  wal,     \* [open, archived]: the segment written to, the last one archived.
  shelf,   \* [notes, selected, anew]: the evidence of backups, the pilot's choice.
  volume,  \* What the volume of the restore holds: None, 0 (empty) or a backup.
  job      \* DailyJobs \cup PilotJobs: see BackupsTypeOK.

backupsVars == <<store, pushing, wal, shelf, volume, job>>

Jobs == DailyJobs \cup PilotJobs

Fresh == [at |-> "idle", id |-> 0, switched |-> 0, listed |-> {}, noted |-> 0, bound |-> 0, seen |-> 0]

Ended == {"passed", "failed", "killed"}

BackupsInit ==
  /\ store = [taken |-> {}, kept |-> {}] /\ pushing = None
  /\ wal = [open |-> 1, archived |-> 0]
  /\ shelf = [notes |-> {}, selected |-> None, anew |-> 0]
  /\ volume = None
  /\ job = [j \in Jobs |-> Fresh]

Backup(id) == CHOOSE b \in store.taken : b.id = id

Goes(j, from, to) == job[j].at = from /\ job' = [job EXCEPT ![j].at = to]

(***************************************************************************)
(* The log.                                                                *)
(***************************************************************************)

\* A segment is full, a minute has passed, or somebody else switched it.
SegmentFills ==
  /\ wal.open < LastSegment /\ wal' = [wal EXCEPT !.open = @ + 1]
  /\ UNCHANGED <<store, pushing, shelf, volume, job>>

\* archive_command, in the order of the log.
Archives ==
  /\ wal.archived + 1 < wal.open /\ wal' = [wal EXCEPT !.archived = @ + 1]
  /\ UNCHANGED <<store, pushing, shelf, volume, job>>

(***************************************************************************)
(* A base backup: the container goes on when the job that started it dies. *)
(***************************************************************************)

Pushes(j) ==
  /\ pushing = None /\ wal.open < LastSegment
  /\ Goes(j, "idle", "pushing")
  /\ wal' = [wal EXCEPT !.open = @ + 1]
  /\ pushing' = [id |-> wal.open + 1, by |-> j]
  /\ UNCHANGED <<store, shelf, volume>>

PushEnds ==
  /\ pushing # None
  /\ LET waits == job[pushing.by].at = "pushing" IN
       \/ /\ wal.open < LastSegment
          /\ store' = [taken |-> store.taken \cup {[id |-> pushing.id, stop |-> wal.open]},
                       kept |-> store.kept \cup {pushing.id}]
          /\ wal' = [wal EXCEPT !.open = @ + 1]
          /\ job' = IF waits THEN [job EXCEPT ![pushing.by].at = "pushed"] ELSE job
       \/ /\ job' = IF waits THEN [job EXCEPT ![pushing.by].at = "failed"] ELSE job
          /\ UNCHANGED <<store, wal>>
  /\ pushing' = None
  /\ UNCHANGED <<shelf, volume>>

\* The last of the list, whoever took it.
NamesLast(j) ==
  /\ job[j].at = "pushed"
  /\ job' = [job EXCEPT ![j].at = "named", ![j].id = Max(store.kept)]
  /\ UNCHANGED <<store, pushing, wal, shelf, volume>>

SwitchesWal(j) ==
  /\ job[j].at = "named" /\ wal.open < LastSegment
  /\ job' = [job EXCEPT ![j].at = "switched", ![j].switched = wal.open]
  /\ wal' = [wal EXCEPT !.open = @ + 1]
  /\ UNCHANGED <<store, pushing, shelf, volume>>

\* Fault: the archiver is believed to have come as far.
BelievesArchived(j) == TRUE

\* The very segment is the last one archived; when a later one is, it times out.
SeesArchived(j) == wal.archived = job[j].switched

ObservesArchived(j) ==
  /\ SeesArchived(j) /\ Goes(j, "switched", "archived")
  /\ UNCHANGED <<store, pushing, wal, shelf, volume>>

(***************************************************************************)
(* Evidence.                                                               *)
(***************************************************************************)

\* The metadata of the named backup, its log archived; the objects in the storage.
ListsInventory(j) ==
  /\ job[j].at = "archived" /\ job[j].id \in store.kept
  /\ job[j].switched >= Backup(job[j].id).stop
  /\ job' = [job EXCEPT ![j].at = "listed", ![j].listed = store.kept]
  /\ UNCHANGED <<store, pushing, wal, shelf, volume>>

\* Every object listed is read; the file must not be there.
WritesEvidence(j) ==
  /\ job[j].listed \subseteq store.kept /\ job[j].id \notin shelf.notes
  /\ job[j].at = "listed"
  /\ job' = [job EXCEPT ![j] = [Fresh EXCEPT !.at = "noted", !.noted = job[j].id]]
  /\ shelf' = [shelf EXCEPT !.notes = @ \cup {job[j].id}]
  /\ UNCHANGED <<store, pushing, wal, volume>>

\* Fault: the evidence chosen by another pilot is replaced.
ReplacesChoice == TRUE

NothingSelected == shelf.selected = None

PublishesSelected(j) ==
  /\ j \in PilotJobs /\ NothingSelected
  /\ Goes(j, "noted", "selected")
  /\ shelf' = [shelf EXCEPT !.selected = job[j].noted]
  /\ UNCHANGED <<store, pushing, wal, volume>>

\* Fault: whatever is selected will do.
AnySelected(j) == shelf.selected # None

\* The file has the checksum the pilot was told when it was sealed.
SelectedIsIts(j) == shelf.selected = job[j].noted

ObservesSealed(j) ==
  /\ SelectedIsIts(j) /\ Goes(j, "selected", "observed")
  /\ UNCHANGED <<store, pushing, wal, shelf, volume>>

(***************************************************************************)
(* The restore of the selected backup, on a volume of its own.             *)
(***************************************************************************)

InspectsVolume(j) ==
  /\ job[j].at = "observed" /\ SelectedIsIts(j) /\ volume = None
  /\ job' = [job EXCEPT ![j].at = "absent", ![j].bound = shelf.selected]
  /\ UNCHANGED <<store, pushing, wal, shelf, volume>>

\* docker volume create does not mind one that is there.
CreatesVolume(j) ==
  /\ Goes(j, "absent", "created")
  /\ volume' = IF volume = None THEN 0 ELSE volume
  /\ UNCHANGED <<store, pushing, wal, shelf>>

\* Fault: a volume that holds another restore is restored over.
AnyVolume == volume # None

VolumeIsEmpty == volume = 0

Restores(j) ==
  /\ VolumeIsEmpty /\ job[j].bound \in store.kept
  /\ Goes(j, "created", "restored")
  /\ volume' = job[j].bound
  /\ UNCHANGED <<store, pushing, wal, shelf>>

\* The database that comes up is looked at, and the volume removed.
Verifies(j) ==
  /\ job[j].at = "restored" /\ volume \notin {None, 0}
  /\ job' = [job EXCEPT ![j].at = "verified", ![j].seen = volume]
  /\ volume' = None
  /\ UNCHANGED <<store, pushing, wal, shelf>>

(***************************************************************************)
(* Retention.                                                              *)
(***************************************************************************)

\* Fault: old backups go before the new one has evidence.
DeletesEarly(j) ==
  job[j].at = IF j \in DailyJobs THEN "archived" ELSE "verified"

\* authorizeBackupRetention, with the evidence the job wrote or selected.
Authorized(j) ==
  IF j \in DailyJobs THEN job[j].at = "noted" ELSE job[j].at = "verified" /\ SelectedIsIts(j)

\* Fault: one backup fewer is kept.
KeepsFewer == {id \in store.kept : Cardinality({k \in store.kept : k > id}) < Retain - 1}

\* delete retain FULL
Newest == {id \in store.kept : Cardinality({k \in store.kept : k > id}) < Retain}

Retains(j) ==
  /\ Authorized(j)
  /\ store' = [store EXCEPT !.kept = Newest]
  /\ job' = [job EXCEPT ![j].at = "passed"]
  /\ UNCHANGED <<pushing, wal, shelf, volume>>

(***************************************************************************)
(* A failure removes the volume the job believes it created; a crash does not. *)
(***************************************************************************)

JobFails(j) ==
  /\ job[j].at \notin Ended \cup {"idle"}
  /\ job' = [job EXCEPT ![j] = [Fresh EXCEPT !.at = "failed", !.noted = job[j].noted]]
  /\ volume' = IF job[j].at \in {"created", "restored"} THEN None ELSE volume
  /\ UNCHANGED <<store, pushing, wal, shelf>>

JobDies(j) ==
  /\ job[j].at \notin Ended \cup {"idle"}
  /\ job' = [job EXCEPT ![j] = [Fresh EXCEPT !.at = "killed", !.noted = job[j].noted]]
  /\ UNCHANGED <<store, pushing, wal, shelf, volume>>

\* Another host with the same storage: the evidence and the volume are gone.
HostAnew ==
  /\ shelf.anew < MaxAnew
  /\ shelf' = [notes |-> {}, selected |-> None, anew |-> shelf.anew + 1] /\ volume' = None
  /\ UNCHANGED <<store, pushing, wal, job>>

BackupStep(j) ==
  \/ Pushes(j) \/ NamesLast(j) \/ SwitchesWal(j) \/ ObservesArchived(j)
  \/ ListsInventory(j) \/ WritesEvidence(j) \/ PublishesSelected(j) \/ ObservesSealed(j)
  \/ InspectsVolume(j) \/ CreatesVolume(j) \/ Restores(j) \/ Verifies(j) \/ Retains(j)
  \/ JobFails(j) \/ JobDies(j)

BackupsNext == SegmentFills \/ Archives \/ PushEnds \/ HostAnew \/ \E j \in Jobs : BackupStep(j)

BackupsSpec == BackupsInit /\ [][BackupsNext]_backupsVars

(***************************************************************************)
(* Properties.                                                             *)
(***************************************************************************)

\* The state is of its types.
BackupsTypeOK ==
  /\ store.kept \subseteq {b.id : b \in store.taken}
  /\ \A b \in store.taken : b.id <= b.stop /\ b.stop < wal.open
  /\ wal.open \in 1 .. LastSegment /\ wal.archived \in 0 .. wal.open - 1
  /\ pushing = None \/ pushing.id <= wal.open
  /\ shelf.notes \subseteq 1 .. LastSegment /\ shelf.anew \in 0 .. MaxAnew
  /\ volume = None \/ volume \in 0 .. LastSegment
  /\ \A j \in Jobs : {job[j].id, job[j].switched, job[j].noted} \subseteq 0 .. LastSegment

\* A backup with evidence is complete, and the log it needs is in the archive.
EvidenceIsRestorable ==
  \A id \in shelf.notes : \E b \in store.taken : b.id = id /\ b.stop <= wal.archived

\* A pilot that passed has seen a restored database of the backup in its own evidence.
PassedIsRestored ==
  \A p \in PilotJobs : job[p].at = "passed" => job[p].seen = job[p].noted /\ job[p].bound = job[p].noted

\* One pilot at a time relies on what is selected, unless the host was prepared anew.
OneSelects ==
  Cardinality({p \in PilotJobs : job[p].at \notin Ended /\ job[p].bound # 0}) <= 1 + shelf.anew
  /\ \A p \in PilotJobs : job[p].at = "passed" /\ shelf.anew = 0 => shelf.selected = job[p].noted

\* A backup with evidence is kept until enough others have followed it.
EvidencedIsKept ==
  \A j \in Jobs : job[j].noted # 0 =>
    \/ job[j].noted \in store.kept
    \/ Cardinality({b \in store.taken : b.id > job[j].noted}) >= Retain

\* Nothing is deleted that no later backup with evidence covers, unless by a job that
\* so many later backups have overtaken that its own is deleted too.
DeletedIsCovered ==
  \A b \in store.taken : b.id \notin store.kept =>
    \E j \in Jobs :
      /\ job[j].noted # 0
      /\ \/ job[j].noted > b.id
         \/ Cardinality({c \in store.taken : c.id > job[j].noted}) >= Retain

\* Whatever the timer, the pilots and the archiver do at once: evidence is of a backup
\* that can be restored, and backups are deleted only behind later ones with evidence.
BackupsPromise == EvidenceIsRestorable /\ EvidencedIsKept /\ DeletedIsCovered

\* A pilot that passed has restored what it selected, and nobody else had selected.
RestorePromise == PassedIsRestored /\ OneSelects
=============================================================================
