------------------------------- MODULE Backups -------------------------------
(***************************************************************************)
(* The backups of the MySQL database in MongoDB: the periodic backup that  *)
(* the cron of every worker runs, its retention, and the restore that the  *)
(* command line runs in a process of its own.                              *)
(*                                                                         *)
(* runExclusive excludes the operations of one process; those of several   *)
(* meet in the database and the store.  A backup is a file, uploaded first,*)
(* and a metadata document that names it.  Of what the database and a dump *)
(* hold only counts whether something is missing.  Rolling backups, which  *)
(* nothing writes, are left out, and every backup has the scope "full".    *)
(***************************************************************************)
EXTENDS FiniteSets, Naturals

CONSTANTS
    Ops,         \* bound: operations under way at a time
    Process,     \* Process[o]: the process that runs o
    Restores,    \* the operations of the command line; the others are cron's
    Keep,        \* BACKUP_PERIODIC_RETENTION_COUNT
    MaxBackups   \* bound: backups taken

ASSUME BackupsAssumption ==
    /\ Restores \subseteq Ops
    /\ Keep \in Nat
    /\ MaxBackups \in Nat

VARIABLES
    whole,      \* the database holds all of the data
    taken,      \* how many backups have been uploaded
    good,       \* the backups that hold all of the data
    periodic,   \* the backups of type periodic_full; the others are pre_restore
    files,      \* those whose file is in GridFS
    listed,     \* those whose metadata is in the collection
    busy,       \* the processes whose operationActive is set
    op,         \* op[o]: how far the operation o is
    stored,     \* history: the periodic backups that have ever been listed
    rescue,     \* history: the backup that the restore that made the database
                \* incomplete had taken before; 0: none
    met         \* history: two restores have overlapped

backups == <<taken, good, periodic, files, listed>>
vars == <<whole, backups, busy, op, stored, rescue, met>>

-----------------------------------------------------------------------------
Backup == 1..MaxBackups \* in the order of createdAt

\* Where an operation waits: for the dump to end (seen: what it read was whole when
\* it began; torn: tables were dropped since), for the metadata of the file saved,
\* for the list of old backups, for the deletes of metadata (docs) and files
\* (orphans); a restore of target also for the test of its file, and to clear and
\* refill the database.  What has failed may still save its metadata.
Idle == [at |-> "idle"]
Dumping == [at : {"dump"}, seen : BOOLEAN, torn : BOOLEAN, target : Backup \cup {0}]
Saving == [at : {"insert", "failed"}, saved : Backup, target : Backup \cup {0}]
Pruning == [at : {"list"}] \cup [at : {"delete"}, docs : SUBSET Backup, orphans : SUBSET Backup]
Restoring == [at : {"validate", "stream"}, target : Backup]
             \cup [at : {"clear"}, saved : Backup, target : Backup]

TypeOK ==
    /\ whole \in BOOLEAN
    /\ taken \in 0..MaxBackups
    /\ good \subseteq 1..taken
    /\ periodic \subseteq 1..taken
    /\ files \subseteq 1..taken
    /\ listed \subseteq files
    /\ busy \subseteq {Process[o] : o \in Ops}
    /\ op \in [Ops -> {Idle} \cup Dumping \cup Saving \cup Pruning \cup Restoring]
    /\ stored \subseteq periodic
    /\ rescue \in 0..taken
    /\ met \in BOOLEAN

Init ==
    /\ whole = TRUE
    /\ taken = 0
    /\ good = {}
    /\ periodic = {}
    /\ files = {}
    /\ listed = {}
    /\ busy = {}
    /\ op = [o \in Ops |-> Idle]
    /\ stored = {}
    /\ rescue = 0
    /\ met = FALSE

-----------------------------------------------------------------------------
Waiting(o, at) == op[o].at = at
Become(o, s) == op' = [op EXCEPT ![o] = s]

\* runExclusive, its beginning and its end.
Enter(o) == Process[o] \notin busy /\ busy' = busy \cup {Process[o]}
Leave(o) == Become(o, Idle) /\ busy' = busy \ {Process[o]}

\* What is still to be deleted.
ToDelete(o, docs, orphans) == Become(o, [at |-> "delete", docs |-> docs, orphans |-> orphans])

Dump(o, target) == Become(o, [at |-> "dump", seen |-> whole, torn |-> FALSE, target |-> target])

\* The n newest of the backups bs.
Newest(bs, n) == {b \in bs : Cardinality({d \in bs : d > b}) < n}

-----------------------------------------------------------------------------
(* Taking a backup *)

\* runPeriodicTick of a worker's cron.
RunPeriodic(o) ==
    /\ o \notin Restores
    /\ Waiting(o, "idle")
    /\ Enter(o)
    /\ Dump(o, 0)
    /\ UNCHANGED <<whole, backups, stored, rescue, met>>

\* The output of mysqldump has ended and is in a file.
Upload(o, isGood, next) ==
    /\ taken < MaxBackups
    /\ taken' = taken + 1
    /\ good' = IF isGood THEN good \cup {taken + 1} ELSE good
    /\ periodic' = IF o \in Restores THEN periodic ELSE periodic \cup {taken + 1}
    /\ files' = files \cup {taken + 1}
    /\ Become(o, [at |-> next, saved |-> taken + 1, target |-> op[o].target])
    /\ UNCHANGED <<whole, listed, stored, rescue, met>>

\* mysqldump exits with 0; of tables that were dropped meanwhile it may miss some.
DumpSucceeds(o) ==
    /\ Waiting(o, "dump")
    /\ \E isGood \in {op[o].seen, op[o].seen /\ ~op[o].torn} : Upload(o, isGood, "insert")
    /\ UNCHANGED busy

\* Variant with a bug: the exit status of mysqldump is not awaited.
DumpFailsUnseen(o) ==
    /\ Waiting(o, "dump")
    /\ Upload(o, FALSE, "insert")
    /\ UNCHANGED busy

\* mysqldump fails: what it has written is in a file all the same.  runBackup throws,
\* and leaves storeBackup to go on.
DumpFails(o) ==
    /\ Waiting(o, "dump")
    /\ Upload(o, FALSE, "failed")
    /\ busy' = busy \ {Process[o]}

\* storeBackup inserts the metadata.
Insert(o) ==
    LET b == op[o].saved IN
    /\ Waiting(o, "insert") \/ Waiting(o, "failed")
    /\ listed' = listed \cup {b}
    /\ stored' = stored \cup ({b} \cap periodic)
    /\ Become(o, CASE Waiting(o, "failed") -> Idle
                   [] Waiting(o, "insert") /\ o \in Restores ->
                        [at |-> "clear", saved |-> b, target |-> op[o].target]
                   [] OTHER -> [at |-> "list"])
    /\ UNCHANGED <<whole, taken, good, periodic, files, busy, rescue, met>>

-----------------------------------------------------------------------------
(* deleteOldPeriodicBackups *)

\* Variant with a bug: the oldest are kept.
FindNew(o) ==
    LET all == listed \cap periodic
        docs == Newest(all, Cardinality(all) - Keep) IN
    /\ Waiting(o, "list")
    /\ IF Cardinality(all) <= Keep
       THEN Leave(o)
       ELSE ToDelete(o, docs, {}) /\ UNCHANGED busy
    /\ UNCHANGED <<whole, backups, stored, rescue, met>>

FindOld(o) ==
    LET docs == (listed \cap periodic) \ Newest(listed \cap periodic, Keep) IN
    /\ Waiting(o, "list")
    /\ IF docs = {}
       THEN Leave(o)
       ELSE ToDelete(o, docs, {}) /\ UNCHANGED busy
    /\ UNCHANGED <<whole, backups, stored, rescue, met>>

\* Variant with a bug: the file is deleted, and the metadata stays.
DeleteMetadataNever(o, b) ==
    /\ Waiting(o, "delete") /\ b \in op[o].docs
    /\ files' = files \ {b}
    /\ ToDelete(o, op[o].docs \ {b}, op[o].orphans)
    /\ UNCHANGED <<whole, taken, good, periodic, listed, busy, stored, rescue, met>>

\* The deletes of the backups run side by side: the metadata ...
DeleteMetadata(o, b) ==
    /\ Waiting(o, "delete") /\ b \in op[o].docs
    /\ listed' = listed \ {b}
    /\ ToDelete(o, op[o].docs \ {b}, op[o].orphans \cup {b})
    /\ UNCHANGED <<whole, taken, good, periodic, files, busy, stored, rescue, met>>

\* ... then the file.
DeleteFile(o, b) ==
    /\ Waiting(o, "delete") /\ b \in op[o].orphans
    /\ files' = files \ {b}
    /\ ToDelete(o, op[o].docs, op[o].orphans \ {b})
    /\ UNCHANGED <<whole, taken, good, periodic, listed, busy, stored, rescue, met>>

\* One fails and is given up; the others go on.
SkipDelete(o, b) ==
    /\ Waiting(o, "delete") /\ b \in op[o].docs \cup op[o].orphans
    /\ ToDelete(o, op[o].docs \ {b}, op[o].orphans \ {b})
    /\ UNCHANGED <<whole, backups, busy, stored, rescue, met>>

EndDelete(o) ==
    /\ Waiting(o, "delete") /\ op[o].docs \cup op[o].orphans = {}
    /\ Leave(o)
    /\ UNCHANGED <<whole, backups, stored, rescue, met>>

-----------------------------------------------------------------------------
(* restoreFromBackup *)

\* A listed backup is chosen, by its id or as the latest.
BeginRestore(o, b) ==
    /\ o \in Restores /\ b \in listed
    /\ Waiting(o, "idle")
    /\ Enter(o)
    /\ Become(o, [at |-> "validate", target |-> b])
    /\ met' = (met \/ \E r \in Restores : ~Waiting(r, "idle"))
    /\ UNCHANGED <<whole, backups, stored, rescue>>

\* A stream of the file of b, with the checksum that its metadata has.
Readable(b) == b \in files

\* Its file can be read, and the pre-restore backup begins.
Validate(o) ==
    LET b == op[o].target IN
    /\ Waiting(o, "validate")
    /\ IF Readable(b) THEN Dump(o, b) /\ UNCHANGED busy ELSE Leave(o)
    /\ UNCHANGED <<whole, backups, stored, rescue, met>>

\* clearSchema
Clear(o) ==
    /\ Waiting(o, "clear")
    /\ whole' = FALSE
    /\ rescue' = IF whole THEN op[o].saved ELSE rescue
    /\ op' = [p \in Ops |-> CASE p = o -> [at |-> "stream", target |-> op[o].target]
                              [] Waiting(p, "dump") -> [op[p] EXCEPT !.torn = TRUE]
                              [] OTHER -> op[p]]
    /\ UNCHANGED <<backups, busy, stored, met>>

\* restoreFromStream: the file may have gone meanwhile.
Refill(o) ==
    LET b == op[o].target IN
    /\ Waiting(o, "stream")
    /\ whole' = IF Readable(b) THEN b \in good ELSE whole
    /\ Leave(o)
    /\ UNCHANGED <<backups, stored, rescue, met>>

\* An operation that ends before its time: its process dies or a call fails.
Abort(o) ==
    /\ ~Waiting(o, "idle")
    /\ IF Waiting(o, "failed") THEN Become(o, Idle) /\ UNCHANGED busy ELSE Leave(o)
    /\ UNCHANGED <<whole, backups, stored, rescue, met>>

-----------------------------------------------------------------------------
Delete(o) == \E b \in Backup : DeleteMetadata(o, b) \/ DeleteFile(o, b) \/ SkipDelete(o, b)

Next == \E o \in Ops :
    \/ RunPeriodic(o)
    \/ DumpSucceeds(o) \/ DumpFails(o) \/ Insert(o)
    \/ FindOld(o) \/ Delete(o) \/ EndDelete(o)
    \/ \E b \in listed : BeginRestore(o, b)
    \/ Validate(o) \/ Clear(o) \/ Refill(o)
    \/ Abort(o)

Spec == Init /\ [][Next]_vars

-----------------------------------------------------------------------------
(* Properties *)

\* "A pre-restore backup will be created automatically": backup/cli.ts:111.  While the
\* database is incomplete, after a restore that failed or crashed, the backup that
\* was taken before it was cleared is whole, and neither its metadata nor its file
\* has been deleted; but for restores that overlap.
Recoverable == whole \/ met \/ rescue \in good \cap listed \cap files

\* Of all periodic backups there ever were, the newest are kept, however many workers
\* take and delete them at a time and whichever deletes fail.
NewestKept == Newest(stored, Keep) \subseteq listed

=============================================================================
