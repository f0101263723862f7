--------------------------- MODULE Backups_proofs ---------------------------
(***************************************************************************)
(* Proofs about Backups, for any operations and processes, any number of   *)
(* backups and any number of them to keep.                                 *)
(***************************************************************************)
EXTENDS Backups, FiniteSetTheorems, TLAPS

States == {Idle} \cup Dumping \cup Saving \cup Pruning \cup Restoring

-----------------------------------------------------------------------------
(* The newest backups of a set *)

\* A smaller set keeps those of the newest that it has.
LEMMA NewestOfFewer ==
    ASSUME NEW S, IsFiniteSet(S), NEW T \in SUBSET S, NEW n \in Nat,
           NEW b \in T \cap Newest(S, n)
    PROVE  b \in Newest(T, n)
<1> DEFINE Later(bs) == {d \in bs : d > b}
<1>1. Later(S) \in SUBSET S /\ Later(T) \in SUBSET Later(S)
  OBVIOUS
<1>2. IsFiniteSet(Later(S)) /\ IsFiniteSet(Later(T))
  BY <1>1, FS_Subset
<1>3. Cardinality(Later(T)) <= Cardinality(Later(S))
  BY <1>1, <1>2, FS_Subset
<1>4. Cardinality(Later(T)) \in Nat /\ Cardinality(Later(S)) \in Nat
  BY <1>2, FS_CardinalityType
<1>5. Cardinality(Later(S)) < n
  BY DEF Newest
<1> QED
  BY <1>3, <1>4, <1>5 DEF Newest

LEMMA BackupsFinite ==
    ASSUME TypeOK
    PROVE  IsFiniteSet(stored) /\ stored \subseteq 1..taken
<1>1. taken \in Int /\ stored \subseteq 1..taken
  BY BackupsAssumption DEF TypeOK
<1>2. IsFiniteSet(1..taken)
  BY <1>1, FS_Interval
<1> QED
  BY <1>1, <1>2, FS_Subset

-----------------------------------------------------------------------------
(* Type correctness, and what is saved and deleted *)

\* A backup that has been uploaded and is not listed yet is one operation's alone.
SavingInv ==
    /\ \A o \in Ops : op[o].at \in {"insert", "failed"} =>
          /\ op[o].saved \in files \ (listed \cup stored)
          /\ op[o].saved \in periodic <=> o \notin Restores
    /\ \A o, p \in Ops :
          (o # p /\ {op[o].at, op[p].at} \subseteq {"insert", "failed"}) => op[o].saved # op[p].saved

\* What is deleted has been stored, is no longer listed when its file goes, and is
\* not among the newest.
DeletingInv ==
    \A o \in Ops : op[o].at = "delete" =>
        /\ op[o].docs \cup op[o].orphans \subseteq stored
        /\ op[o].orphans \cap listed = {}
        /\ op[o].docs \cap Newest(stored, Keep) = {}

\* A restore knows what it restores when it takes its backup,
\* and when it clears the database, which backup that was.
TargetInv ==
    /\ \A o \in Restores : op[o].at \in {"dump", "insert"} => op[o].target \in Backup
    /\ \A o \in Ops : op[o].at = "clear" => op[o].saved \in 1..taken

StoreInv ==
    /\ TypeOK
    /\ TargetInv
    /\ listed \cap periodic \subseteq stored
    /\ SavingInv
    /\ DeletingInv
    /\ NewestKept

LEMMA StoreInit == Init => StoreInv
<1> SUFFICES ASSUME Init PROVE StoreInv
    OBVIOUS
<1>1. op \in [Ops -> States] /\ \A o \in Ops : op[o].at = "idle"
  BY DEF Init, States, Idle
<1>2. TypeOK
  <2>1. op \in [Ops -> States]
    BY <1>1
  <2>2. taken \in 0..MaxBackups /\ rescue \in 0..taken
    BY BackupsAssumption DEF Init
  <2>3. whole \in BOOLEAN /\ met \in BOOLEAN
    BY DEF Init
  <2> QED
    BY <2>1, <2>2, <2>3 DEF Init, TypeOK, States
<1>3. Newest(stored, Keep) = {}
  BY DEF Init, Newest
<1> QED
  BY <1>1, <1>2, <1>3, BackupsAssumption DEF Init, StoreInv, TargetInv, SavingInv, DeletingInv, NewestKept

\* The record of an operation that waits.
LEMMA Kinds ==
    ASSUME TypeOK, NEW o \in Ops
    PROVE  /\ op[o] \in States
           /\ op[o].at = "dump" => op[o] \in Dumping
           /\ op[o].at \in {"insert", "failed"} => op[o] \in Saving
           /\ op[o].at = "delete" => op[o] \in [at : {"delete"}, docs : SUBSET Backup, orphans : SUBSET Backup]
           /\ op[o].at \in {"validate", "stream"} => op[o] \in [at : {"validate", "stream"}, target : Backup]
           /\ op[o].at = "clear" => op[o] \in [at : {"clear"}, saved : Backup, target : Backup]
<1>1. op[o] \in States
  BY DEF TypeOK, States
<1> QED
  BY <1>1 DEF States, Idle, Dumping, Saving, Pruning, Restoring

\* An operation goes on to s and nothing else changes but who is busy.
LEMMA BecomeKeeps ==
    ASSUME StoreInv, NEW o \in Ops, NEW s \in States, Become(o, s),
           s.at \notin {"insert", "failed", "clear", "delete"},
           (s.at = "dump" /\ o \in Restores) => s.target \in Backup,
           UNCHANGED <<backups, stored>>, busy' \subseteq {Process[p] : p \in Ops},
           whole' \in BOOLEAN, rescue' \in 0..taken, met' \in BOOLEAN
    PROVE  StoreInv'
<1> USE DEF StoreInv
<1>1. op' \in [Ops -> States] /\ op'[o] = s /\ \A p \in Ops \ {o} : op'[p] = op[p]
  BY DEF Become, TypeOK, States
<1>2. TypeOK'
  BY <1>1 DEF TypeOK, States, backups
<1>3. SavingInv' /\ DeletingInv'
  BY <1>1 DEF SavingInv, DeletingInv, backups, Newest
<1>4. TargetInv'
  BY <1>1, BackupsAssumption DEF TargetInv, backups
<1> QED
  BY <1>2, <1>3, <1>4 DEF NewestKept, backups, Newest

-----------------------------------------------------------------------------
(* Each action keeps the store *)

LEMMA UploadKeeps ==
    ASSUME StoreInv, NEW o \in Ops, Waiting(o, "dump"), busy' \subseteq busy,
           NEW isGood \in BOOLEAN, NEW next \in {"insert", "failed"}, Upload(o, isGood, next)
    PROVE  StoreInv'
<1> USE DEF StoreInv
<1> DEFINE b == taken + 1
           s == [at |-> next, saved |-> b, target |-> op[o].target]
<1>1. op[o] \in Dumping
  BY Kinds DEF Waiting
<1>2. taken \in Nat /\ b \in Backup /\ taken' = b /\ b \notin 1..taken /\ 1..taken \subseteq 1..b /\ b \in 1..b
  BY BackupsAssumption DEF Upload, TypeOK, Backup
<1>3. s \in Saving
  BY <1>1, <1>2 DEF Saving, Dumping
<1>4. op' \in [Ops -> States] /\ op'[o] = s /\ \A p \in Ops \ {o} : op'[p] = op[p]
  BY <1>3 DEF Upload, Become, TypeOK, States
<1>5. /\ good' \subseteq good \cup {b}
      /\ periodic' = IF o \in Restores THEN periodic ELSE periodic \cup {b}
      /\ files' = files \cup {b} /\ listed' = listed /\ stored' = stored
      /\ whole' = whole /\ rescue' = rescue /\ met' = met
  BY DEF Upload
<1>6. TypeOK'
  <2>1. good' \subseteq 1..b /\ periodic' \subseteq 1..b /\ files' \subseteq 1..b
    BY <1>2, <1>5 DEF TypeOK
  <2>2. taken' \in 0..MaxBackups /\ rescue' \in 0..taken'
    BY <1>2, <1>5, BackupsAssumption DEF TypeOK, Backup
  <2>3. listed' \subseteq files' /\ stored' \subseteq periodic'
    BY <1>5 DEF TypeOK
  <2> QED
    BY <1>2, <1>4, <1>5, <2>1, <2>2, <2>3 DEF TypeOK, States
<1>7. (listed \cup stored \cup files \cup periodic) \subseteq 1..taken
  BY DEF TypeOK
<1>8. listed' \cap periodic' \subseteq stored'
  BY <1>2, <1>5, <1>7
<1>9. SavingInv'
  <2>1. ASSUME NEW p \in Ops, op'[p].at \in {"insert", "failed"}
        PROVE  /\ op'[p].saved \in files' \ (listed' \cup stored')
               /\ op'[p].saved \in periodic' <=> p \notin Restores
    <3>1. CASE p = o
      BY <1>2, <1>4, <1>5, <1>7, <3>1
    <3>2. CASE p # o
      BY <1>2, <1>4, <1>5, <1>7, <2>1, <3>2 DEF SavingInv
    <3> QED
      BY <3>1, <3>2
  <2>2. ASSUME NEW p \in Ops, NEW q \in Ops, p # q,
               {op'[p].at, op'[q].at} \subseteq {"insert", "failed"}
        PROVE  op'[p].saved # op'[q].saved
    <3>1. \A r \in Ops \ {o} : op'[r].at \in {"insert", "failed"} => op'[r].saved \in 1..taken
      BY <1>4, <1>7 DEF SavingInv
    <3> QED
      BY <1>2, <1>4, <2>2, <3>1 DEF SavingInv
  <2> QED
    BY <2>1, <2>2 DEF SavingInv
<1>10. DeletingInv'
  BY <1>4, <1>5 DEF DeletingInv, Newest
<1>11. NewestKept'
  BY <1>5 DEF NewestKept, Newest
<1>12. TargetInv'
  BY <1>1, <1>2, <1>4, BackupsAssumption DEF TargetInv, Waiting
<1> QED
  BY <1>6, <1>8, <1>9, <1>10, <1>11, <1>12

LEMMA InsertKeeps ==
    ASSUME StoreInv, NEW o \in Ops, Insert(o)
    PROVE  StoreInv'
<1> USE DEF StoreInv
<1> DEFINE b == op[o].saved
<1>1. op[o] \in Saving /\ op[o].at \in {"insert", "failed"}
  BY Kinds DEF Insert, Waiting
<1>2. b \in Backup /\ b \in files \ (listed \cup stored)
  BY <1>1 DEF SavingInv, Saving
<1>3. op' \in [Ops -> States]
      /\ op'[o].at \in {"idle", "clear", "list"} /\ (op'[o].at = "clear" => op'[o].saved = b)
      /\ \A p \in Ops \ {o} : op'[p] = op[p]
  <2> DEFINE s == CASE Waiting(o, "failed") -> Idle
                    [] Waiting(o, "insert") /\ o \in Restores ->
                         [at |-> "clear", saved |-> b, target |-> op[o].target]
                    [] OTHER -> [at |-> "list"]
  <2>1. s \in States /\ s.at \in {"idle", "clear", "list"} /\ (s.at = "clear" => s.saved = b)
    <3>1. CASE op[o].at = "failed"
      BY <3>1 DEF Waiting, States, Idle
    <3>2. CASE op[o].at = "insert" /\ o \in Restores
      <4>1. op[o].target \in Backup
        BY <3>2 DEF TargetInv
      <4> QED
        BY <1>1, <1>2, <3>2, <4>1 DEF Waiting, States, Restoring, Saving
    <3>3. CASE op[o].at = "insert" /\ o \notin Restores
      BY <3>3 DEF Waiting, States, Pruning
    <3> QED
      BY <1>1, <3>1, <3>2, <3>3
  <2>2. Become(o, s)
    BY DEF Insert
  <2> QED
    BY <2>1, <2>2 DEF Become, TypeOK, States
<1>4. /\ listed' = listed \cup {b} /\ stored' = stored \cup ({b} \cap periodic)
      /\ taken' = taken /\ good' = good /\ periodic' = periodic /\ files' = files
      /\ busy' = busy /\ whole' = whole /\ rescue' = rescue /\ met' = met
  BY DEF Insert
<1>5. TypeOK'
  BY <1>2, <1>3, <1>4 DEF TypeOK, States
<1>6. listed' \cap periodic' \subseteq stored'
  BY <1>4
<1>7. SavingInv'
  <2>1. \A p \in Ops \ {o} : op[p].at \in {"insert", "failed"} => op[p].saved # b
    BY <1>1 DEF SavingInv
  <2> QED
    BY <1>3, <1>4, <2>1 DEF SavingInv
<1>8. Newest(stored', Keep) \subseteq Newest(stored, Keep) \cup {b}
  <2>1. IsFiniteSet(stored')
    BY <1>4, BackupsFinite, FS_AddElement, FS_EmptySet, FS_Union, FS_Singleton, FS_Intersection
  <2>2. stored \in SUBSET stored' /\ stored' \subseteq stored \cup {b}
    BY <1>4
  <2>3. Keep \in Nat
    BY BackupsAssumption
  <2>4. \A d \in Newest(stored', Keep) : d \in stored => d \in Newest(stored, Keep)
    BY <2>1, <2>2, <2>3, NewestOfFewer
  <2> QED
    BY <2>2, <2>4 DEF Newest
<1>9. DeletingInv'
  BY <1>2, <1>3, <1>4, <1>8 DEF DeletingInv
<1>10. NewestKept'
  BY <1>4, <1>8 DEF NewestKept
<1>11. TargetInv'
  BY <1>2, <1>3, <1>4, BackupsAssumption DEF TargetInv, TypeOK
<1> QED
  BY <1>5, <1>6, <1>7, <1>9, <1>10, <1>11

\* An operation goes on with the deletes that the sets docs and orphans name.
LEMMA PruneKeeps ==
    ASSUME StoreInv, NEW o \in Ops,
           NEW docs \in SUBSET stored, NEW orphans \in SUBSET stored,
           docs \cap Newest(stored, Keep) = {}, orphans \cap listed' = {},
           ToDelete(o, docs, orphans),
           busy' = busy, UNCHANGED <<whole, taken, good, periodic, stored, rescue, met>>,
           listed' \in SUBSET listed, files' \in SUBSET files, listed' \subseteq files',
           NewestKept',
           \A p \in Ops : op[p].at \in {"insert", "failed"} => op[p].saved \in files'
    PROVE  StoreInv'
<1> USE DEF StoreInv
<1>1. stored \subseteq Backup
  <2>1. \A i \in 1..taken : i \in Backup
    BY BackupsAssumption DEF TypeOK, Backup
  <2> QED
    BY <2>1 DEF TypeOK
<1>2. [at |-> "delete", docs |-> docs, orphans |-> orphans] \in States
  BY <1>1 DEF States, Pruning
<1>3. op' \in [Ops -> States]
      /\ op'[o] = [at |-> "delete", docs |-> docs, orphans |-> orphans]
      /\ \A p \in Ops \ {o} : op'[p] = op[p]
  BY <1>2 DEF TypeOK, States, ToDelete, Become
<1>4. TypeOK'
  BY <1>3 DEF TypeOK, States
<1>5. listed' \cap periodic' \subseteq stored'
  OBVIOUS
<1>6. SavingInv'
  BY <1>3 DEF SavingInv
<1>7. DeletingInv'
  BY <1>3 DEF DeletingInv, Newest
<1>8. TargetInv'
  BY <1>3, BackupsAssumption DEF TargetInv
<1> QED
  BY <1>4, <1>5, <1>6, <1>7, <1>8

LEMMA FindOldKeeps ==
    ASSUME StoreInv, NEW o \in Ops, FindOld(o)
    PROVE  StoreInv'
<1> USE DEF StoreInv
<1> DEFINE all == listed \cap periodic
           docs == all \ Newest(all, Keep)
<1>1. CASE docs = {}
  <2>1. Idle \in States /\ Idle.at = "idle" /\ Become(o, Idle) /\ busy' = busy \ {Process[o]}
    BY <1>1 DEF FindOld, Leave, States, Idle
  <2>2. whole' \in BOOLEAN /\ rescue' \in 0..taken /\ met' \in BOOLEAN
        /\ UNCHANGED <<backups, stored>> /\ busy \subseteq {Process[p] : p \in Ops}
    BY DEF FindOld, TypeOK
  <2> QED
    BY <2>1, <2>2, BecomeKeeps
<1>2. CASE docs # {}
  <2>1. all \in SUBSET stored
    OBVIOUS
  <2>2. IsFiniteSet(stored) /\ Keep \in Nat
    BY BackupsFinite, BackupsAssumption
  <2>3. docs \cap Newest(stored, Keep) = {}
    BY <2>1, <2>2, NewestOfFewer
  <2>4. docs \in SUBSET stored
    BY <2>1
  <2>5. /\ ToDelete(o, docs, {})
        /\ busy' = busy /\ UNCHANGED <<whole, backups, stored, rescue, met>>
    BY <1>2 DEF FindOld
  <2>6. listed' = listed /\ files' = files /\ UNCHANGED <<whole, taken, good, periodic, stored, rescue, met>>
    BY <2>5 DEF backups
  <2>7. NewestKept' /\ listed' \subseteq files'
    BY <2>6 DEF NewestKept, Newest, TypeOK
  <2>8. \A p \in Ops : op[p].at \in {"insert", "failed"} => op[p].saved \in files'
    BY <2>6 DEF SavingInv
  <2> HIDE DEF docs
  <2> QED
    BY <2>3, <2>4, <2>5, <2>6, <2>7, <2>8, PruneKeeps
<1> QED
  BY <1>1, <1>2

LEMMA DeleteKeeps ==
    ASSUME StoreInv, NEW o \in Ops, Delete(o)
    PROVE  StoreInv'
<1> USE DEF StoreInv
<1>1. PICK b \in Backup : DeleteMetadata(o, b) \/ DeleteFile(o, b) \/ SkipDelete(o, b)
  BY DEF Delete
<1>2. /\ op[o] \in [at : {"delete"}, docs : SUBSET Backup, orphans : SUBSET Backup]
      /\ op[o].at = "delete"
  BY <1>1, Kinds DEF DeleteMetadata, DeleteFile, SkipDelete, Waiting
<1>3. /\ op[o].docs \in SUBSET stored /\ op[o].orphans \in SUBSET stored
      /\ op[o].docs \cap Newest(stored, Keep) = {} /\ op[o].orphans \cap listed = {}
  BY <1>2 DEF DeletingInv
<1>4. \A p \in Ops : op[p].at \in {"insert", "failed"} => op[p].saved \in files \ stored
  BY DEF SavingInv
<1>5. CASE DeleteMetadata(o, b)
  <2> DEFINE docs == op[o].docs \ {b}
             orphans == op[o].orphans \cup {b}
  <2>1. ToDelete(o, docs, orphans)
    BY <1>5 DEF DeleteMetadata
  <2>2. b \in op[o].docs /\ listed' = listed \ {b} /\ files' = files /\ busy' = busy
        /\ UNCHANGED <<whole, taken, good, periodic, stored, rescue, met>>
    BY <1>5 DEF DeleteMetadata
  <2>3. docs \in SUBSET stored /\ orphans \in SUBSET stored
        /\ docs \cap Newest(stored, Keep) = {} /\ orphans \cap listed' = {}
    BY <1>3, <2>2
  <2>4. NewestKept' /\ listed' \subseteq files' /\ listed' \in SUBSET listed
    BY <1>3, <2>2 DEF NewestKept, Newest, TypeOK
  <2> HIDE DEF docs, orphans
  <2> QED
    BY <1>4, <2>1, <2>2, <2>3, <2>4, PruneKeeps
<1>6. CASE DeleteFile(o, b)
  <2> DEFINE orphans == op[o].orphans \ {b}
  <2>1. ToDelete(o, op[o].docs, orphans)
    BY <1>6 DEF DeleteFile
  <2>2. b \in op[o].orphans /\ files' = files \ {b} /\ listed' = listed /\ busy' = busy
        /\ UNCHANGED <<whole, taken, good, periodic, stored, rescue, met>>
    BY <1>6 DEF DeleteFile
  <2>3. orphans \in SUBSET stored /\ orphans \cap listed' = {}
    BY <1>3, <2>2
  <2>4. NewestKept' /\ listed' \subseteq files' /\ files' \in SUBSET files
    BY <1>3, <2>2 DEF NewestKept, Newest, TypeOK
  <2>5. \A p \in Ops : op[p].at \in {"insert", "failed"} => op[p].saved \in files'
    BY <1>3, <1>4, <2>2
  <2> HIDE DEF orphans
  <2> QED
    BY <1>3, <2>1, <2>2, <2>3, <2>4, <2>5, PruneKeeps
<1>7. CASE SkipDelete(o, b)
  <2> DEFINE docs == op[o].docs \ {b}
             orphans == op[o].orphans \ {b}
  <2>1. ToDelete(o, docs, orphans)
    BY <1>7 DEF SkipDelete
  <2>2. listed' = listed /\ files' = files /\ busy' = busy
        /\ UNCHANGED <<whole, taken, good, periodic, stored, rescue, met>>
    BY <1>7 DEF SkipDelete, backups
  <2>3. docs \in SUBSET stored /\ orphans \in SUBSET stored
        /\ docs \cap Newest(stored, Keep) = {} /\ orphans \cap listed' = {}
    BY <1>3, <2>2
  <2>4. NewestKept' /\ listed' \subseteq files'
    BY <2>2 DEF NewestKept, Newest, TypeOK
  <2> HIDE DEF docs, orphans
  <2> QED
    BY <1>4, <2>1, <2>2, <2>3, <2>4, PruneKeeps
<1> QED
  BY <1>1, <1>5, <1>6, <1>7

\* What clearSchema changes of the operations.
LEMMA ClearOps ==
    ASSUME TypeOK, NEW o \in Ops, Clear(o)
    PROVE  /\ op' \in [Ops -> States]
           /\ op'[o] = [at |-> "stream", target |-> op[o].target]
           /\ \A p \in Ops \ {o} :
                /\ op[p].at = "dump" => op'[p].at = "dump" /\ op'[p].target = op[p].target
                /\ op[p].at # "dump" => op'[p] = op[p]
<1>1. op[o] \in [at : {"clear"}, saved : Backup, target : Backup]
  BY Kinds DEF Clear, Waiting
<1>2. [at |-> "stream", target |-> op[o].target] \in States
  BY <1>1 DEF States, Restoring
<1>3. \A p \in Ops : op[p].at = "dump" =>
         /\ [op[p] EXCEPT !.torn = TRUE] \in States
         /\ [op[p] EXCEPT !.torn = TRUE].at = "dump"
         /\ [op[p] EXCEPT !.torn = TRUE].target = op[p].target
  <2> SUFFICES ASSUME NEW p \in Ops, op[p].at = "dump"
               PROVE  /\ [op[p] EXCEPT !.torn = TRUE] \in Dumping
                      /\ [op[p] EXCEPT !.torn = TRUE].at = "dump"
                      /\ [op[p] EXCEPT !.torn = TRUE].target = op[p].target
      BY DEF States
  <2>1. op[p] \in Dumping
    BY Kinds
  <2> QED
    BY <2>1 DEF Dumping
<1>4. \A p \in Ops : op[p] \in States
  BY DEF TypeOK, States
<1>5. op' = [p \in Ops |-> CASE p = o -> [at |-> "stream", target |-> op[o].target]
                              [] op[p].at = "dump" -> [op[p] EXCEPT !.torn = TRUE]
                              [] OTHER -> op[p]]
  BY <1>1 DEF Clear, Waiting
<1>6. op'[o] = [at |-> "stream", target |-> op[o].target]
  BY <1>1, <1>5
<1>7. \A p \in Ops \ {o} : op'[p] = IF op[p].at = "dump" THEN [op[p] EXCEPT !.torn = TRUE] ELSE op[p]
  BY <1>5
<1>8. op' = [p \in Ops |-> op'[p]]
  BY <1>5
<1>9. \A p \in Ops : op'[p] \in States
  BY <1>2, <1>3, <1>4, <1>6, <1>7
<1> QED
  BY <1>3, <1>6, <1>7, <1>8, <1>9

LEMMA ClearKeeps ==
    ASSUME StoreInv, NEW o \in Ops, Clear(o)
    PROVE  StoreInv'
<1> USE DEF StoreInv
<1> DEFINE s == [at |-> "stream", target |-> op[o].target]
<1>1. op[o].at = "clear" /\ op[o] \in [at : {"clear"}, saved : Backup, target : Backup]
  BY Kinds DEF Clear, Waiting
<1>2. /\ op' \in [Ops -> States] /\ op'[o].at = "stream"
      /\ \A p \in Ops \ {o} :
            /\ op[p].at = "dump" => op'[p].at = "dump" /\ op'[p].target = op[p].target
            /\ op[p].at # "dump" => op'[p] = op[p]
  <2>1. op'[o] = [at |-> "stream", target |-> op[o].target]
    BY ClearOps
  <2>2. op'[o].at = "stream"
    BY <2>1
  <2> QED
    BY <2>2, ClearOps
<1>3. UNCHANGED <<taken, good, periodic, files, listed, busy, stored, met>> /\ whole' = FALSE
  BY DEF Clear, backups
<1>4. rescue' \in 0..taken
  <2>1. rescue' \in {op[o].saved, rescue} /\ op[o].saved \in 1..taken
    BY <1>1 DEF Clear, TargetInv
  <2> QED
    BY <2>1, BackupsAssumption DEF TypeOK
<1>5. TypeOK'
  BY <1>2, <1>3, <1>4 DEF TypeOK, States
<1>6. SavingInv'
  <2>1. \A p \in Ops : op'[p].at \in {"insert", "failed"} => p # o /\ op'[p] = op[p]
    BY <1>2
  <2> QED
    BY <1>3, <2>1 DEF SavingInv
<1>7. DeletingInv'
  <2>1. \A p \in Ops : op'[p].at = "delete" => op'[p] = op[p]
    BY <1>2
  <2> QED
    BY <1>3, <2>1 DEF DeletingInv, Newest
<1>8. TargetInv'
  BY <1>2, <1>3, BackupsAssumption DEF TargetInv
<1> QED
  BY <1>3, <1>5, <1>6, <1>7, <1>8 DEF NewestKept, Newest

\* An operation that ends.
LEMMA LeaveKeeps ==
    ASSUME StoreInv, NEW o \in Ops, Become(o, Idle), busy' \subseteq busy,
           UNCHANGED <<backups, stored, rescue, met>>, whole' \in BOOLEAN
    PROVE  StoreInv'
<1>1. Idle \in States /\ Idle.at = "idle"
  BY DEF States, Idle
<1>2. busy' \subseteq {Process[p] : p \in Ops} /\ rescue' \in 0..taken /\ met' \in BOOLEAN
  BY DEF StoreInv, TypeOK
<1> QED
  BY <1>1, <1>2, BecomeKeeps

\* An operation that begins a dump.
LEMMA DumpKeeps ==
    ASSUME StoreInv, NEW o \in Ops, NEW target \in Backup \cup {0}, Dump(o, target),
           o \in Restores => target \in Backup, busy' \subseteq {Process[p] : p \in Ops},
           UNCHANGED <<whole, backups, stored, rescue, met>>
    PROVE  StoreInv'
<1> DEFINE s == [at |-> "dump", seen |-> whole, torn |-> FALSE, target |-> target]
<1>1. s \in States /\ s.at = "dump" /\ s.target = target
  BY DEF StoreInv, TypeOK, States, Dumping
<1>2. whole' \in BOOLEAN /\ rescue' \in 0..taken /\ met' \in BOOLEAN
  BY DEF StoreInv, TypeOK
<1>3. Become(o, s)
  BY DEF Dump
<1> HIDE DEF s
<1> QED
  BY <1>1, <1>2, <1>3, BecomeKeeps

LEMMA StoreStep == StoreInv /\ [Next]_vars => StoreInv'
<1> SUFFICES ASSUME StoreInv, [Next]_vars PROVE StoreInv'
    OBVIOUS
<1>1. CASE UNCHANGED vars
  BY <1>1 DEF vars, backups, StoreInv, TypeOK, TargetInv, SavingInv, DeletingInv, NewestKept, Newest
<1>2. ASSUME NEW o \in Ops, RunPeriodic(o)
      PROVE  StoreInv'
  <2>1. busy' \subseteq {Process[p] : p \in Ops}
    BY <1>2 DEF RunPeriodic, Enter, StoreInv, TypeOK
  <2>2. Dump(o, 0) /\ o \notin Restores /\ UNCHANGED <<whole, backups, stored, rescue, met>>
    BY <1>2 DEF RunPeriodic
  <2> QED
    BY <2>1, <2>2, DumpKeeps
<1>3. ASSUME NEW o \in Ops, DumpSucceeds(o) \/ DumpFails(o)
      PROVE  StoreInv'
  <2>1. Waiting(o, "dump") /\ busy' \subseteq busy
    BY <1>3 DEF DumpSucceeds, DumpFails
  <2>2. op[o] \in Dumping
    BY <2>1, Kinds DEF StoreInv, Waiting
  <2>3. op[o].seen \in BOOLEAN /\ op[o].torn \in BOOLEAN
    BY <2>2 DEF Dumping
  <2>4. \E isGood \in BOOLEAN, next \in {"insert", "failed"} : Upload(o, isGood, next)
    <3>1. CASE DumpSucceeds(o)
      <4>1. PICK isGood \in {op[o].seen, op[o].seen /\ ~op[o].torn} : Upload(o, isGood, "insert")
        BY <3>1 DEF DumpSucceeds
      <4>2. isGood \in BOOLEAN
        BY <2>3, <4>1
      <4> QED
        BY <4>1, <4>2
    <3>2. CASE DumpFails(o)
      BY <3>2 DEF DumpFails
    <3> QED
      BY <1>3, <3>1, <3>2
  <2> QED
    BY <2>1, <2>4, UploadKeeps
<1>4. ASSUME NEW o \in Ops, NEW b \in listed, BeginRestore(o, b)
      PROVE  StoreInv'
  <2> DEFINE s == [at |-> "validate", target |-> b]
  <2>1. b \in Backup
    <3>1. b \in 1..taken /\ taken \in 0..MaxBackups
      BY DEF StoreInv, TypeOK
    <3> QED
      BY <3>1, BackupsAssumption DEF Backup
  <2>2. s \in States /\ s.at = "validate" /\ Become(o, s)
    BY <1>4, <2>1 DEF States, Restoring, BeginRestore
  <2>3. busy' \subseteq {Process[p] : p \in Ops} /\ UNCHANGED <<backups, stored>>
        /\ whole' \in BOOLEAN /\ rescue' \in 0..taken /\ met' \in BOOLEAN
    BY <1>4 DEF BeginRestore, Enter, StoreInv, TypeOK
  <2> HIDE DEF s
  <2> QED
    BY <2>2, <2>3, BecomeKeeps
<1>5. ASSUME NEW o \in Ops, Validate(o)
      PROVE  StoreInv'
  <2>1. op[o].target \in Backup
    BY <1>5, Kinds DEF Validate, Waiting, StoreInv
  <2>2. CASE Readable(op[o].target)
    <3>1. Dump(o, op[o].target) /\ busy' = busy /\ UNCHANGED <<whole, backups, stored, rescue, met>>
      BY <1>5, <2>2 DEF Validate
    <3>2. busy' \subseteq {Process[p] : p \in Ops}
      BY <3>1 DEF StoreInv, TypeOK
    <3> QED
      BY <2>1, <3>1, <3>2, DumpKeeps
  <2>3. CASE ~Readable(op[o].target)
    <3>1. Become(o, Idle) /\ busy' \subseteq busy /\ UNCHANGED <<whole, backups, stored, rescue, met>>
      BY <1>5, <2>3 DEF Validate, Leave
    <3> QED
      BY <3>1, LeaveKeeps DEF StoreInv, TypeOK
  <2> QED
    BY <2>2, <2>3
<1>6. ASSUME NEW o \in Ops, EndDelete(o) \/ Refill(o) \/ Abort(o)
      PROVE  StoreInv'
  <2>1. Become(o, Idle) /\ busy' \subseteq busy /\ UNCHANGED <<backups, stored, rescue, met>>
    BY <1>6 DEF EndDelete, Refill, Abort, Leave
  <2>2. whole' \in BOOLEAN
    <3>1. whole \in BOOLEAN
      BY DEF StoreInv, TypeOK
    <3>2. CASE EndDelete(o) \/ Abort(o)
      BY <3>1, <3>2 DEF EndDelete, Abort
    <3>3. CASE Refill(o)
      <4>1. CASE Readable(op[o].target)
        <5>1. whole' = (op[o].target \in good)
          BY <3>3, <4>1 DEF Refill
        <5> QED
          BY <5>1
      <4>2. CASE ~Readable(op[o].target)
        <5>1. whole' = whole
          BY <3>3, <4>2 DEF Refill
        <5> QED
          BY <3>1, <5>1
      <4> QED
        BY <4>1, <4>2
    <3> QED
      BY <1>6, <3>2, <3>3
  <2> QED
    BY <2>1, <2>2, LeaveKeeps
<1> QED
  BY <1>1, <1>2, <1>3, <1>4, <1>5, <1>6, InsertKeeps, FindOldKeeps, DeleteKeeps, ClearKeeps DEF Next

\* Whatever workers and restores do at a time, the state is well-typed.
THEOREM TypeCorrect == Spec => []TypeOK
<1>1. StoreInv => TypeOK
  BY DEF StoreInv
<1> QED
  BY <1>1, StoreInit, StoreStep, PTL DEF Spec

\* Retention never deletes one of the newest periodic backups, however many workers
\* take backups and delete old ones at a time and whichever deletes fail.
THEOREM NewestAreKept == Spec => []NewestKept
<1>1. StoreInv => NewestKept
  BY DEF StoreInv
<1> QED
  BY <1>1, StoreInit, StoreStep, PTL DEF Spec

-----------------------------------------------------------------------------
(* What a restore may rely on *)

\* Only restores validate, clear and refill.
RestoresOnly ==
    \A o \in Ops : op[o].at \in {"validate", "clear", "stream"} => o \in Restores

\* Unless two restores have met, one at a time is under way.
OneRestore ==
    met \/ \A o, p \in Restores : o # p => op[o].at = "idle" \/ op[p].at = "idle"

\* A pre-restore backup is listed when the database is cleared, and retention, which
\* deletes periodic ones, is no danger to it.
SavedKept == \A o \in Ops : op[o].at = "clear" => op[o].saved \in listed \ periodic

\* The pre-restore backup of a whole database is whole.
SavedWhole ==
    \A o \in Restores : met \/ ~whole \/
        /\ op[o].at = "dump" => op[o].seen = TRUE /\ op[o].torn = FALSE
        /\ op[o].at \in {"insert", "clear"} => op[o].saved \in good

\* A database that is being refilled is not whole.
RefilledIsNotWhole == \A o \in Ops : op[o].at = "stream" => met \/ ~whole

\* And its pre-restore backup is there.
RescueKept == whole \/ met \/ rescue \in (good \cap listed) \ periodic

RestoreInv ==
    RestoresOnly /\ OneRestore /\ SavedKept /\ SavedWhole /\ RefilledIsNotWhole /\ RescueKept

LEMMA RestoreInit == Init => RestoreInv
<1> SUFFICES ASSUME Init PROVE RestoreInv
    OBVIOUS
<1>1. \A o \in Ops : op[o].at = "idle"
  BY DEF Init, Idle
<1>2. \A o \in Restores : op[o].at = "idle"
  BY <1>1, BackupsAssumption
<1>3. whole
  BY DEF Init
<1> QED
  BY <1>1, <1>2, <1>3 DEF RestoreInv, RestoresOnly, OneRestore, SavedKept, SavedWhole,
       RefilledIsNotWhole, RescueKept

\* An operation goes on to s, and whether the database is whole stays.
LEMMA GoesOn ==
    ASSUME StoreInv, RestoreInv, NEW o \in Ops, NEW s \in States, Become(o, s),
           s.at \notin {"validate", "insert", "clear", "stream"},
           (s.at # "idle" /\ o \in Restores) => op[o].at # "idle",
           (s.at = "dump" /\ o \in Restores) => s.seen = whole /\ s.torn = FALSE,
           UNCHANGED <<whole, good, periodic, rescue, met>>,
           listed' \subseteq listed, listed \ periodic \subseteq listed'
    PROVE  RestoreInv'
<1> USE DEF RestoreInv
<1>1. op'[o] = s /\ \A p \in Ops \ {o} : op'[p] = op[p]
  BY DEF Become, StoreInv, TypeOK
<1>2. RestoresOnly'
  BY <1>1 DEF RestoresOnly
<1>3. OneRestore'
  BY <1>1, BackupsAssumption DEF OneRestore
<1>4. SavedKept'
  BY <1>1 DEF SavedKept
<1>5. SavedWhole'
  <2> SUFFICES ASSUME NEW p \in Restores, ~met, whole
               PROVE  /\ op'[p].at = "dump" => op'[p].seen = TRUE /\ op'[p].torn = FALSE
                      /\ op'[p].at \in {"insert", "clear"} => op'[p].saved \in good
      BY DEF SavedWhole
  <2>1. CASE p = o
    BY <1>1, <2>1
  <2>2. CASE p # o
    BY <1>1, <2>2, BackupsAssumption DEF SavedWhole
  <2> QED
    BY <2>1, <2>2
<1>6. RefilledIsNotWhole'
  BY <1>1 DEF RefilledIsNotWhole
<1>7. RescueKept'
  BY DEF RescueKept
<1> QED
  BY <1>2, <1>3, <1>4, <1>5, <1>6, <1>7

LEMMA UploadRestores ==
    ASSUME StoreInv, RestoreInv, NEW o \in Ops, Waiting(o, "dump"),
           NEW isGood \in BOOLEAN, NEW next \in {"insert", "failed"}, Upload(o, isGood, next),
           (next = "insert" /\ op[o].seen = TRUE /\ op[o].torn = FALSE) => isGood
    PROVE  RestoreInv'
<1> USE DEF RestoreInv
<1> DEFINE b == taken + 1
<1>1. /\ op'[o].at = next /\ op'[o].saved = b /\ op[o].at = "dump"
      /\ \A p \in Ops \ {o} : op'[p] = op[p]
  BY DEF Upload, Become, StoreInv, TypeOK, Waiting
<1>2. /\ good' = IF isGood THEN good \cup {b} ELSE good
      /\ listed' = listed /\ periodic' \subseteq periodic \cup {b}
      /\ UNCHANGED <<whole, rescue, met>>
  BY DEF Upload
<1>3. b \notin listed
  <2>1. taken \in Nat /\ listed \subseteq 1..taken
    BY BackupsAssumption DEF StoreInv, TypeOK
  <2> QED
    BY <2>1
<1>4. RestoresOnly'
  BY <1>1 DEF RestoresOnly
<1>5. OneRestore'
  BY <1>1, <1>2, BackupsAssumption DEF OneRestore
<1>6. SavedKept'
  BY <1>1, <1>2, <1>3 DEF SavedKept
<1>7. SavedWhole'
  <2> SUFFICES ASSUME NEW p \in Restores, ~met, whole
               PROVE  /\ op'[p].at = "dump" => op'[p].seen = TRUE /\ op'[p].torn = FALSE
                      /\ op'[p].at \in {"insert", "clear"} => op'[p].saved \in good'
      BY <1>2 DEF SavedWhole
  <2>1. good \subseteq good' /\ (isGood => b \in good')
    BY <1>2
  <2>2. CASE p = o
    BY <1>1, <2>1, <2>2 DEF SavedWhole
  <2>3. CASE p # o
    BY <1>1, <2>1, <2>3, BackupsAssumption DEF SavedWhole
  <2> QED
    BY <2>2, <2>3
<1>8. RefilledIsNotWhole'
  BY <1>1, <1>2 DEF RefilledIsNotWhole
<1>9. RescueKept'
  <2>1. good \subseteq good'
    BY <1>2
  <2> QED
    BY <1>2, <1>3, <2>1 DEF RescueKept
<1> QED
  BY <1>4, <1>5, <1>6, <1>7, <1>8, <1>9

LEMMA InsertRestores ==
    ASSUME StoreInv, RestoreInv, NEW o \in Ops, Insert(o)
    PROVE  RestoreInv'
<1> USE DEF RestoreInv
<1> DEFINE b == op[o].saved
<1>1. op[o].at \in {"insert", "failed"} /\ op[o].at # "idle"
  BY DEF Insert, Waiting
<1>2. /\ \A p \in Ops \ {o} : op'[p] = op[p]
      /\ op'[o].at \in {"idle", "clear", "list"}
      /\ op'[o].at = "clear" => op[o].at = "insert" /\ o \in Restores /\ op'[o].saved = b
  <2>1. CASE op[o].at = "failed"
    BY <2>1 DEF Insert, Become, Waiting, Idle, StoreInv, TypeOK
  <2>2. CASE op[o].at = "insert" /\ o \in Restores
    BY <2>2 DEF Insert, Become, Waiting, StoreInv, TypeOK
  <2>3. CASE op[o].at = "insert" /\ o \notin Restores
    BY <2>3 DEF Insert, Become, Waiting, StoreInv, TypeOK
  <2> QED
    BY <1>1, <2>1, <2>2, <2>3
<1>3. listed' = listed \cup {b} /\ UNCHANGED <<whole, good, periodic, rescue, met>>
  BY DEF Insert
<1>4. o \in Restores => b \notin periodic
  BY <1>1 DEF StoreInv, SavingInv
<1>5. RestoresOnly'
  BY <1>2 DEF RestoresOnly
<1>6. OneRestore'
  BY <1>1, <1>2, <1>3, BackupsAssumption DEF OneRestore
<1>7. SavedKept'
  BY <1>2, <1>3, <1>4 DEF SavedKept
<1>8. SavedWhole'
  <2> SUFFICES ASSUME NEW p \in Restores, ~met, whole
               PROVE  /\ op'[p].at = "dump" => op'[p].seen = TRUE /\ op'[p].torn = FALSE
                      /\ op'[p].at \in {"insert", "clear"} => op'[p].saved \in good
      BY <1>3 DEF SavedWhole
  <2>1. CASE p = o
    BY <1>2, <2>1 DEF SavedWhole
  <2>2. CASE p # o
    BY <1>2, <2>2, BackupsAssumption DEF SavedWhole
  <2> QED
    BY <2>1, <2>2
<1>9. RefilledIsNotWhole'
  BY <1>2, <1>3 DEF RefilledIsNotWhole
<1>10. RescueKept'
  BY <1>3 DEF RescueKept
<1> QED
  BY <1>5, <1>6, <1>7, <1>8, <1>9, <1>10

LEMMA BeginRestores ==
    ASSUME StoreInv, RestoreInv, NEW o \in Ops, NEW b \in listed, BeginRestore(o, b)
    PROVE  RestoreInv'
<1> USE DEF RestoreInv
<1>1. /\ op'[o].at = "validate" /\ o \in Restores
      /\ \A p \in Ops \ {o} : op'[p] = op[p]
  BY DEF BeginRestore, Become, StoreInv, TypeOK
<1>2. UNCHANGED <<whole, good, listed, periodic, rescue>>
  BY DEF BeginRestore, backups
<1>3. met' \/ (~met /\ \A r \in Restores : op[r].at = "idle")
  BY DEF BeginRestore, Waiting
<1>4. met => met'
  BY DEF BeginRestore
<1>5. RestoresOnly'
  BY <1>1 DEF RestoresOnly
<1>6. OneRestore'
  BY <1>1, <1>3, BackupsAssumption DEF OneRestore
<1>7. SavedKept'
  BY <1>1, <1>2 DEF SavedKept
<1>8. SavedWhole'
  BY <1>1, <1>3, <1>2, BackupsAssumption DEF SavedWhole
<1>9. RefilledIsNotWhole'
  BY <1>1, <1>2, <1>4 DEF RefilledIsNotWhole
<1>10. RescueKept'
  BY <1>2, <1>4 DEF RescueKept
<1> QED
  BY <1>5, <1>6, <1>7, <1>8, <1>9, <1>10

LEMMA ClearRestores ==
    ASSUME StoreInv, RestoreInv, NEW o \in Ops, Clear(o)
    PROVE  RestoreInv'
<1> USE DEF RestoreInv
<1>1. op[o].at = "clear" /\ o \in Restores
  BY DEF Clear, Waiting, RestoresOnly
<1>2. op'[o] = [at |-> "stream", target |-> op[o].target]
      /\ \A p \in Ops \ {o} :
            /\ op[p].at = "dump" => op'[p].at = "dump" /\ op'[p].target = op[p].target
            /\ op[p].at # "dump" => op'[p] = op[p]
  BY ClearOps DEF StoreInv
<1>3. op'[o].at = "stream"
  BY <1>2
<1>4. ~whole' /\ UNCHANGED <<good, listed, periodic, met>>
      /\ rescue' = IF whole THEN op[o].saved ELSE rescue
  BY DEF Clear, backups
<1>5. RestoresOnly'
  BY <1>1, <1>2, <1>3 DEF RestoresOnly
<1>6. OneRestore'
  BY <1>1, <1>2, <1>4, BackupsAssumption DEF OneRestore
<1>7. SavedKept'
  BY <1>2, <1>3, <1>4 DEF SavedKept
<1>8. SavedWhole' /\ RefilledIsNotWhole'
  BY <1>4 DEF SavedWhole, RefilledIsNotWhole
<1>9. RescueKept'
  <2>1. CASE met
    BY <1>4, <2>1 DEF RescueKept
  <2>2. CASE ~met /\ whole
    <3>1. op[o].saved \in good /\ op[o].saved \in listed \ periodic
      BY <1>1, <2>2 DEF SavedWhole, SavedKept
    <3> QED
      BY <1>4, <2>2, <3>1 DEF RescueKept
  <2>3. CASE ~met /\ ~whole
    BY <1>4, <2>3 DEF RescueKept
  <2> QED
    BY <2>1, <2>2, <2>3
<1> QED
  BY <1>5, <1>6, <1>7, <1>8, <1>9

LEMMA RefillRestores ==
    ASSUME StoreInv, RestoreInv, NEW o \in Ops, Refill(o)
    PROVE  RestoreInv'
<1> USE DEF RestoreInv
<1>1. op[o].at = "stream" /\ o \in Restores
  BY DEF Refill, Waiting, RestoresOnly
<1>2. op'[o].at = "idle" /\ \A p \in Ops \ {o} : op'[p] = op[p]
  BY DEF Refill, Leave, Become, Idle, StoreInv, TypeOK
<1>3. UNCHANGED <<good, listed, periodic, rescue, met>>
  BY DEF Refill, backups
<1>4. met \/ \A p \in Restores : op'[p].at = "idle"
  BY <1>1, <1>2, BackupsAssumption DEF OneRestore
<1>5. RestoresOnly'
  BY <1>2 DEF RestoresOnly
<1>6. OneRestore'
  BY <1>3, <1>4 DEF OneRestore
<1>7. SavedKept'
  BY <1>2, <1>3 DEF SavedKept
<1>8. SavedWhole'
  BY <1>3, <1>4 DEF SavedWhole
<1>9. RefilledIsNotWhole'
  <2>1. \A p \in Ops : op'[p].at = "stream" => met
    BY <1>4, <1>5 DEF RestoresOnly
  <2> QED
    BY <1>3, <2>1 DEF RefilledIsNotWhole
<1>10. RescueKept'
  <2>1. met \/ ~whole
    BY <1>1 DEF RefilledIsNotWhole
  <2> QED
    BY <1>3, <2>1 DEF RescueKept
<1> QED
  BY <1>5, <1>6, <1>7, <1>8, <1>9, <1>10

LEMMA RestoreStep == StoreInv /\ RestoreInv /\ [Next]_vars => RestoreInv'
<1> SUFFICES ASSUME StoreInv, RestoreInv, [Next]_vars PROVE RestoreInv'
    OBVIOUS
<1>1. CASE UNCHANGED vars
  BY <1>1 DEF vars, backups, RestoreInv, RestoresOnly, OneRestore, SavedKept, SavedWhole,
       RefilledIsNotWhole, RescueKept
<1>2. ASSUME NEW o \in Ops, RunPeriodic(o)
      PROVE  RestoreInv'
  <2> DEFINE s == [at |-> "dump", seen |-> whole, torn |-> FALSE, target |-> 0]
  <2>1. s \in States /\ s.at = "dump" /\ o \notin Restores
    BY <1>2 DEF RunPeriodic, StoreInv, TypeOK, States, Dumping
  <2>2. Become(o, s) /\ UNCHANGED <<whole, good, periodic, listed, rescue, met>>
    BY <1>2 DEF RunPeriodic, Dump, backups
  <2> HIDE DEF s
  <2> QED
    BY <2>1, <2>2, GoesOn
<1>3. ASSUME NEW o \in Ops, DumpSucceeds(o)
      PROVE  RestoreInv'
  <2>1. PICK isGood \in {op[o].seen, op[o].seen /\ ~op[o].torn} : Upload(o, isGood, "insert")
    BY <1>3 DEF DumpSucceeds
  <2>2. op[o] \in Dumping /\ Waiting(o, "dump")
    BY <1>3, Kinds DEF DumpSucceeds, Waiting, StoreInv
  <2>3. isGood \in BOOLEAN
    BY <2>1, <2>2 DEF Dumping
  <2>4. (op[o].seen = TRUE /\ op[o].torn = FALSE) => isGood
    BY <2>1
  <2> QED
    BY <2>1, <2>2, <2>3, <2>4, UploadRestores
<1>4. ASSUME NEW o \in Ops, DumpFails(o)
      PROVE  RestoreInv'
  BY <1>4, UploadRestores DEF DumpFails
<1>5. ASSUME NEW o \in Ops, FindOld(o)
      PROVE  RestoreInv'
  <2> DEFINE docs == (listed \cap periodic) \ Newest(listed \cap periodic, Keep)
             s == [at |-> "delete", docs |-> docs, orphans |-> {}]
  <2>1. UNCHANGED <<whole, good, periodic, listed, rescue, met>> /\ op[o].at = "list"
    BY <1>5 DEF FindOld, backups, Waiting
  <2>2. CASE docs = {}
    <3>1. Idle \in States /\ Idle.at = "idle" /\ Become(o, Idle)
      BY <1>5, <2>2 DEF FindOld, Leave, States, Idle
    <3> QED
      BY <2>1, <3>1, GoesOn
  <2>3. CASE docs # {}
    <3>1. docs \in SUBSET Backup
      <4>1. listed \subseteq 1..taken /\ taken \in 0..MaxBackups
        BY DEF StoreInv, TypeOK
      <4>2. \A i \in 1..taken : i \in Backup
        BY <4>1, BackupsAssumption DEF Backup
      <4> QED
        BY <4>1, <4>2
    <3>2. Become(o, s)
      BY <1>5, <2>3 DEF FindOld, ToDelete
    <3> HIDE DEF docs
    <3>3. s \in States /\ s.at = "delete"
      BY <3>1 DEF States, Pruning
    <3> HIDE DEF s
    <3> QED
      BY <2>1, <3>2, <3>3, GoesOn
  <2> QED
    BY <2>2, <2>3
<1>6. ASSUME NEW o \in Ops, Delete(o)
      PROVE  RestoreInv'
  <2>1. PICK b \in Backup : DeleteMetadata(o, b) \/ DeleteFile(o, b) \/ SkipDelete(o, b)
    BY <1>6 DEF Delete
  <2>2. op[o].at = "delete" /\ op[o].docs \subseteq periodic
        /\ op[o] \in [at : {"delete"}, docs : SUBSET Backup, orphans : SUBSET Backup]
    BY <2>1, Kinds DEF DeleteMetadata, DeleteFile, SkipDelete, Waiting, StoreInv, DeletingInv, TypeOK
  <2>3. PICK docs \in SUBSET Backup, orphans \in SUBSET Backup : ToDelete(o, docs, orphans)
    <3>1. CASE DeleteMetadata(o, b)
      BY <2>2, <3>1 DEF DeleteMetadata
    <3>2. CASE DeleteFile(o, b)
      BY <2>2, <3>2 DEF DeleteFile
    <3>3. CASE SkipDelete(o, b)
      BY <2>2, <3>3 DEF SkipDelete
    <3> QED
      BY <2>1, <3>1, <3>2, <3>3
  <2> DEFINE s == [at |-> "delete", docs |-> docs, orphans |-> orphans]
  <2>4. s \in States /\ s.at = "delete" /\ Become(o, s)
    BY <2>3 DEF ToDelete, States, Pruning
  <2>5. UNCHANGED <<whole, good, periodic, rescue, met>>
    BY <2>1 DEF DeleteMetadata, DeleteFile, SkipDelete, backups
  <2>6. listed' \subseteq listed /\ listed \ periodic \subseteq listed'
    BY <2>1, <2>2 DEF DeleteMetadata, DeleteFile, SkipDelete, backups
  <2> HIDE DEF s
  <2> QED
    BY <2>2, <2>4, <2>5, <2>6, GoesOn
<1>7. ASSUME NEW o \in Ops, Validate(o)
      PROVE  RestoreInv'
  <2> DEFINE b == op[o].target
             s == [at |-> "dump", seen |-> whole, torn |-> FALSE, target |-> b]
  <2>1. op[o].at = "validate" /\ b \in Backup
    BY <1>7, Kinds DEF Validate, Waiting, StoreInv
  <2>2. UNCHANGED <<whole, good, periodic, listed, rescue, met>>
    BY <1>7 DEF Validate, backups
  <2>3. CASE Readable(b)
    <3>1. Become(o, s)
      BY <1>7, <2>3 DEF Validate, Dump
    <3>2. s \in States /\ s.at = "dump" /\ s.seen = whole /\ s.torn = FALSE
      BY <2>1 DEF States, Dumping, StoreInv, TypeOK
    <3> HIDE DEF s
    <3> QED
      BY <2>1, <2>2, <3>1, <3>2, GoesOn
  <2>4. CASE ~Readable(b)
    <3>1. Idle \in States /\ Idle.at = "idle" /\ Become(o, Idle)
      BY <1>7, <2>4 DEF Validate, Leave, States, Idle
    <3> QED
      BY <2>2, <3>1, GoesOn
  <2> QED
    BY <2>3, <2>4
<1>8. ASSUME NEW o \in Ops, EndDelete(o) \/ Abort(o)
      PROVE  RestoreInv'
  <2>1. Idle \in States /\ Idle.at = "idle" /\ Become(o, Idle)
    BY <1>8 DEF EndDelete, Abort, Leave, States, Idle
  <2>2. UNCHANGED <<whole, good, periodic, listed, rescue, met>>
    BY <1>8 DEF EndDelete, Abort, backups
  <2> QED
    BY <2>1, <2>2, GoesOn
<1> QED
  BY <1>1, <1>2, <1>3, <1>4, <1>5, <1>6, <1>7, <1>8, InsertRestores, BeginRestores,
     ClearRestores, RefillRestores DEF Next

\* A restore that fails or crashes after it has cleared the database leaves a whole
\* backup of it behind, and retention never takes it, unless restores overlap.
THEOREM Recoverability == Spec => []Recoverable
<1>1. StoreInv /\ RestoreInv => Recoverable
  BY DEF StoreInv, TypeOK, RestoreInv, RescueKept, Recoverable
<1> QED
  BY <1>1, StoreInit, StoreStep, RestoreInit, RestoreStep, PTL DEF Spec

=============================================================================
