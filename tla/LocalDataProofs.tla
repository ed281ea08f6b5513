--------------------------- MODULE LocalDataProofs ---------------------------
(***************************************************************************)
(* Proofs about LocalState and UserData: any number of processes, windows, *)
(* restores, crashes, snapshots and entries, whatever the schema versions. *)
(***************************************************************************)
EXTENDS LocalState, UserData, SequenceTheorems, TLAPS

-----------------------------------------------------------------------------
(* The database files and the processes.                                   *)

DBFile == [version : Nat, applied : SUBSET Nat]
Setting == [readable : BOOLEAN, valid : BOOLEAN]
PossibleKeys == Keys \cup {NoKey}
Proc ==
  [task : {"stopped", "start", "idle", "restore", "export"},
   step : {"none", "version", "migrate", "snapshot", "write", "write valid"},
   conn : Nat, target : Nat, bundle : Nat, restored : Nat, key : PossibleKeys,
   keyStep : {"none", "check", "store", "record", "clear", "remove", "write", "write valid"},
   form : {"none", "write", "write valid"}]

LocalTypeOK ==
  /\ files \in Seq(DBFile) /\ current = Len(files) /\ current > 0
  /\ settings \in Setting
  /\ keyring \in PossibleKeys /\ validated \subseteq PossibleKeys
  /\ bundles \subseteq [valid : BOOLEAN, file : DBFile]
  /\ proc \in [Process -> Proc]

\* The first file of a new database has no version; all others have one.
HasVersion(i) == i > 1 \/ FirstVersion > 0

\* What a version says of the migrations that a file or a backup holds.
Migrated(file) ==
  /\ 1..file.version \subseteq file.applied
  /\ 1 \in file.applied => file.version > 0
  /\ FirstVersion > 0 => file.applied = 1..file.version

FilesMigrated ==
  /\ \A i \in 1..current : Migrated(files[i]) /\ (HasVersion(i) => files[i].version > 0)
  /\ \A b \in bundles : Migrated(b.file)

\* Where a process is in the files fs, of which the last is at the path: a
\* migration never finds its file behind, a restore migrates its own file or
\* one that has replaced it.
Placed(r, fs, cur) ==
  /\ r.step = "migrate" =>
       /\ r.conn \in 1..cur /\ r.target \in 1..(SchemaVersion + 1)
       /\ fs[r.conn].version <= SchemaVersion
       /\ 1..(r.target - 1) \subseteq fs[r.conn].applied
       /\ HasVersion(r.conn) => r.target > 1 /\ r.target - 1 <= fs[r.conn].version
  /\ r.task = "restore" =>
       r.bundle \in 2..cur /\ (r.step = "migrate" => r.conn >= r.bundle)
  /\ r.restored # 0 =>
       r.restored \in 2..cur /\ (r.restored = cur => fs[cur].version = SchemaVersion)

ProcessesPlaced == \A p \in Process : Placed(proc[p], files, current)

\* The keyring holds only what a provider has accepted.
KeysChecked ==
  /\ keyring # NoKey => keyring \in validated
  /\ \A p \in Process : proc[p].keyStep = "store" => proc[p].key \in validated

\* A record of a process that has moved on without touching a file.
Calm(r, s) ==
  /\ r.step = "migrate" => s.step = "migrate" /\ r.conn = s.conn /\ r.target = s.target
  /\ r.task = "restore" => s.task = "restore" /\ r.bundle = s.bundle
  /\ r.restored \in {0, s.restored}

\* What a file at least keeps.
Grown ==
  /\ current <= current'
  /\ \A i \in 1..current :
       /\ files[i].applied \subseteq files'[i].applied
       /\ HasVersion(i) => files[i].version <= files'[i].version
       /\ files[i].version <= SchemaVersion => files'[i].version <= SchemaVersion

LEMMA ProcType ==
  ASSUME LocalTypeOK, NEW p \in Process
  PROVE  proc[p] \in Proc
BY DEF LocalTypeOK

LEMMA FileType ==
  ASSUME LocalTypeOK, NEW i \in 1..current
  PROVE  files[i] \in DBFile /\ files[i].version \in Nat /\ files[i].applied \subseteq Nat
<1>1. files[i] \in DBFile
  BY DEF LocalTypeOK
<1> QED
  BY <1>1 DEF DBFile

(* Files that grow leave every process where it was.                       *)
LEMMA PlacedGrows ==
  ASSUME LocalTypeOK, LocalTypeOK', Grown, NEW r \in Proc, Placed(r, files, current)
  PROVE  Placed(r, files', current')
<1> USE LocalStateAssumption
<1>1. current \in Nat /\ current' \in Nat /\ current <= current'
  BY DEF LocalTypeOK, Grown
<1>2. ASSUME NEW i \in 1..current
      PROVE  files[i].version \in Nat /\ files'[i].version \in Nat /\ i \in 1..current'
  <2>1. i \in 1..current'
    BY <1>1
  <2>2. files'[i] \in DBFile
    BY <2>1 DEF LocalTypeOK
  <2> QED
    BY <2>1, <2>2, FileType DEF DBFile
<1>3. ASSUME r.step = "migrate"
      PROVE  /\ r.conn \in 1..current' /\ r.target \in 1..(SchemaVersion + 1)
             /\ files'[r.conn].version <= SchemaVersion
             /\ 1..(r.target - 1) \subseteq files'[r.conn].applied
             /\ HasVersion(r.conn) => r.target > 1 /\ r.target - 1 <= files'[r.conn].version
  <2>1. r.conn \in 1..current /\ r.conn \in 1..current'
    BY <1>2, <1>3 DEF Placed
  <2>2. files[r.conn].version \in Nat /\ files'[r.conn].version \in Nat /\ r.target \in Nat
    BY <1>2, <2>1 DEF Proc
  <2>3. /\ files[r.conn].applied \subseteq files'[r.conn].applied
        /\ HasVersion(r.conn) => files[r.conn].version <= files'[r.conn].version
        /\ files'[r.conn].version <= SchemaVersion
    BY <1>3, <2>1 DEF Placed, Grown
  <2>4. /\ r.target \in 1..(SchemaVersion + 1)
        /\ 1..(r.target - 1) \subseteq files[r.conn].applied
        /\ HasVersion(r.conn) => r.target > 1 /\ r.target - 1 <= files[r.conn].version
    BY <1>3 DEF Placed
  <2>5. HasVersion(r.conn) => r.target > 1 /\ r.target - 1 <= files'[r.conn].version
    BY <2>2, <2>3, <2>4
  <2> QED
    BY <2>1, <2>3, <2>4, <2>5
<1>4. ASSUME r.task = "restore"
      PROVE  r.bundle \in 2..current' /\ (r.step = "migrate" => r.conn >= r.bundle)
  BY <1>1, <1>4 DEF Placed
<1>5. ASSUME r.restored # 0
      PROVE  /\ r.restored \in 2..current'
             /\ r.restored = current' => files'[current'].version = SchemaVersion
  <2>1. r.restored \in 2..current /\ (r.restored = current => files[current].version = SchemaVersion)
    BY <1>5 DEF Placed
  <2>2. CASE r.restored = current'
    <3>1. current' = current /\ files[current].version = SchemaVersion /\ current \in 2..current
      BY <1>1, <2>1, <2>2
    <3>2. current \in 1..current /\ HasVersion(current)
      BY <1>1, <3>1 DEF HasVersion
    <3>3. files[current].version <= files'[current].version /\ files'[current].version <= SchemaVersion
      BY <3>1, <3>2 DEF Grown
    <3> QED
      BY <1>1, <1>2, <2>1, <3>1, <3>2, <3>3
  <2> QED
    BY <1>1, <2>1, <2>2
<1> QED
  BY <1>3, <1>4, <1>5 DEF Placed

LEMMA OthersPlaced ==
  ASSUME LocalTypeOK, LocalTypeOK', ProcessesPlaced, Grown, NEW p \in Process, NEW r,
         proc' = [proc EXCEPT ![p] = r], Placed(r, files', current')
  PROVE  ProcessesPlaced'
<1>1. \A q \in Process : q # p => proc'[q] = proc[q]
  BY DEF LocalTypeOK
<1>2. proc'[p] = r
  BY DEF LocalTypeOK
<1>3. \A q \in Process : Placed(proc[q], files', current')
  BY PlacedGrows, ProcType DEF ProcessesPlaced
<1> QED
  BY <1>1, <1>2, <1>3 DEF ProcessesPlaced

LEMMA CalmPlaced ==
  ASSUME LocalTypeOK, LocalTypeOK', ProcessesPlaced, NEW p \in Process, NEW r \in Proc,
         proc' = [proc EXCEPT ![p] = r], Calm(r, proc[p]), UNCHANGED <<files, current>>
  PROVE  ProcessesPlaced'
<1>1. Placed(proc[p], files, current)
  BY DEF ProcessesPlaced
<1>2. Placed(r, files', current')
  BY <1>1 DEF Calm, Placed
<1>3. current \in Nat /\ \A i \in 1..current : files[i].version \in Nat
  BY FileType DEF LocalTypeOK
<1>4. Grown
  BY <1>3 DEF Grown
<1> QED
  BY <1>2, <1>4, OthersPlaced

-----------------------------------------------------------------------------
(* The steps that move a process and leave the files.                      *)

\* The process's next record: of its type, and no further in the files.
MovesOn(p, r) == r \in Proc /\ Calm(r, proc[p]) /\ proc' = [proc EXCEPT ![p] = r]

KeyStep(p) ==
  \/ SaveSettings(p) \/ WriteForm(p) \/ SaveKeys(p) \/ ValidateKey(p) \/ StoreKey(p)
  \/ RecordDiagnostic(p) \/ WriteSettings(p) \/ RemoveKey(p)

LEMMA WriteType == \A v \in BOOLEAN : Write(v) \in {"write", "write valid"}
BY DEF Write

LEMMA CutOffType == CutOff \in Setting
BY DEF CutOff, Setting

LEMMA OverwriteType ==
  ASSUME settings \in Setting, NEW step, Overwrite(step) \/ OverwriteFails
  PROVE  settings' \in Setting
<1> DEFINE v == step = "write valid"
<1>1. CASE Overwrite(step)
  <2>1. settings' = Settings(v) /\ v \in BOOLEAN
    BY <1>1 DEF Overwrite
  <2> HIDE DEF v
  <2> QED
    BY <2>1 DEF Settings, Setting
<1>2. CASE OverwriteFails
  BY <1>2, CutOffType DEF OverwriteFails
<1> QED
  BY <1>1, <1>2

LEMMA FormMoves ==
  ASSUME LocalTypeOK, NEW p \in Process, NEW f \in {"none", "write", "write valid"},
         proc' = [proc EXCEPT ![p].form = f]
  PROVE  \E r : MovesOn(p, r) /\ r.keyStep = proc[p].keyStep /\ r.key = proc[p].key
<1> DEFINE r == [proc[p] EXCEPT !.form = f]
<1>1. proc' = [proc EXCEPT ![p] = r]
  BY DEF LocalTypeOK
<1>2. r \in Proc /\ Calm(r, proc[p]) /\ r.keyStep = proc[p].keyStep /\ r.key = proc[p].key
  BY ProcType DEF Proc, Calm
<1> HIDE DEF r
<1> QED
  BY <1>1, <1>2 DEF MovesOn

LEMMA KeyDoneMoves ==
  ASSUME LocalTypeOK, NEW p \in Process, proc' = KeyDone(p)
  PROVE  \E r : MovesOn(p, r) /\ r.keyStep # "store"
<1> DEFINE r == [proc[p] EXCEPT !.key = NoKey, !.keyStep = "none"]
<1>1. proc' = [proc EXCEPT ![p] = r]
  BY DEF KeyDone, LocalTypeOK
<1>2. r \in Proc /\ Calm(r, proc[p]) /\ r.keyStep # "store"
  BY ProcType DEF Proc, PossibleKeys, Calm
<1> HIDE DEF r
<1> QED
  BY <1>1, <1>2 DEF MovesOn

LEMMA KeyStepMoves ==
  ASSUME LocalTypeOK, NEW p \in Process, NEW k \in PossibleKeys,
         NEW s \in {"none", "check", "store", "record", "clear", "remove", "write", "write valid"},
         \/ proc' = [proc EXCEPT ![p].keyStep = s]
         \/ proc' = [proc EXCEPT ![p].key = k, ![p].keyStep = s]
  PROVE  \E r : MovesOn(p, r) /\ r.keyStep = s /\ r.key \in {k, proc[p].key}
<1> DEFINE r1 == [proc[p] EXCEPT !.keyStep = s]
           r2 == [proc[p] EXCEPT !.key = k, !.keyStep = s]
<1>1. ASSUME NEW r \in {r1, r2}
      PROVE  r \in Proc /\ Calm(r, proc[p]) /\ r.keyStep = s /\ r.key \in {k, proc[p].key}
  BY <1>1, ProcType DEF Proc, Calm
<1>2. \E r \in {r1, r2} : proc' = [proc EXCEPT ![p] = r]
  BY DEF LocalTypeOK, Proc
<1> HIDE DEF r1, r2
<1> QED
  BY <1>1, <1>2 DEF MovesOn

(* A step of the window: what becomes of the key it is about.              *)
LEMMA KeyMoves ==
  ASSUME LocalTypeOK, KeysChecked, NEW p \in Process, KeyStep(p)
  PROVE  /\ \E r : MovesOn(p, r) /\ (r.keyStep = "store" => r.key \in validated')
         /\ settings' \in Setting /\ keyring' \in PossibleKeys
         /\ validated \subseteq validated' /\ validated' \subseteq PossibleKeys
         /\ keyring' # NoKey => keyring' \in validated'
         /\ UNCHANGED <<files, current, bundles>>
<1>0. /\ settings \in Setting /\ settings.valid \in BOOLEAN
      /\ keyring \in PossibleKeys /\ validated \subseteq PossibleKeys
      /\ proc[p].key \in PossibleKeys /\ NoKey \in PossibleKeys
  BY ProcType DEF LocalTypeOK, Setting, Proc, PossibleKeys
<1>1. CASE SaveSettings(p) \/ WriteForm(p)
  <2>1. PICK f \in {"none", "write", "write valid"} : proc' = [proc EXCEPT ![p].form = f]
    BY <1>0, <1>1, WriteType DEF SaveSettings, WriteForm
  <2>2. PICK r : MovesOn(p, r) /\ r.keyStep = proc[p].keyStep /\ r.key = proc[p].key
    BY <2>1, FormMoves
  <2>3. settings' \in Setting
    BY <1>0, <1>1, OverwriteType DEF SaveSettings, WriteForm
  <2>4. UNCHANGED <<files, current, bundles, keyring, validated>>
    BY <1>1 DEF SaveSettings, WriteForm, KeepsFiles, KeepsKeys
  <2> QED
    BY <1>0, <2>2, <2>3, <2>4 DEF KeysChecked
<1>2. CASE SaveKeys(p)
  <2>1. PICK k \in PossibleKeys :
          proc' = [proc EXCEPT ![p].key = k, ![p].keyStep = IF k = NoKey THEN "remove" ELSE "check"]
    BY <1>2 DEF SaveKeys, PossibleKeys
  <2>2. \E r : MovesOn(p, r) /\ r.keyStep # "store"
    <3>1. CASE k = NoKey
      BY <1>0, <2>1, <3>1, KeyStepMoves
    <3>2. CASE k # NoKey
      BY <1>0, <2>1, <3>2, KeyStepMoves
    <3> QED
      BY <3>1, <3>2
  <2> QED
    BY <1>0, <1>2, <2>2 DEF SaveKeys, KeepsFiles, KeepsKeys, KeysChecked
<1>3. CASE ValidateKey(p)
  <2>1. PICK accepted \in BOOLEAN :
          /\ validated' = IF accepted THEN validated \cup {proc[p].key} ELSE validated
          /\ proc' = AfterCheck(p, accepted)
    BY <1>3 DEF ValidateKey
  <2>2. CASE accepted
    <3>1. \E r : MovesOn(p, r) /\ r.key = proc[p].key
      <4> DEFINE k == proc[p].key
      <4>1. proc' = [proc EXCEPT ![p].keyStep = "store"] /\ k \in PossibleKeys
        BY <1>0, <2>1, <2>2 DEF AfterCheck
      <4> HIDE DEF k
      <4>2. \E r : MovesOn(p, r) /\ r.key \in {k, proc[p].key}
        BY <4>1, KeyStepMoves
      <4> QED
        BY <4>2 DEF k
    <3> QED
      BY <1>0, <1>3, <2>1, <2>2, <3>1 DEF ValidateKey, KeepsFiles, KeysChecked
  <2>3. CASE ~accepted
    BY <1>0, <1>3, <2>1, <2>3, KeyDoneMoves DEF ValidateKey, AfterCheck, KeepsFiles, KeysChecked
  <2> QED
    BY <2>2, <2>3
<1>4. CASE StoreKey(p)
  <2>1. proc[p].key \in validated
    BY <1>4 DEF StoreKey, KeysChecked
  <2>2. CASE KeyringHolds(proc[p].key) /\ proc' = [proc EXCEPT ![p].keyStep = "record"]
    BY <1>0, <1>4, <2>1, <2>2, KeyStepMoves DEF StoreKey, KeyringHolds, KeepsFiles
  <2>3. CASE keyring' = keyring /\ proc' = KeyDone(p)
    BY <1>0, <1>4, <2>3, KeyDoneMoves DEF StoreKey, KeepsFiles, KeysChecked
  <2> QED
    BY <1>4, <2>2, <2>3 DEF StoreKey
<1>5. CASE RecordDiagnostic(p)
  <2>1. \E r : MovesOn(p, r) /\ r.keyStep # "store"
    <3>1. PICK s \in {"write", "write valid"} : s = Write(proc[p].keyStep = "record")
      BY WriteType
    <3>2. CASE settings.readable
      <4>1. proc' = [proc EXCEPT ![p].keyStep = s]
        BY <1>5, <3>1, <3>2 DEF RecordDiagnostic
      <4>2. CASE s = "write"
        BY <1>0, <4>1, <4>2, KeyStepMoves
      <4>3. CASE s = "write valid"
        BY <1>0, <4>1, <4>3, KeyStepMoves
      <4> QED
        BY <4>2, <4>3
    <3>3. CASE ~settings.readable
      BY <1>5, <3>3, KeyDoneMoves DEF RecordDiagnostic
    <3> QED
      BY <3>2, <3>3
  <2> QED
    BY <1>0, <1>5, <2>1 DEF RecordDiagnostic, KeepsFiles, KeepsKeys, KeysChecked
<1>6. CASE WriteSettings(p)
  <2>1. settings' \in Setting
    BY <1>0, <1>6, OverwriteType DEF WriteSettings
  <2> QED
    BY <1>0, <1>6, <2>1, KeyDoneMoves DEF WriteSettings, KeepsFiles, KeepsKeys, KeysChecked
<1>7. CASE RemoveKey(p)
  <2>1. \E r : MovesOn(p, r) /\ r.keyStep # "store"
    <3>1. CASE proc' = [proc EXCEPT ![p].keyStep = "clear"]
      BY <1>0, <3>1, KeyStepMoves
    <3>2. CASE proc' = KeyDone(p)
      BY <3>2, KeyDoneMoves
    <3> QED
      BY <1>7, <3>1, <3>2 DEF RemoveKey
  <2> QED
    BY <1>0, <1>7, <2>1 DEF RemoveKey, KeyringHolds, KeepsFiles, KeysChecked
<1> QED
  BY <1>1, <1>2, <1>3, <1>4, <1>5, <1>6, <1>7 DEF KeyStep

(* A step of a start, an export, a restore or a crash that leaves the files. *)
FileStep(p) ==
  \/ StartUp(p) \/ ExportBackup(p) \/ CreateSnapshot(p) \/ RestoreSettings(p) \/ CrashProcess(p)

LEMMA StoppedType == Stopped \in Proc /\ Stopped.keyStep # "store" /\ \A s : Calm(Stopped, s)
BY DEF Stopped, Proc, PossibleKeys, Calm

LEMMA FileMoves ==
  ASSUME LocalTypeOK, FilesMigrated, NEW p \in Process, FileStep(p)
  PROVE  /\ \E r : MovesOn(p, r) /\ (r.keyStep = "store" => proc[p].keyStep = "store" /\ r.key = proc[p].key)
         /\ settings' \in Setting /\ UNCHANGED <<files, current, keyring, validated>>
         /\ bundles' \subseteq [valid : BOOLEAN, file : DBFile]
         /\ \A b \in bundles' : Migrated(b.file)
<1>0. proc[p] \in Proc /\ settings \in Setting /\ bundles \subseteq [valid : BOOLEAN, file : DBFile]
  BY ProcType DEF LocalTypeOK
<1>1. CASE StartUp(p)
  <2> DEFINE r == [proc[p] EXCEPT !.task = "start", !.step = "version"]
  <2>1. proc' = [proc EXCEPT ![p] = r]
    BY <1>1 DEF StartUp, LocalTypeOK
  <2>2. r \in Proc /\ Calm(r, proc[p]) /\ r.keyStep = proc[p].keyStep /\ r.key = proc[p].key
    BY <1>0 DEF Proc, Calm
  <2> HIDE DEF r
  <2> QED
    BY <1>0, <1>1, <2>1, <2>2 DEF StartUp, MovesOn, KeepsFiles, KeepsKeys, FilesMigrated
<1>2. CASE ExportBackup(p)
  <2> DEFINE r == [proc[p] EXCEPT !.task = "export", !.step = "version",
                                  !.bundle = IF settings.valid THEN 1 ELSE 0]
  <2>1. proc' = [proc EXCEPT ![p] = r]
    BY <1>2 DEF ExportBackup, LocalTypeOK
  <2>2. r \in Proc /\ Calm(r, proc[p]) /\ r.keyStep = proc[p].keyStep /\ r.key = proc[p].key
    BY <1>0 DEF Proc, Calm
  <2> HIDE DEF r
  <2> QED
    BY <1>0, <1>2, <2>1, <2>2 DEF ExportBackup, MovesOn, KeepsFiles, KeepsKeys, FilesMigrated
<1>3. CASE CreateSnapshot(p)
  <2> DEFINE r == [proc[p] EXCEPT !.task = "idle", !.step = "none", !.bundle = 0]
             b == [valid |-> proc[p].bundle = 1, file |-> files[current]]
  <2>1. proc' = [proc EXCEPT ![p] = r] /\ bundles' = bundles \cup {b}
    BY <1>3 DEF CreateSnapshot, LocalTypeOK
  <2>2. r \in Proc /\ Calm(r, proc[p]) /\ r.keyStep = proc[p].keyStep /\ r.key = proc[p].key
    BY <1>0 DEF Proc, Calm
  <2>3. current \in 1..current
    BY DEF LocalTypeOK
  <2>4. b \in [valid : BOOLEAN, file : DBFile] /\ Migrated(b.file)
    BY <2>3, FileType DEF FilesMigrated
  <2> HIDE DEF r, b
  <2> QED
    BY <1>0, <1>3, <2>1, <2>2, <2>4 DEF CreateSnapshot, MovesOn, KeepsFiles, KeepsKeys, FilesMigrated
<1>4. CASE RestoreSettings(p)
  <2> DEFINE r == [proc[p] EXCEPT !.step = "version"]
             i == Idle(p)
  <2>1. proc' = [proc EXCEPT ![p] = r] \/ proc' = [proc EXCEPT ![p] = i]
    BY <1>4 DEF RestoreSettings, AfterSettings, LocalTypeOK
  <2>2. /\ r \in Proc /\ Calm(r, proc[p]) /\ r.keyStep = proc[p].keyStep /\ r.key = proc[p].key
        /\ i \in Proc /\ Calm(i, proc[p]) /\ i.keyStep = proc[p].keyStep /\ i.key = proc[p].key
    BY <1>0 DEF Proc, Calm, Idle
  <2>3. settings' \in Setting
    BY <1>0, <1>4, OverwriteType DEF RestoreSettings
  <2> HIDE DEF r, i
  <2>4. \E s : MovesOn(p, s) /\ s.keyStep = proc[p].keyStep /\ s.key = proc[p].key
    BY <2>1, <2>2 DEF MovesOn
  <2> QED
    BY <1>0, <1>4, <2>3, <2>4 DEF RestoreSettings, KeepsFiles, KeepsKeys, FilesMigrated
<1>5. CASE CrashProcess(p)
  <2>1. settings' \in Setting
    <3>1. settings' \in {settings, CutOff}
      BY <1>5 DEF CrashProcess
    <3> QED
      BY <1>0, <3>1, CutOffType
  <2> QED
    BY <1>0, <1>5, <2>1, StoppedType DEF CrashProcess, MovesOn, KeepsFiles, KeepsKeys, FilesMigrated
<1> QED
  BY <1>1, <1>2, <1>3, <1>4, <1>5 DEF FileStep

-----------------------------------------------------------------------------
(* The steps of SQLiteDatabase.initialize, and a restore's replacement.    *)

LEMMA FailureMoves ==
  ASSUME LocalTypeOK, NEW p \in Process, InitializeFails(p)
  PROVE  \E r : MovesOn(p, r) /\ (r.keyStep = "store" => proc[p].keyStep = "store" /\ r.key = proc[p].key)
<1> DEFINE r == Idle(p)
<1>1. r \in Proc /\ Calm(r, proc[p]) /\ r.keyStep = proc[p].keyStep /\ r.key = proc[p].key
  BY ProcType DEF Idle, Proc, Calm
<1> HIDE DEF r
<1>2. proc' = [proc EXCEPT ![p] = Stopped] \/ proc' = [proc EXCEPT ![p] = r]
  BY DEF InitializeFails, r
<1> QED
  BY <1>1, <1>2, StoppedType DEF MovesOn

LEMMA ReadsVersion ==
  ASSUME LocalTypeOK, FilesMigrated, ProcessesPlaced, NEW p \in Process, ReadSchemaVersion(p),
         ~(files[current].version > SchemaVersion)
  PROVE  \E r \in Proc : /\ proc' = [proc EXCEPT ![p] = r] /\ Placed(r, files, current)
                         /\ r.keyStep = proc[p].keyStep /\ r.key = proc[p].key
<1> DEFINE v == files[current].version
           r == [proc[p] EXCEPT !.step = "migrate", !.conn = current, !.target = v + 1]
<1>0. current \in 1..current /\ current \in Nat
  BY DEF LocalTypeOK
<1>1. v \in Nat /\ v <= SchemaVersion /\ SchemaVersion \in Nat
  BY <1>0, FileType, LocalStateAssumption
<1>2. proc' = [proc EXCEPT ![p] = r]
  BY DEF ReadSchemaVersion, LocalTypeOK
<1>3. v = files[current].version /\ Migrated(files[current]) /\ (HasVersion(current) => v > 0)
  BY <1>0 DEF FilesMigrated
<1> HIDE DEF v
<1>4. r \in Proc
  <2>1. ASSUME NEW t \in Nat
        PROVE  [proc[p] EXCEPT !.step = "migrate", !.conn = current, !.target = t] \in Proc
    BY <1>0, ProcType DEF Proc
  <2>2. v + 1 \in Nat
    BY <1>1
  <2> QED
    BY <2>1, <2>2
<1>5. Placed(proc[p], files, current) /\ proc[p].step = "version"
  BY DEF ProcessesPlaced, ReadSchemaVersion
<1>6. /\ v + 1 \in 1..(SchemaVersion + 1) /\ v + 1 - 1 = v
      /\ 1..v \subseteq files[current].applied
      /\ HasVersion(current) => v + 1 > 1 /\ v <= v
  BY <1>1, <1>3 DEF Migrated
<1>7. proc[p].task = "restore" => current >= proc[p].bundle
  BY <1>0, <1>5 DEF Placed
<1>8. /\ r.step = "migrate" /\ r.conn = current /\ r.target = v + 1 /\ r.task = proc[p].task
      /\ r.bundle = proc[p].bundle /\ r.restored = proc[p].restored
      /\ r.keyStep = proc[p].keyStep /\ r.key = proc[p].key
  BY ProcType DEF Proc
<1>9. Placed(r, files, current)
  <2> HIDE DEF r
  <2> QED
    BY <1>0, <1>1, <1>3, <1>5, <1>6, <1>7, <1>8 DEF Placed
<1> QED
  BY <1>2, <1>4, <1>8, <1>9

LEMMA Initializes ==
  ASSUME LocalTypeOK, FilesMigrated, ProcessesPlaced, NEW p \in Process, Initialized(p)
  PROVE  \E r \in Proc : /\ proc' = [proc EXCEPT ![p] = r] /\ Placed(r, files, current)
                         /\ r.keyStep = proc[p].keyStep /\ r.key = proc[p].key
<1>0. proc[p] \in Proc /\ Placed(proc[p], files, current) /\ SchemaVersion \in Nat
  BY ProcType, LocalStateAssumption DEF ProcessesPlaced
<1>1. CASE proc[p].task = "export"
  <2> DEFINE r == [proc[p] EXCEPT !.step = "snapshot", !.conn = 0, !.target = 0]
  <2>1. r \in Proc
    BY <1>0 DEF Proc
  <2>2. proc' = [proc EXCEPT ![p] = r]
    BY <1>1 DEF Initialized
  <2>3. /\ r.step = "snapshot" /\ r.task = "export" /\ r.restored = proc[p].restored
        /\ r.keyStep = proc[p].keyStep /\ r.key = proc[p].key
    BY <1>0, <1>1 DEF Proc
  <2> HIDE DEF r
  <2>4. Placed(r, files, current)
    BY <1>0, <2>3 DEF Placed
  <2> QED
    BY <2>1, <2>2, <2>3, <2>4
<1>2. CASE proc[p].task # "export"
  <2> DEFINE restored == IF proc[p].task = "restore" THEN proc[p].bundle ELSE proc[p].restored
             r == [Idle(p) EXCEPT !.restored = restored]
  <2>1. restored \in Nat /\ r \in Proc
    BY <1>0 DEF Proc, Idle
  <2>2. proc' = [proc EXCEPT ![p] = r]
    <3>1. Idle(p).restored = proc[p].restored
      BY <1>0 DEF Idle, Proc
    <3> QED
      BY <1>2, <3>1 DEF Initialized, Idle
  <2>3. /\ r.step = "none" /\ r.task = "idle" /\ r.restored = restored
        /\ r.keyStep = proc[p].keyStep /\ r.key = proc[p].key
    BY <1>0 DEF Proc, Idle
  <2>4. restored # 0 => restored \in 2..current /\ (restored = current => files[current].version = SchemaVersion)
    <3>1. CASE proc[p].task = "restore"
      <4>1. /\ proc[p].bundle \in 2..current /\ proc[p].conn >= proc[p].bundle
            /\ proc[p].conn \in 1..current /\ proc[p].target \in 1..(SchemaVersion + 1)
            /\ proc[p].target > SchemaVersion /\ files[proc[p].conn].version <= SchemaVersion
            /\ HasVersion(proc[p].conn) => proc[p].target - 1 <= files[proc[p].conn].version
        BY <1>0, <3>1 DEF Initialized, Placed
      <4>2. HasVersion(proc[p].conn) /\ proc[p].target = SchemaVersion + 1
        BY <1>0, <4>1 DEF HasVersion
      <4>3. files[proc[p].conn].version \in Nat
        BY <4>1, FileType
      <4>4. files[proc[p].conn].version = SchemaVersion
        BY <1>0, <4>1, <4>2, <4>3
      <4>5. proc[p].bundle = current => proc[p].conn = current
        BY <4>1 DEF LocalTypeOK
      <4> QED
        BY <3>1, <4>1, <4>4, <4>5
    <3>2. CASE proc[p].task # "restore"
      BY <1>0, <3>2 DEF Placed
    <3> QED
      BY <3>1, <3>2
  <2> HIDE DEF r, restored
  <2>5. Placed(r, files, current)
    BY <2>3, <2>4 DEF Placed
  <2> QED
    BY <2>1, <2>2, <2>3, <2>5
<1> QED
  BY <1>1, <1>2

(* A migration that succeeds is the next of its file, unless it makes the  *)
(* tables of a file without a version again.                               *)
LEMMA Migrates ==
  ASSUME LocalTypeOK, FilesMigrated, ProcessesPlaced, NEW p \in Process, ApplyMigration(p),
         MigrationSucceeds(files[proc[p].conn], proc[p].target)
  PROVE  /\ LocalTypeOK' /\ FilesMigrated' /\ Grown /\ ProcessesPlaced'
         /\ \A i \in DOMAIN files : HasVersion(i) => files[i].version <= files'[i].version
         /\ \E r : /\ proc' = [proc EXCEPT ![p] = r]
                   /\ r.keyStep = proc[p].keyStep /\ r.key = proc[p].key
<1> DEFINE c == proc[p].conn
           t == proc[p].target
           f == [version |-> t, applied |-> files[c].applied \cup {t}]
           r == [proc[p] EXCEPT !.target = t + 1]
<1>0. /\ proc[p] \in Proc /\ Placed(proc[p], files, current) /\ SchemaVersion \in Nat
      /\ files \in Seq(DBFile) /\ current = Len(files) /\ current \in Nat
  BY ProcType, LocalStateAssumption DEF ProcessesPlaced, LocalTypeOK
<1>1. /\ c \in 1..current /\ t \in 1..(SchemaVersion + 1) /\ t <= SchemaVersion /\ t \in Nat
      /\ files[c].version <= SchemaVersion /\ 1..(t - 1) \subseteq files[c].applied
      /\ HasVersion(c) => t > 1 /\ t - 1 <= files[c].version
      /\ t = 1 \/ t \notin files[c].applied
  BY <1>0 DEF ApplyMigration, Placed, MigrationSucceeds, Repeatable
<1>2. files' = [files EXCEPT ![c] = f] /\ proc' = [proc EXCEPT ![p] = r]
  BY DEF ApplyMigration, LocalTypeOK
<1>3. /\ files[c].version \in Nat /\ files[c].applied \subseteq Nat /\ Migrated(files[c])
      /\ HasVersion(c) => files[c].version > 0
  BY <1>1, FileType DEF FilesMigrated
<1>4. /\ r.step = "migrate" /\ r.conn = c /\ r.target = t + 1 /\ r.task = proc[p].task
      /\ r.bundle = proc[p].bundle /\ r.restored = proc[p].restored
      /\ r.keyStep = proc[p].keyStep /\ r.key = proc[p].key
  BY <1>0 DEF Proc, ApplyMigration
<1>5. r \in Proc
  <2>1. ASSUME NEW n \in Nat PROVE [proc[p] EXCEPT !.target = n] \in Proc
    BY <1>0 DEF Proc
  <2>2. t + 1 \in Nat
    BY <1>1
  <2> QED
    BY <2>1, <2>2
<1>6. f \in DBFile /\ f.version = t /\ f.applied = files[c].applied \cup {t}
  BY <1>1, <1>3 DEF DBFile
<1>7. proc[p].step = "migrate" /\ UNCHANGED <<current, settings, bundles, keyring, validated>>
  BY DEF ApplyMigration, KeepsKeys
<1> HIDE DEF f, r, c, t
<1>8. HasVersion(c) => files[c].version = t - 1
  <2>1. HasVersion(c) => t > 1 /\ t \notin files[c].applied
    BY <1>1
  <2>2. t <= files[c].version => t \in files[c].applied
    BY <1>1, <1>3 DEF Migrated
  <2> QED
    BY <1>1, <1>3, <2>1, <2>2
<1>9. /\ files' \in Seq(DBFile) /\ Len(files') = Len(files)
      /\ files'[c] = f /\ \A i \in 1..current : i # c => files'[i] = files[i]
  BY <1>0, <1>1, <1>2, <1>6
<1>10. LocalTypeOK'
  BY <1>0, <1>2, <1>5, <1>7, <1>9 DEF LocalTypeOK
<1>11. Migrated(f) /\ (HasVersion(c) => f.version > 0)
  <2>1. 1..t \subseteq f.applied
    <3>1. \A i \in 1..t : i = t \/ i \in 1..(t - 1)
      BY <1>1
    <3> QED
      BY <1>1, <1>6, <3>1
  <2>2. FirstVersion > 0 => f.applied = 1..t
    <3>1. ASSUME FirstVersion > 0 PROVE f.applied = 1..t
      <4>1. HasVersion(c)
        BY <3>1 DEF HasVersion
      <4>2. files[c].applied = 1..(t - 1)
        BY <1>3, <1>8, <3>1, <4>1 DEF Migrated
      <4>3. 1..t = (1..(t - 1)) \cup {t}
        BY <1>1
      <4> QED
        BY <1>6, <4>2, <4>3
    <3> QED
      BY <3>1
  <2> QED
    BY <1>1, <1>6, <2>1, <2>2 DEF Migrated
<1>12. FilesMigrated'
  BY <1>7, <1>9, <1>11 DEF FilesMigrated
<1>13. Grown
  <2>1. ASSUME NEW i \in 1..current
        PROVE  /\ files[i].applied \subseteq files'[i].applied
               /\ HasVersion(i) => files[i].version <= files'[i].version
               /\ files[i].version <= SchemaVersion => files'[i].version <= SchemaVersion
    <3>1. CASE i = c
      <4>1. t - 1 <= t
        BY <1>1
      <4> QED
        BY <1>1, <1>6, <1>8, <1>9, <3>1, <4>1
    <3>2. CASE i # c
      BY <1>9, <3>2, FileType
    <3> QED
      BY <3>1, <3>2
  <2> QED
    BY <1>0, <1>7, <2>1 DEF Grown
<1>14. Placed(r, files', current')
  <2>1. /\ r.conn \in 1..current' /\ r.target \in 1..(SchemaVersion + 1)
        /\ files'[r.conn].version <= SchemaVersion
        /\ HasVersion(r.conn) => r.target > 1 /\ r.target - 1 <= files'[r.conn].version
    BY <1>0, <1>1, <1>4, <1>6, <1>7, <1>9
  <2>2. 1..(r.target - 1) \subseteq files'[r.conn].applied
    <3>1. r.target - 1 = t
      BY <1>1, <1>4
    <3> QED
      BY <1>4, <1>9, <1>11, <1>6, <3>1 DEF Migrated
  <2>3. Placed(proc[p], files', current')
    BY <1>0, <1>10, <1>13, PlacedGrows
  <2> QED
    BY <1>4, <1>7, <2>1, <2>2, <2>3 DEF Placed, c
<1>15. \A i \in DOMAIN files : HasVersion(i) => files[i].version <= files'[i].version
  BY <1>0, <1>13 DEF Grown
<1> QED
  BY <1>0, <1>2, <1>4, <1>10, <1>12, <1>13, <1>14, <1>15, OthersPlaced

LEMMA Restores ==
  ASSUME LocalTypeOK, FilesMigrated, ProcessesPlaced, NEW p \in Process, RestoreBackup(p)
  PROVE  /\ LocalTypeOK' /\ FilesMigrated' /\ ProcessesPlaced'
         /\ \A i \in DOMAIN files : files[i].version <= files'[i].version
         /\ \E r : /\ proc' = [proc EXCEPT ![p] = r]
                   /\ r.keyStep = proc[p].keyStep /\ r.key = proc[p].key
<1>0. /\ proc[p] \in Proc /\ Placed(proc[p], files, current)
      /\ files \in Seq(DBFile) /\ current = Len(files) /\ current \in Nat /\ current > 0
  BY ProcType DEF ProcessesPlaced, LocalTypeOK
<1>n. PICK n \in Nat : n = Len(files) + 1
  BY <1>0
<1>1. PICK b \in bundles :
        /\ 1 \in b.file.applied
        /\ files' = Append(files, b.file) /\ current' = n
        /\ proc' = [proc EXCEPT ![p].task = "restore", ![p].step = Write(b.valid),
                                ![p].bundle = n]
  BY <1>n DEF RestoreBackup
<1>s. PICK s : s = Write(b.valid) /\ s \in Writes
  BY DEF Writes, Write
<1> DEFINE r == [proc[p] EXCEPT !.task = "restore", !.step = s, !.bundle = n]
<1>2. b \in [valid : BOOLEAN, file : DBFile] /\ Migrated(b.file) /\ b.file \in DBFile
  BY DEF LocalTypeOK, FilesMigrated
<1>3. proc' = [proc EXCEPT ![p] = r]
  BY <1>1, <1>s DEF LocalTypeOK
<1>4. n > current /\ n > 1
  BY <1>0, <1>n
<1>5. UNCHANGED <<settings, bundles, keyring, validated>>
  BY DEF RestoreBackup, KeepsKeys
<1>6. r \in Proc
  BY <1>0, <1>s DEF Proc, Writes, Write
<1>7. /\ r.step # "migrate" /\ r.task = "restore" /\ r.bundle = n /\ r.restored = proc[p].restored
      /\ r.keyStep = proc[p].keyStep /\ r.key = proc[p].key
  BY <1>0, <1>s DEF Proc, Writes, Write
<1> HIDE DEF r
<1>8. /\ files' \in Seq(DBFile) /\ Len(files') = n /\ files'[n] = b.file
      /\ \A i \in 1..current : files'[i] = files[i]
  <2> DEFINE f == b.file
  <2>1. f \in DBFile /\ files' = Append(files, f)
    BY <1>1, <1>2
  <2> HIDE DEF f
  <2>2. files' \in Seq(DBFile) /\ Len(files') = Len(files) + 1
        /\ files'[Len(files) + 1] = f /\ \A i \in 1..Len(files) : files'[i] = files[i]
    BY <1>0, <2>1, AppendProperties
  <2> QED
    BY <1>0, <1>n, <2>2 DEF f
<1>9. LocalTypeOK'
  <2>1. proc' \in [Process -> Proc]
    BY <1>3, <1>6 DEF LocalTypeOK
  <2>2. current' = Len(files') /\ current' > 0
    BY <1>1, <1>4, <1>8
  <2> QED
    BY <1>5, <1>8, <2>1, <2>2 DEF LocalTypeOK
<1>10. \A i \in 1..n : i \in 1..current \/ i = n
  BY <1>0, <1>n
<1>11. FilesMigrated'
  <2>1. b.file.version > 0
    BY <1>1, <1>2 DEF Migrated
  <2> QED
    BY <1>1, <1>2, <1>5, <1>8, <1>10, <2>1 DEF FilesMigrated
<1>12. Grown
  <2>1. current' = n /\ current <= n
    BY <1>0, <1>1, <1>4
  <2>2. \A i \in 1..current : files[i].version \in Nat
    BY FileType
  <2> QED
    BY <1>8, <2>1, <2>2 DEF Grown
<1>13. Placed(r, files', current')
  <2>1. Placed(proc[p], files', current')
    BY <1>0, <1>9, <1>12, PlacedGrows
  <2>2. n \in 2..n
    BY <1>4
  <2> QED
    BY <1>1, <1>7, <2>1, <2>2 DEF Placed
<1>14. \A i \in DOMAIN files : files[i].version <= files'[i].version
  BY <1>0, <1>8, FileType
<1> QED
  BY <1>3, <1>7, <1>9, <1>11, <1>12, <1>13, <1>14, OthersPlaced

-----------------------------------------------------------------------------
(* The theorems about LocalState.                                          *)

LocalInv == LocalTypeOK /\ FilesMigrated /\ ProcessesPlaced /\ KeysChecked

LEMMA LocalInitially == LocalInit => LocalInv
<1> SUFFICES ASSUME LocalInit PROVE LocalInv
  OBVIOUS
<1>0. SchemaVersion \in Nat /\ FirstVersion \in Nat /\ ForeignVersions \subseteq Nat \ {0}
  BY LocalStateAssumption
<1>1. \A v \in Nat : /\ DatabaseFile(v) \in DBFile /\ (v > 0 => Migrated(DatabaseFile(v)))
                     /\ DatabaseFile(v).version = v
  BY DEF DatabaseFile, DBFile, Migrated
<1>2. Migrated(DatabaseFile(FirstVersion))
  BY <1>0 DEF DatabaseFile, Migrated
<1>3. files = <<DatabaseFile(FirstVersion)>> /\ current = 1
  BY DEF LocalInit
<1>4. files \in Seq(DBFile) /\ Len(files) = 1 /\ files[1] = DatabaseFile(FirstVersion)
  BY <1>0, <1>1, <1>3
<1>5. \A b \in bundles : \E v \in ForeignVersions : b = [valid |-> TRUE, file |-> DatabaseFile(v)]
  BY DEF LocalInit
<1>6. \A b \in bundles : b \in [valid : BOOLEAN, file : DBFile] /\ Migrated(b.file)
  <2> SUFFICES ASSUME NEW b \in bundles PROVE b \in [valid : BOOLEAN, file : DBFile] /\ Migrated(b.file)
    OBVIOUS
  <2>1. PICK v \in ForeignVersions : b = [valid |-> TRUE, file |-> DatabaseFile(v)]
    BY <1>5
  <2>2. v \in Nat /\ v > 0
    BY <1>0
  <2> QED
    BY <1>1, <2>1, <2>2
<1>7. settings \in Setting /\ keyring = NoKey /\ validated = {} /\ proc = [p \in Process |-> Stopped]
  BY DEF LocalInit, Settings, Setting
<1>8. LocalTypeOK
  BY <1>3, <1>4, <1>6, <1>7, StoppedType DEF LocalTypeOK, PossibleKeys
<1>9. FilesMigrated
  <2>1. HasVersion(1) => FirstVersion > 0
    BY DEF HasVersion
  <2> QED
    BY <1>0, <1>1, <1>2, <1>3, <1>4, <1>6, <2>1 DEF FilesMigrated
<1>10. ProcessesPlaced
  BY <1>7 DEF ProcessesPlaced, Placed, Stopped
<1>11. KeysChecked
  BY <1>7 DEF KeysChecked, Stopped
<1> QED
  BY <1>8, <1>9, <1>10, <1>11 DEF LocalInv

(* A process that moves on without touching a file.                        *)
LEMMA CalmStep ==
  ASSUME LocalInv, NEW p \in Process, NEW r, MovesOn(p, r), r.keyStep = "store" => r.key \in validated',
         UNCHANGED <<files, current>>, settings' \in Setting, keyring' \in PossibleKeys,
         validated \subseteq validated', validated' \subseteq PossibleKeys,
         keyring' # NoKey => keyring' \in validated',
         bundles' \subseteq [valid : BOOLEAN, file : DBFile], \A b \in bundles' : Migrated(b.file)
  PROVE  LocalInv'
<1>1. LocalTypeOK'
  BY DEF LocalInv, LocalTypeOK, MovesOn
<1>2. FilesMigrated'
  BY DEF LocalInv, FilesMigrated
<1>3. ProcessesPlaced'
  BY <1>1, CalmPlaced DEF LocalInv, MovesOn
<1>4. KeysChecked'
  BY DEF LocalInv, KeysChecked, MovesOn, LocalTypeOK
<1> QED
  BY <1>1, <1>2, <1>3, <1>4 DEF LocalInv

(* One that reads, migrates or replaces files keeps its keys.              *)
LEMMA KeysKept ==
  ASSUME LocalTypeOK, KeysChecked, NEW p \in Process, NEW r, proc' = [proc EXCEPT ![p] = r],
         r.keyStep = proc[p].keyStep, r.key = proc[p].key, UNCHANGED <<keyring, validated>>
  PROVE  KeysChecked'
BY DEF KeysChecked, LocalTypeOK

LEMMA PlacedStep ==
  ASSUME LocalInv, NEW p \in Process, NEW r \in Proc, proc' = [proc EXCEPT ![p] = r],
         Placed(r, files, current), r.keyStep = proc[p].keyStep, r.key = proc[p].key,
         UNCHANGED <<files, current, settings, keyring, validated, bundles>>
  PROVE  LocalInv'
<1>1. LocalTypeOK'
  BY DEF LocalInv, LocalTypeOK
<1>2. current \in Nat /\ \A i \in 1..current : files[i].version \in Nat
  BY FileType DEF LocalInv, LocalTypeOK
<1>3. Grown
  BY <1>2 DEF Grown
<1>4. ProcessesPlaced'
  BY <1>1, <1>3, OthersPlaced DEF LocalInv
<1> QED
  BY <1>1, <1>4, KeysKept DEF LocalInv, FilesMigrated

LEMMA LocalStep == LocalInv /\ [LocalNext]_localVars => LocalInv'
<1> SUFFICES ASSUME LocalInv, [LocalNext]_localVars PROVE LocalInv'
  OBVIOUS
<1>0. LocalTypeOK /\ FilesMigrated /\ ProcessesPlaced /\ KeysChecked
  BY DEF LocalInv
<1>1. CASE UNCHANGED localVars
  BY <1>1 DEF localVars, LocalInv, LocalTypeOK, FilesMigrated, ProcessesPlaced, Placed, KeysChecked
<1>2. ASSUME NEW p \in Process, KeyStep(p) PROVE LocalInv'
  <2>1. bundles \subseteq [valid : BOOLEAN, file : DBFile] /\ \A b \in bundles : Migrated(b.file)
    BY <1>0 DEF LocalTypeOK, FilesMigrated
  <2>2. PICK r : MovesOn(p, r) /\ (r.keyStep = "store" => r.key \in validated')
    BY <1>0, <1>2, KeyMoves
  <2> QED
    BY <1>0, <1>2, <2>1, <2>2, KeyMoves, CalmStep
<1>3. ASSUME NEW p \in Process, FileStep(p) PROVE LocalInv'
  <2>1. PICK r : MovesOn(p, r) /\ (r.keyStep = "store" => proc[p].keyStep = "store" /\ r.key = proc[p].key)
    BY <1>0, <1>3, FileMoves
  <2>2. UNCHANGED <<files, current, keyring, validated>>
    BY <1>0, <1>3, FileMoves
  <2>3. /\ r.keyStep = "store" => r.key \in validated'
        /\ keyring' \in PossibleKeys /\ validated' \subseteq PossibleKeys
        /\ keyring' # NoKey => keyring' \in validated'
    BY <1>0, <2>1, <2>2 DEF KeysChecked, LocalTypeOK
  <2> QED
    BY <1>0, <1>3, <2>1, <2>2, <2>3, FileMoves, CalmStep
<1>4. ASSUME NEW p \in Process, InitializeFails(p),
             UNCHANGED <<files, current, settings, keyring, validated, bundles>>
      PROVE  LocalInv'
  <2>1. PICK r : MovesOn(p, r) /\ (r.keyStep = "store" => proc[p].keyStep = "store" /\ r.key = proc[p].key)
    BY <1>0, <1>4, FailureMoves
  <2>2. r.keyStep = "store" => r.key \in validated'
    BY <1>0, <1>4, <2>1 DEF KeysChecked
  <2> QED
    BY <1>0, <1>4, <2>1, <2>2, CalmStep DEF LocalTypeOK, FilesMigrated, KeysChecked
<1>5. ASSUME NEW p \in Process, ReadSchemaVersion(p) PROVE LocalInv'
  <2>1. UNCHANGED <<files, current, settings, keyring, validated, bundles>>
    BY <1>5 DEF ReadSchemaVersion, KeepsFiles, KeepsKeys
  <2>2. CASE files[current].version > SchemaVersion
    BY <1>4, <1>5, <2>1, <2>2 DEF ReadSchemaVersion
  <2>3. CASE ~(files[current].version > SchemaVersion)
    BY <1>0, <1>5, <2>1, <2>3, ReadsVersion, PlacedStep
  <2> QED
    BY <2>2, <2>3
<1>6. ASSUME NEW p \in Process, ApplyMigration(p) PROVE LocalInv'
  <2>1. CASE MigrationSucceeds(files[proc[p].conn], proc[p].target)
    <3>1. LocalTypeOK' /\ FilesMigrated' /\ ProcessesPlaced'
      BY <1>0, <1>6, <2>1, Migrates
    <3>2. UNCHANGED <<keyring, validated>>
      BY <1>6 DEF ApplyMigration, KeepsKeys
    <3>3. KeysChecked'
      BY <1>0, <1>6, <2>1, <3>2, Migrates, KeysKept
    <3> QED
      BY <3>1, <3>3 DEF LocalInv
  <2>2. CASE ~MigrationSucceeds(files[proc[p].conn], proc[p].target)
    BY <1>4, <1>6, <2>2 DEF ApplyMigration, KeepsKeys
  <2> QED
    BY <2>1, <2>2
<1>7. ASSUME NEW p \in Process, Initialized(p) PROVE LocalInv'
  <2>1. UNCHANGED <<files, current, settings, keyring, validated, bundles>>
    BY <1>7 DEF Initialized, KeepsFiles, KeepsKeys
  <2> QED
    BY <1>0, <1>7, <2>1, Initializes, PlacedStep
<1>8. ASSUME NEW p \in Process, RestoreBackup(p) PROVE LocalInv'
  <2>1. UNCHANGED <<keyring, validated>>
    BY <1>8 DEF RestoreBackup, KeepsKeys
  <2>2. KeysChecked'
    BY <1>0, <1>8, <2>1, Restores, KeysKept
  <2> QED
    BY <1>0, <1>8, <2>2, Restores DEF LocalInv
<1> QED
  BY <1>1, <1>2, <1>3, <1>5, <1>6, <1>7, <1>8 DEF LocalNext, KeyStep, FileStep

LEMMA LocalInvariant == LocalSpec => []LocalInv
BY LocalInitially, LocalStep, PTL DEF LocalSpec

(* A database that has a version holds exactly the migrations up to it,    *)
(* and so does every backup, with any number of processes that migrate,    *)
(* crash and restore at once: a migration is one transaction, and what was *)
(* applied since the version was read makes the next one fail              *)
(* (sqlite_database.py, initialize and _apply_migration).                  *)
THEOREM VersionTheorem ==
  ASSUME FirstVersion > 0
  PROVE  LocalSpec => []VersionIsWhatWasApplied
<1>1. LocalInv => VersionIsWhatWasApplied
  <2> SUFFICES ASSUME LocalInv PROVE VersionIsWhatWasApplied
    OBVIOUS
  <2>1. DOMAIN files = 1..current
    BY DEF LocalInv, LocalTypeOK
  <2> QED
    BY <2>1 DEF LocalInv, FilesMigrated, Migrated, VersionIsWhatWasApplied
<1> QED
  BY <1>1, LocalInvariant, PTL

(* A restore that reports success has put its file in place with the       *)
(* current schema, also next to the first start of another process:        *)
(* a backup has a version, so nothing makes its tables again.              *)
THEOREM RestoredTheorem == LocalSpec => []RestoredIsMigrated
<1>1. LocalInv => RestoredIsMigrated
  <2> SUFFICES ASSUME LocalInv, NEW p \in Process, proc[p].restored # 0
               PROVE  /\ current >= proc[p].restored
                      /\ current = proc[p].restored => files[current].version = SchemaVersion
    BY DEF RestoredIsMigrated
  <2>1. Placed(proc[p], files, current) /\ current \in Nat
    BY DEF LocalInv, ProcessesPlaced, LocalTypeOK
  <2> QED
    BY <2>1 DEF Placed
<1> QED
  BY <1>1, LocalInvariant, PTL

(* A credential shown as validated was accepted by its provider: the       *)
(* keyring never holds one that was not, whatever the settings say.        *)
THEOREM ShownValidTheorem == LocalSpec => []ShownValidIsValidated
<1>1. LocalInv => ShownValidIsValidated
  BY DEF LocalInv, KeysChecked, ShownValidIsValidated, ShownValid, CredentialInUse
<1> QED
  BY <1>1, LocalInvariant, PTL

(* The schema version of a file never goes back, from a database that has  *)
(* one: two first starts at once are the only way.                         *)
THEOREM ForwardOnlyTheorem ==
  ASSUME FirstVersion > 0
  PROVE  LocalSpec => ForwardOnly
<1>1. LocalInv /\ [LocalNext]_localVars
        => [\A i \in DOMAIN files : files'[i].version >= files[i].version]_localVars
  <2> SUFFICES ASSUME LocalInv, LocalNext
               PROVE  \A i \in DOMAIN files : files'[i].version >= files[i].version
    OBVIOUS
  <2>1. \A i \in DOMAIN files : files[i].version \in Nat /\ HasVersion(i)
    BY FileType DEF LocalInv, LocalTypeOK, HasVersion
  <2>2. CASE UNCHANGED files
    BY <2>1, <2>2
  <2>3. ASSUME NEW p \in Process, ApplyMigration(p)
        PROVE  \A i \in DOMAIN files : files'[i].version >= files[i].version
    <3>1. CASE MigrationSucceeds(files[proc[p].conn], proc[p].target)
      <4>1. \A i \in DOMAIN files : files[i].version <= files'[i].version
        BY <2>1, <2>3, <3>1, Migrates DEF LocalInv
      <4> QED
        BY <4>1
    <3>2. CASE ~MigrationSucceeds(files[proc[p].conn], proc[p].target)
      BY <2>2, <2>3, <3>2 DEF ApplyMigration
    <3> QED
      BY <3>1, <3>2
  <2>4. ASSUME NEW p \in Process, RestoreBackup(p)
        PROVE  \A i \in DOMAIN files : files'[i].version >= files[i].version
    <3>1. \A i \in DOMAIN files : files[i].version <= files'[i].version
      BY <2>4, Restores DEF LocalInv
    <3> QED
      BY <3>1
  <2>5. UNCHANGED files \/ \E p \in Process : ApplyMigration(p) \/ RestoreBackup(p)
    BY DEF LocalNext, StartUp, ReadSchemaVersion, Initialized, ExportBackup, CreateSnapshot,
           RestoreSettings, SaveSettings, WriteForm, SaveKeys, ValidateKey, StoreKey, RecordDiagnostic,
           WriteSettings, RemoveKey, CrashProcess, KeepsFiles
  <2> QED
    BY <2>2, <2>3, <2>4, <2>5
<1> QED
  BY <1>1, LocalInvariant, PTL DEF LocalSpec, ForwardOnly

-----------------------------------------------------------------------------
(* Snapshots and entries.                                                  *)

Row == [id : Nat, account : Accounts, at : Int, tokens : Nat]
PossibleAccounts == Accounts \cup {NoAccount}

Overview == [form : PossibleAccounts, pending : PossibleAccounts, loaded : PossibleAccounts,
             input : PossibleAccounts, tokens : Nat]
Album == [listed : SUBSET Row, picked : SUBSET Row, pruning : PossibleAccounts, protected : SUBSET Row]

SnapshotsTypeOK ==
  /\ snapshots \subseteq Row /\ lastId \in Nat
  /\ overview \in [Window -> Overview] /\ album \in [Window -> Album]

\* The rows of the table and those the windows have read from it.
KnownRows == snapshots \cup UNION {album[w].listed \cup album[w].protected : w \in Window}

\* An id stands for one row for ever, also after the row is gone.
IdsNameRows ==
  /\ \A s \in KnownRows : s.id <= lastId
  /\ \A s, t \in KnownRows : s.id = t.id => s = t
  /\ \A w \in Window : album[w].picked \subseteq album[w].listed

\* The input kept with a loaded wallet is that wallet.
InputsAreLoaded ==
  \A w \in Window : overview[w].loaded # NoAccount => overview[w].input = overview[w].loaded

SnapshotsInv == SnapshotsTypeOK /\ IdsNameRows /\ InputsAreLoaded

LEMMA ReloadedAlbum ==
  ASSUME NEW page \in Album, NEW rows, rows \subseteq Row, NEW account
  PROVE  /\ Reloaded(page, rows, account) \in Album
         /\ Reloaded(page, rows, account).listed \subseteq rows
         /\ Reloaded(page, rows, account).picked \subseteq Reloaded(page, rows, account).listed
         /\ Reloaded(page, rows, account).protected = {}
<1> DEFINE listed == RowsOf(rows, account)
           picked == {s \in listed : s.id \in {t.id : t \in page.picked}}
<1>1. Reloaded(page, rows, account) = [NoAlbum EXCEPT !.listed = listed, !.picked = picked]
  BY DEF Reloaded
<1>2. listed \subseteq rows /\ picked \subseteq listed
  BY DEF RowsOf
<1> HIDE DEF listed, picked
<1>3. NoAlbum \in Album /\ NoAlbum.protected = {}
  BY DEF NoAlbum, Album, PossibleAccounts
<1>4. ASSUME NEW r \in Album
      PROVE  [r EXCEPT !.listed = listed, !.picked = picked]
               \in [listed : {listed}, picked : {picked}, pruning : PossibleAccounts,
                    protected : {r.protected}]
  BY DEF Album
<1> QED
  BY <1>1, <1>2, <1>3, <1>4 DEF Album

(* The rows that are known after a step: those before it, and at most one  *)
(* with the next id.                                                       *)
LEMMA IdsStay ==
  ASSUME SnapshotsTypeOK, IdsNameRows,
         \A w \in Window : album'[w].picked \subseteq album'[w].listed,
         \/ KnownRows' \subseteq KnownRows /\ lastId' = lastId
         \/ \E row : /\ KnownRows' \subseteq KnownRows \cup {row}
                     /\ row.id = lastId + 1 /\ lastId' = lastId + 1
  PROVE  IdsNameRows'
<1>1. \A s \in KnownRows : s.id \in Nat
  BY DEF SnapshotsTypeOK, KnownRows, Row, Album
<1>2. lastId \in Nat
  BY DEF SnapshotsTypeOK
<1>3. CASE KnownRows' \subseteq KnownRows /\ lastId' = lastId
  BY <1>3 DEF IdsNameRows
<1>4. ASSUME NEW row, KnownRows' \subseteq KnownRows \cup {row}, row.id = lastId + 1, lastId' = lastId + 1
      PROVE  IdsNameRows'
  <2>1. \A s \in KnownRows : s.id <= lastId /\ s.id # row.id /\ s.id <= lastId'
    BY <1>1, <1>2, <1>4 DEF IdsNameRows
  <2>2. row.id <= lastId'
    BY <1>2, <1>4
  <2> QED
    BY <1>4, <2>1, <2>2 DEF IdsNameRows
<1> QED
  BY <1>3, <1>4

(* A step of a window's snapshots page: which rows it knows afterwards.    *)
LEMMA AlbumStep ==
  ASSUME SnapshotsInv, NEW w \in Window, NEW page \in Album,
         album' = [album EXCEPT ![w] = page], snapshots' \subseteq snapshots,
         page.listed \subseteq snapshots \cup album[w].listed,
         page.protected \subseteq snapshots \cup album[w].protected,
         page.picked \subseteq page.listed, UNCHANGED <<lastId, overview>>
  PROVE  SnapshotsInv'
<1>1. SnapshotsTypeOK'
  BY DEF SnapshotsInv, SnapshotsTypeOK
<1>2. \A v \in Window : album'[v] = IF v = w THEN page ELSE album[v]
  BY DEF SnapshotsInv, SnapshotsTypeOK
<1>3. \A v \in Window : album'[v].picked \subseteq album'[v].listed
  BY <1>2 DEF SnapshotsInv, IdsNameRows
<1>4. KnownRows' \subseteq KnownRows
  BY <1>2 DEF KnownRows
<1>5. IdsNameRows'
  BY <1>3, <1>4, IdsStay DEF SnapshotsInv
<1> QED
  BY <1>1, <1>5 DEF SnapshotsInv, InputsAreLoaded

(* A step of a window's overview page.                                     *)
LEMMA OverviewStep ==
  ASSUME SnapshotsInv, NEW w \in Window, NEW page \in Overview,
         overview' = [overview EXCEPT ![w] = page],
         page.loaded # NoAccount => page.input = page.loaded,
         UNCHANGED <<snapshots, lastId, album>>
  PROVE  SnapshotsInv'
<1>1. SnapshotsTypeOK' /\ InputsAreLoaded'
  BY DEF SnapshotsInv, SnapshotsTypeOK, InputsAreLoaded
<1>2. IdsNameRows'
  BY DEF SnapshotsInv, IdsNameRows, KnownRows
<1> QED
  BY <1>1, <1>2 DEF SnapshotsInv

LEMMA OverviewActions ==
  ASSUME SnapshotsInv, NEW w \in Window,
         \/ \E a \in Accounts : EditForm(w, a) \/ OpenInOverview(w, a)
         \/ LoadWallet(w) \/ WalletLoaded(w) \/ WalletLoadError(w)
  PROVE  SnapshotsInv'
<1>0. overview[w] \in Overview /\ overview \in [Window -> Overview] /\ InputsAreLoaded
  BY DEF SnapshotsInv, SnapshotsTypeOK
<1>1. UNCHANGED <<snapshots, lastId, album>>
  BY DEF EditForm, OpenInOverview, LoadWallet, WalletLoaded, WalletLoadError
<1>2. ASSUME NEW a \in Accounts, EditForm(w, a) \/ OpenInOverview(w, a) PROVE SnapshotsInv'
  <2> DEFINE r1 == [overview[w] EXCEPT !.form = a]
             r2 == [overview[w] EXCEPT !.form = a, !.pending = a]
  <2>1. ASSUME NEW r \in {r1, r2}
        PROVE  r \in Overview /\ (r.loaded # NoAccount => r.input = r.loaded)
    BY <1>0, <2>1 DEF Overview, PossibleAccounts, InputsAreLoaded
  <2>2. \E r \in {r1, r2} : overview' = [overview EXCEPT ![w] = r]
    BY <1>0, <1>2 DEF EditForm, OpenInOverview
  <2> HIDE DEF r1, r2
  <2> QED
    BY <1>1, <2>1, <2>2, OverviewStep
<1>3. CASE LoadWallet(w)
  <2> DEFINE r == [overview[w] EXCEPT !.pending = overview[w].form]
  <2>1. r \in Overview /\ (r.loaded # NoAccount => r.input = r.loaded)
    BY <1>0 DEF Overview, InputsAreLoaded
  <2>2. overview' = [overview EXCEPT ![w] = r]
    BY <1>0, <1>3 DEF LoadWallet
  <2> HIDE DEF r
  <2> QED
    BY <1>1, <2>1, <2>2, OverviewStep
<1>4. CASE WalletLoaded(w)
  <2>1. PICK tokens \in 0..MaxBalance :
          overview' = [overview EXCEPT ![w].pending = NoAccount, ![w].loaded = overview[w].pending,
                         ![w].input = overview[w].pending, ![w].tokens = tokens]
    BY <1>4 DEF WalletLoaded, LoadedInput
  <2> DEFINE r == [overview[w] EXCEPT !.pending = NoAccount, !.loaded = overview[w].pending,
                     !.input = overview[w].pending, !.tokens = tokens]
  <2>2. overview' = [overview EXCEPT ![w] = r]
    BY <1>0, <2>1
  <2>3. tokens \in Nat
    BY UserDataAssumption
  <2>4. r \in Overview /\ r.input = r.loaded
    BY <1>0, <2>3 DEF Overview, PossibleAccounts
  <2> HIDE DEF r
  <2> QED
    BY <1>1, <2>2, <2>4, OverviewStep
<1>5. CASE WalletLoadError(w)
  <2> DEFINE r == NoOverview(overview[w].form)
  <2>1. r \in Overview /\ r.loaded = NoAccount
    BY <1>0 DEF NoOverview, Overview, PossibleAccounts
  <2>2. overview' = [overview EXCEPT ![w] = r]
    BY <1>5 DEF WalletLoadError
  <2> HIDE DEF r
  <2> QED
    BY <1>1, <2>1, <2>2, OverviewStep
<1> QED
  BY <1>2, <1>3, <1>4, <1>5

LEMMA AlbumActions ==
  ASSUME SnapshotsInv, NEW w \in Window,
         \/ \E a \in Accounts : RefreshSnapshots(w, a) \/ DeleteSelected(w, a)
         \/ \E a \in Accounts, keep \in {0, 1} : PruneSnapshots(w, a, keep)
         \/ PickSnapshots(w) \/ PruneRest(w)
  PROVE  SnapshotsInv'
<1>0. /\ album[w] \in Album /\ album \in [Window -> Album] /\ snapshots \subseteq Row
      /\ album[w].picked \subseteq album[w].listed
  BY DEF SnapshotsInv, SnapshotsTypeOK, IdsNameRows
<1>1. UNCHANGED <<lastId, overview>>
  BY DEF RefreshSnapshots, DeleteSelected, PruneSnapshots, PickSnapshots, PruneRest
<1>2. ASSUME NEW page \in Album, NEW rows, rows \subseteq snapshots, NEW a,
             album' = [album EXCEPT ![w] = Reloaded(page, rows, a)], snapshots' \subseteq snapshots
      PROVE  SnapshotsInv'
  <2> DEFINE r == Reloaded(page, rows, a)
  <2>1. rows \subseteq Row
    BY <1>0, <1>2
  <2>2. r \in Album /\ r.listed \subseteq rows /\ r.picked \subseteq r.listed /\ r.protected = {}
    BY <2>1, ReloadedAlbum
  <2>3. album' = [album EXCEPT ![w] = r]
    BY <1>2
  <2> HIDE DEF r
  <2>4. r.listed \subseteq snapshots \cup album[w].listed
        /\ r.protected \subseteq snapshots \cup album[w].protected
    BY <1>2, <2>2
  <2> QED
    BY <1>1, <1>2, <2>2, <2>3, <2>4, AlbumStep
<1>3. ASSUME NEW a \in Accounts, RefreshSnapshots(w, a) PROVE SnapshotsInv'
  BY <1>0, <1>2, <1>3 DEF RefreshSnapshots
<1>4. ASSUME NEW a \in Accounts, DeleteSelected(w, a) PROVE SnapshotsInv'
  <2> DEFINE kept == {s \in snapshots : s.id \notin {t.id : t \in album[w].picked}}
             page == [album[w] EXCEPT !.picked = {}]
  <2>1. page \in Album /\ kept \subseteq snapshots
    BY <1>0 DEF Album
  <2>2. snapshots' = kept /\ album' = [album EXCEPT ![w] = Reloaded(page, kept, a)]
    BY <1>4 DEF DeleteSelected
  <2> HIDE DEF kept, page
  <2> QED
    BY <1>2, <2>1, <2>2
<1>5. ASSUME NEW a \in Accounts, NEW keep, PruneSnapshots(w, a, keep) PROVE SnapshotsInv'
  <2> DEFINE protected == Newest(RowsOf(snapshots, a), keep)
             r == [album[w] EXCEPT !.pruning = a, !.protected = protected]
  <2>1. protected \subseteq snapshots
    BY DEF Newest, RowsOf
  <2>2. album' = [album EXCEPT ![w] = r] /\ snapshots' = snapshots
    BY <1>0, <1>5 DEF PruneSnapshots
  <2> HIDE DEF protected
  <2>3. /\ r \in Album /\ r.listed = album[w].listed /\ r.picked = album[w].picked
        /\ r.protected = protected
    BY <1>0, <2>1 DEF Album, PossibleAccounts
  <2> HIDE DEF r
  <2> QED
    BY <1>0, <1>1, <2>1, <2>2, <2>3, AlbumStep
<1>6. CASE PickSnapshots(w)
  <2>1. PICK rows \in SUBSET album[w].listed : album' = [album EXCEPT ![w].picked = rows]
    BY <1>6 DEF PickSnapshots
  <2> DEFINE r == [album[w] EXCEPT !.picked = rows]
  <2>2. album' = [album EXCEPT ![w] = r] /\ snapshots' = snapshots
    BY <1>0, <1>6, <2>1 DEF PickSnapshots
  <2>3. /\ r \in Album /\ r.listed = album[w].listed /\ r.picked = rows
        /\ r.protected = album[w].protected
    BY <1>0 DEF Album
  <2> HIDE DEF r
  <2> QED
    BY <1>1, <2>2, <2>3, AlbumStep
<1>7. CASE PruneRest(w)
  <2> DEFINE kept == {s \in snapshots : s.account # album[w].pruning
                        \/ s.id \in {t.id : t \in album[w].protected}}
  <2>1. snapshots' = kept /\ album' = [album EXCEPT ![w] = Reloaded(album[w], kept, album[w].pruning)]
    BY <1>7 DEF PruneRest
  <2>2. kept \subseteq snapshots
    OBVIOUS
  <2> HIDE DEF kept
  <2> QED
    BY <1>0, <1>2, <2>1, <2>2
<1> QED
  BY <1>3, <1>4, <1>5, <1>6, <1>7

(* A saved snapshot is a new row with the next id, of the wallet that is   *)
(* loaded and that the form names.                                         *)
LEMMA Saves ==
  ASSUME SnapshotsInv, NEW w \in Window, NEW now \in {0, 1}, SaveSnapshot(w, now)
  PROVE  /\ SnapshotsInv'
         /\ \E row : /\ snapshots' = snapshots \cup {row}
                     /\ row.account = overview[w].form /\ row.account = overview[w].loaded
<1>0. overview[w] \in Overview /\ lastId \in Nat
  BY DEF SnapshotsInv, SnapshotsTypeOK
<1> DEFINE row == [id |-> lastId + 1, account |-> overview[w].loaded, at |-> now,
                   tokens |-> overview[w].tokens]
<1>1. /\ snapshots' = snapshots \cup {row} /\ lastId' = row.id
      /\ overview[w].loaded # NoAccount /\ overview[w].form = overview[w].input
      /\ UNCHANGED <<overview, album>>
  BY DEF SaveSnapshot, InsertSnapshot, LastId
<1>2. row.account = overview[w].form /\ row.account = overview[w].loaded
  BY <1>1 DEF SnapshotsInv, InputsAreLoaded
<1>3. row \in Row /\ row.id = lastId + 1
  BY <1>0, <1>1 DEF Row, Overview, PossibleAccounts
<1> HIDE DEF row
<1>4. SnapshotsTypeOK'
  BY <1>0, <1>1, <1>3 DEF SnapshotsInv, SnapshotsTypeOK
<1>5. KnownRows' \subseteq KnownRows \cup {row}
  BY <1>1 DEF KnownRows
<1>6. \A v \in Window : album'[v].picked \subseteq album'[v].listed
  BY <1>1 DEF SnapshotsInv, IdsNameRows
<1>7. IdsNameRows'
  BY <1>1, <1>3, <1>5, <1>6, IdsStay DEF SnapshotsInv
<1> QED
  BY <1>1, <1>2, <1>4, <1>7 DEF SnapshotsInv, InputsAreLoaded

LEMMA SnapshotsStep ==
  ASSUME SnapshotsInv, SnapshotsNext \/ UNCHANGED snapshotVars
  PROVE  SnapshotsInv'
<1>1. CASE UNCHANGED snapshotVars
  BY <1>1 DEF snapshotVars, SnapshotsInv, SnapshotsTypeOK, IdsNameRows, KnownRows, InputsAreLoaded
<1>2. ASSUME NEW w \in Window, NEW now \in {0, 1}, SaveSnapshot(w, now) PROVE SnapshotsInv'
  BY <1>2, Saves
<1>3. CASE SnapshotsNext
  BY <1>2, <1>3, OverviewActions, AlbumActions DEF SnapshotsNext
<1> QED
  BY <1>1, <1>3

LEMMA SnapshotsInitially == SnapshotsInit => SnapshotsInv
<1> SUFFICES ASSUME SnapshotsInit PROVE SnapshotsInv
  OBVIOUS
<1>1. (CHOOSE a \in Accounts : TRUE) \in Accounts
  BY UserDataAssumption
<1>2. \A a \in Accounts : NoOverview(a) \in Overview /\ NoOverview(a).loaded = NoAccount
  BY DEF NoOverview, Overview, PossibleAccounts
<1>3. NoAlbum \in Album /\ NoAlbum.listed = {} /\ NoAlbum.picked = {} /\ NoAlbum.protected = {}
  BY DEF NoAlbum, Album, PossibleAccounts
<1>4. SnapshotsTypeOK
  BY <1>1, <1>2, <1>3 DEF SnapshotsInit, SnapshotsTypeOK
<1>5. KnownRows = {}
  BY <1>3 DEF SnapshotsInit, KnownRows
<1>6. IdsNameRows
  BY <1>3, <1>5 DEF SnapshotsInit, IdsNameRows
<1>7. InputsAreLoaded
  BY <1>1, <1>2 DEF SnapshotsInit, InputsAreLoaded
<1> QED
  BY <1>4, <1>6, <1>7 DEF SnapshotsInv

LEMMA SnapshotsInvariant == UserDataSpec => []SnapshotsInv
<1>1. SnapshotsInv /\ [\/ SnapshotsNext /\ UNCHANGED entryVars
                       \/ EntriesNext /\ UNCHANGED snapshotVars]_<<snapshotVars, entryVars>>
        => SnapshotsInv'
  BY SnapshotsStep
<1> QED
  BY <1>1, SnapshotsInitially, PTL DEF UserDataSpec

(* Of two rows one is the later, and never each of the other.              *)
LEMMA OneIsLater ==
  ASSUME NEW s \in Row, NEW t \in Row, s.id # t.id
  PROVE  Later(s, t) <=> ~Later(t, s)
<1>1. s.id \in Nat /\ t.id \in Nat /\ s.at \in Int /\ t.at \in Int
  BY DEF Row
<1> QED
  BY <1>1 DEF Later

(* A comparison does not depend on the order of selection: ids are given   *)
(* once, so that of two selected rows one comes after the other by time    *)
(* and id, also when they were saved within the same second                *)
(* (snapshot_compare_service.py, compare_snapshots, _ordered_snapshots).   *)
THEOREM ComparisonTheorem == UserDataSpec => []ComparisonIgnoresOrder
<1>1. SnapshotsInv => ComparisonIgnoresOrder
  <2> SUFFICES ASSUME SnapshotsInv, NEW w \in Window, NEW s \in album[w].picked, NEW t \in album[w].picked
               PROVE  Compare(s, t) = Compare(t, s)
    BY DEF ComparisonIgnoresOrder
  <2>1. s \in Row /\ t \in Row /\ s \in KnownRows /\ t \in KnownRows
    BY DEF SnapshotsInv, SnapshotsTypeOK, IdsNameRows, KnownRows, Album
  <2>2. CASE s.id = t.id
    BY <2>1, <2>2 DEF SnapshotsInv, IdsNameRows
  <2>3. CASE s.id # t.id
    <3>1. Ordered(s, t) = Ordered(t, s)
      BY <2>1, <2>3, OneIsLater DEF Ordered
    <3> QED
      BY <3>1 DEF Compare
  <2> QED
    BY <2>2, <2>3
<1> QED
  BY <1>1, SnapshotsInvariant, PTL

(* A deleted snapshot is the very row that a window listed and had         *)
(* selected, although it is deleted by its id, in a table that other       *)
(* processes change; pruning keeps what it found among the newest; and an  *)
(* entry goes by the key of the selected one (snapshots_repository.py).    *)
THEOREM OnlySelectedTheorem == UserDataSpec => OnlySelectedIsRemoved
<1> DEFINE Step == \/ SnapshotsNext /\ UNCHANGED entryVars
                   \/ EntriesNext /\ UNCHANGED snapshotVars
           RemovedSnapshots == \A s \in snapshots \ snapshots' : \E w \in Window :
             \/ s \in album[w].picked
             \/ s.account = album[w].pruning /\ s \notin album[w].protected
           RemovedEntries == \A e \in entries : e.key \notin {x.key : x \in entries'}
             => \E w \in Window : e.key = desk[w].selected.key
<1>1. ASSUME SnapshotsInv, SnapshotsNext PROVE RemovedSnapshots
  <2>1. ASSUME NEW w \in Window, NEW a \in Accounts, DeleteSelected(w, a) PROVE RemovedSnapshots
    <3>1. snapshots' = {s \in snapshots : s.id \notin {t.id : t \in album[w].picked}}
      BY <2>1 DEF DeleteSelected
    <3>2. ASSUME NEW s \in snapshots, s \notin snapshots' PROVE s \in album[w].picked
      <4>1. PICK t \in album[w].picked : t.id = s.id
        BY <3>1, <3>2
      <4>2. s \in KnownRows /\ t \in KnownRows
        BY <1>1 DEF SnapshotsInv, IdsNameRows, KnownRows
      <4> QED
        BY <1>1, <4>1, <4>2 DEF SnapshotsInv, IdsNameRows
    <3> QED
      BY <3>2
  <2>2. ASSUME NEW w \in Window, PruneRest(w) PROVE RemovedSnapshots
    <3>1. snapshots' = {s \in snapshots : s.account # album[w].pruning
                          \/ s.id \in {t.id : t \in album[w].protected}}
      BY <2>2 DEF PruneRest
    <3> QED
      BY <3>1
  <2>3. \/ snapshots \subseteq snapshots'
        \/ \E w \in Window, a \in Accounts : DeleteSelected(w, a)
        \/ \E w \in Window : PruneRest(w)
    BY <1>1 DEF SnapshotsNext, LoadWallet, WalletLoaded, WalletLoadError, PickSnapshots, SaveSnapshot,
                InsertSnapshot, EditForm, OpenInOverview, RefreshSnapshots, PruneSnapshots
  <2> QED
    BY <2>1, <2>2, <2>3
<1>2. ASSUME EntriesNext PROVE RemovedEntries
  <2>1. ASSUME NEW w \in Window, SaveEntry(w) PROVE RemovedEntries
    <3> DEFINE row == Upserted(desk[w].form)
    <3>1. entries' = (entries \ OfKey(row.key)) \cup {row}
      BY <2>1 DEF SaveEntry
    <3> HIDE DEF row
    <3> QED
      BY <3>1 DEF OfKey
  <2>2. ASSUME NEW w \in Window, RemoveEntry(w) PROVE RemovedEntries
    BY <2>2 DEF RemoveEntry, RemovedKey, OfKey
  <2>3. entries' = entries \/ \E w \in Window : SaveEntry(w) \/ RemoveEntry(w)
    BY <1>2 DEF EntriesNext, EditEntry, SelectEntry, LoadEntry, RefreshEntries
  <2> QED
    BY <2>1, <2>2, <2>3
<1>3. SnapshotsInv /\ [Step]_<<snapshotVars, entryVars>>
        => [RemovedSnapshots /\ RemovedEntries]_<<snapshotVars, entryVars>>
  <2>1. UNCHANGED snapshotVars => RemovedSnapshots
    BY DEF snapshotVars
  <2>2. UNCHANGED entryVars => RemovedEntries
    BY DEF entryVars
  <2> HIDE DEF RemovedSnapshots, RemovedEntries
  <2> QED
    BY <1>1, <1>2, <2>1, <2>2
<1> QED
  BY <1>3, SnapshotsInvariant, PTL DEF UserDataSpec, OnlySelectedIsRemoved

(* A snapshot is saved under the wallet whose balances it keeps, and the   *)
(* form names that wallet: the input kept with the loaded wallet is the    *)
(* one the load was started for (overview_view.py).                        *)
THEOREM SnapshotIsOfItsFormTheorem == UserDataSpec => SnapshotIsOfItsForm
<1> DEFINE Step == \/ SnapshotsNext /\ UNCHANGED entryVars
                   \/ EntriesNext /\ UNCHANGED snapshotVars
           Added == \A s \in snapshots' \ snapshots : \E w \in Window :
                      s.account = overview[w].form /\ s.account = overview[w].loaded
<1>1. ASSUME SnapshotsInv, SnapshotsNext PROVE Added
  <2>1. ASSUME NEW w \in Window, NEW now \in {0, 1}, SaveSnapshot(w, now) PROVE Added
    <3>1. PICK row : /\ snapshots' = snapshots \cup {row}
                     /\ row.account = overview[w].form /\ row.account = overview[w].loaded
      BY <1>1, <2>1, Saves
    <3> QED
      BY <3>1
  <2>2. \/ snapshots' \subseteq snapshots
        \/ \E w \in Window, now \in {0, 1} : SaveSnapshot(w, now)
    BY <1>1 DEF SnapshotsNext, LoadWallet, WalletLoaded, WalletLoadError, PickSnapshots, PruneRest,
                DeleteSelected, EditForm, OpenInOverview, RefreshSnapshots, PruneSnapshots
  <2> QED
    BY <2>1, <2>2
<1>2. SnapshotsInv /\ [Step]_<<snapshotVars, entryVars>> => [Added]_snapshotVars
  <2> HIDE DEF Added
  <2> QED
    BY <1>1
<1> QED
  BY <1>2, SnapshotsInvariant, PTL DEF UserDataSpec, SnapshotIsOfItsForm
=============================================================================
