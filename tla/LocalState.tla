----------------------------- MODULE LocalState -----------------------------
(***************************************************************************)
(* What the application keeps on the machine and how it comes and goes:    *)
(* the SQLite file with its migrations, the settings file, the keyring,    *)
(* and backups of the first two.  Two processes may run, each with its     *)
(* window and one backup task; any of them may crash between two steps.    *)
(* Tables are named by the migration that makes them, keys by names; there *)
(* is one provider.                                                        *)
(***************************************************************************)
EXTENDS Integers, Sequences

CONSTANTS
  Process,
  SchemaVersion,   \* _SCHEMA_VERSION
  FirstVersion,    \* the schema the database has at first, 0 for a new file
  ForeignVersions, \* schema versions of backups made by other installations
  Keys,            \* API keys a user may enter
  EnvironmentKey,  \* the key in the environment
  NoKey,
  MaxCrashes, MaxRestores, MaxExports, MaxEdits,   \* bounds; a failed write counts as a crash
  MaxEvents        \* bound on all of these together

ASSUME LocalStateAssumption ==
  /\ {SchemaVersion, FirstVersion, MaxCrashes, MaxRestores, MaxExports, MaxEdits, MaxEvents} \subseteq Nat
  /\ ForeignVersions \subseteq Nat \ {0} /\ SchemaVersion > 0
  /\ NoKey \notin Keys /\ EnvironmentKey \notin Keys

VARIABLES
  files,      \* every database file there has been, by number
  current,    \* the number of the file at the path
  settings,   \* the settings file: readable, VALID recorded for the keyring
  keyring,    \* the key it holds
  validated,  \* history: keys the provider accepted
  bundles,    \* backups that can be restored
  proc,       \* what each process does
  used        \* bounds used up

localVars == <<files, current, settings, keyring, validated, bundles, proc, used>>

\* The first migration creates what is not there, the others fail on a table
\* or a column that is.
Repeatable(migration) == migration = 1

DatabaseFile(version) == [version |-> version, applied |-> 1..version]

\* A process: the task of its worker, the step it is at, the connection of
\* its migrations, what it restores, how its restore ended; and the step its
\* window is at in saving a key and in saving the form.
Stopped == [task |-> "stopped", step |-> "none", conn |-> 0, target |-> 0,
            bundle |-> 0, restored |-> 0, key |-> NoKey, keyStep |-> "none", form |-> "none"]

\* The settings file as it is written, and cut off in the middle of that.
Settings(valid) == [readable |-> TRUE, valid |-> valid]
CutOff == [readable |-> FALSE, valid |-> FALSE]

\* The step at which the settings are to be written, with this diagnostic.
Write(valid) == IF valid THEN "write valid" ELSE "write"
Writes == {Write(TRUE), Write(FALSE)}

LocalInit ==
  /\ files = <<DatabaseFile(FirstVersion)>> /\ current = 1
  /\ settings = Settings(FALSE)
  /\ keyring = NoKey /\ validated = {}
  /\ bundles = {[valid |-> TRUE, file |-> DatabaseFile(v)] : v \in ForeignVersions}
  /\ proc = [p \in Process |-> Stopped]
  /\ used = [crashes |-> 0, restores |-> 0, exports |-> 0, edits |-> 0]

Spend(what, bound) ==
  /\ used[what] < bound
  /\ used.crashes + used.restores + used.exports + used.edits < MaxEvents
  /\ used' = [used EXCEPT ![what] = @ + 1]
Running(p) == proc[p].task \notin {"stopped", "start"}
KeepsFiles == UNCHANGED <<files, current>>
KeepsKeys == UNCHANGED <<keyring, validated>>

\* The settings file is overwritten in place: a write that fails before it
\* leaves the file, one that fails in the middle leaves it cut off.
Overwrite(step) == settings' = Settings(step = "write valid") /\ UNCHANGED used
OverwriteFails == settings' \in {settings, CutOff} /\ Spend("crashes", MaxCrashes)

-----------------------------------------------------------------------------
(* SQLiteDatabase.initialize: on one connection, the version is read and   *)
(* then every migration after it applied in a transaction of its own.      *)

\* The settings are read first: a file that cannot be parsed ends the start.
StartUp(p) ==
  /\ proc[p].task = "stopped" /\ settings.readable
  /\ proc' = [proc EXCEPT ![p].task = "start", ![p].step = "version"]
  /\ UNCHANGED <<settings, bundles, used>> /\ KeepsFiles /\ KeepsKeys

Idle(p) ==
  [proc[p] EXCEPT !.task = "idle", !.step = "none", !.conn = 0, !.target = 0, !.bundle = 0]

\* An error of initialize ends a start, a restore or an export.
InitializeFails(p) ==
  proc' = [proc EXCEPT ![p] = IF proc[p].task = "start" THEN Stopped ELSE Idle(p)]

ReadSchemaVersion(p) ==
  /\ proc[p].step = "version"
  /\ IF files[current].version > SchemaVersion THEN InitializeFails(p)
     ELSE proc' = [proc EXCEPT ![p].step = "migrate", ![p].conn = current,
                               ![p].target = files[current].version + 1]
  /\ UNCHANGED <<settings, bundles, used>> /\ KeepsFiles /\ KeepsKeys

\* Mutant: a migration is applied whatever is there already.
AnyMigration(file, target) == TRUE

MigrationSucceeds(file, target) == Repeatable(target) \/ target \notin file.applied

ApplyMigration(p) ==
  /\ proc[p].step = "migrate" /\ proc[p].target <= SchemaVersion
  /\ LET file == files[proc[p].conn]
         target == proc[p].target
     IN  IF MigrationSucceeds(file, target)
           THEN /\ files' = [files EXCEPT ![proc[p].conn] =
                               [version |-> target, applied |-> file.applied \cup {target}]]
                /\ proc' = [proc EXCEPT ![p].target = target + 1]
           ELSE InitializeFails(p) /\ UNCHANGED files
  /\ UNCHANGED <<current, settings, bundles, used>> /\ KeepsKeys

\* The last step of a start and of a restore; an export goes on.
Initialized(p) ==
  /\ proc[p].step = "migrate" /\ proc[p].target > SchemaVersion
  /\ proc' = [proc EXCEPT ![p] =
       IF proc[p].task = "export" THEN [proc[p] EXCEPT !.step = "snapshot", !.conn = 0, !.target = 0]
       ELSE [Idle(p) EXCEPT !.restored = IF proc[p].task = "restore" THEN proc[p].bundle ELSE @]]
  /\ UNCHANGED <<settings, bundles, used>> /\ KeepsFiles /\ KeepsKeys

-----------------------------------------------------------------------------
(* BackupRestoreService, in the task of the settings view.                 *)

ExportBackup(p) ==
  /\ proc[p].task = "idle" /\ settings.readable /\ Spend("exports", MaxExports)
  /\ proc' = [proc EXCEPT ![p].task = "export", ![p].step = "version",
                          ![p].bundle = IF settings.valid THEN 1 ELSE 0]
  /\ UNCHANGED <<settings, bundles>> /\ KeepsFiles /\ KeepsKeys

\* The snapshot is of one moment, the settings of an earlier one.
CreateSnapshot(p) ==
  /\ proc[p].step = "snapshot"
  /\ bundles' = bundles \cup {[valid |-> proc[p].bundle = 1, file |-> files[current]]}
  /\ proc' = [proc EXCEPT ![p].task = "idle", ![p].step = "none", ![p].bundle = 0]
  /\ UNCHANGED <<settings, used>> /\ KeepsFiles /\ KeepsKeys

\* A bundle without the tables of the first schema is refused with nothing
\* changed; otherwise the file is replaced in one step.
RestoreBackup(p) ==
  /\ proc[p].task = "idle" /\ Spend("restores", MaxRestores)
  /\ \E b \in bundles :
       /\ 1 \in b.file.applied
       /\ files' = Append(files, b.file) /\ current' = Len(files) + 1
       /\ proc' = [proc EXCEPT ![p].task = "restore", ![p].step = Write(b.valid),
                               ![p].bundle = Len(files) + 1]
  /\ UNCHANGED <<settings, bundles>> /\ KeepsKeys

\* Mutant: the restored database is left as it is.
ReportsAtOnce(p) == [proc EXCEPT ![p] = [Idle(p) EXCEPT !.restored = proc[p].bundle]]

AfterSettings(p) == [proc EXCEPT ![p].step = "version"]

RestoreSettings(p) ==
  /\ proc[p].step \in Writes
  /\ \/ Overwrite(proc[p].step) /\ proc' = AfterSettings(p)
     \/ OverwriteFails /\ proc' = [proc EXCEPT ![p] = Idle(p)]
  /\ UNCHANGED bundles /\ KeepsFiles /\ KeepsKeys

-----------------------------------------------------------------------------
(* Settings and keys, in the window: the settings view is not blocked while*)
(* its tasks run, and a key check is one of them.                          *)

\* The form is written with the diagnostics read again just before.
SaveSettings(p) ==
  /\ Running(p) /\ proc[p].form = "none" /\ proc[p].keyStep \in {"none", "check", "store", "remove"}
  /\ settings.readable /\ Spend("edits", MaxEdits)
  /\ proc' = [proc EXCEPT ![p].form = Write(settings.valid)]
  /\ UNCHANGED <<settings, bundles>> /\ KeepsFiles /\ KeepsKeys

WriteForm(p) ==
  /\ proc[p].form \in Writes
  /\ Overwrite(proc[p].form) \/ OverwriteFails
  /\ proc' = [proc EXCEPT ![p].form = "none"]
  /\ UNCHANGED bundles /\ KeepsFiles /\ KeepsKeys

\* A key that was entered is checked in the background; an empty field removes it.
SaveKeys(p) ==
  /\ Running(p) /\ proc[p].keyStep = "none" /\ proc[p].form = "none" /\ Spend("edits", MaxEdits)
  /\ \E k \in Keys \cup {NoKey} :
       proc' = [proc EXCEPT ![p].key = k, ![p].keyStep = IF k = NoKey THEN "remove" ELSE "check"]
  /\ UNCHANGED <<settings, bundles>> /\ KeepsFiles /\ KeepsKeys

KeyDone(p) == [proc EXCEPT ![p].key = NoKey, ![p].keyStep = "none"]

AfterCheck(p, accepted) ==
  IF accepted THEN [proc EXCEPT ![p].keyStep = "store"] ELSE KeyDone(p)

ValidateKey(p) ==
  /\ proc[p].keyStep = "check"
  /\ \E accepted \in BOOLEAN :
       /\ validated' = IF accepted THEN validated \cup {proc[p].key} ELSE validated
       /\ proc' = AfterCheck(p, accepted)
  /\ UNCHANGED <<settings, keyring, bundles, used>> /\ KeepsFiles

\* Setting and deleting.
KeyringHolds(key) == keyring' = key

\* The keyring may refuse.
StoreKey(p) ==
  /\ proc[p].keyStep = "store" /\ proc[p].form = "none"
  /\ \/ KeyringHolds(proc[p].key) /\ proc' = [proc EXCEPT ![p].keyStep = "record"]
     \/ keyring' = keyring /\ proc' = KeyDone(p)
  /\ UNCHANGED <<settings, validated, bundles, used>> /\ KeepsFiles

\* record_success or clear: the settings are read, to be written with the
\* diagnostic replaced; a file that cannot be read ends it.
RecordDiagnostic(p) ==
  /\ proc[p].keyStep \in {"record", "clear"}
  /\ proc' = IF settings.readable
               THEN [proc EXCEPT ![p].keyStep = Write(proc[p].keyStep = "record")]
               ELSE KeyDone(p)
  /\ UNCHANGED <<settings, bundles, used>> /\ KeepsFiles /\ KeepsKeys

WriteSettings(p) ==
  /\ proc[p].keyStep \in Writes
  /\ Overwrite(proc[p].keyStep) \/ OverwriteFails
  /\ proc' = KeyDone(p)
  /\ UNCHANGED bundles /\ KeepsFiles /\ KeepsKeys

\* Without a stored key there is nothing to delete.
RemoveKey(p) ==
  /\ proc[p].keyStep = "remove" /\ proc[p].form = "none"
  /\ \/ KeyringHolds(NoKey) /\ proc' = [proc EXCEPT ![p].keyStep = "clear"]
     \/ keyring # NoKey /\ keyring' = keyring /\ proc' = KeyDone(p)
  /\ UNCHANGED <<settings, validated, bundles, used>> /\ KeepsFiles

\* A crash loses what is in memory, and may cut off what is being written.
CrashProcess(p) ==
  /\ proc[p].task # "stopped" /\ Spend("crashes", MaxCrashes)
  /\ settings' \in {settings} \cup
       (IF {proc[p].step, proc[p].keyStep, proc[p].form} \cap Writes # {} THEN {CutOff} ELSE {})
  /\ proc' = [proc EXCEPT ![p] = Stopped]
  /\ UNCHANGED bundles /\ KeepsFiles /\ KeepsKeys

LocalNext ==
  \E p \in Process :
    \/ StartUp(p) \/ ReadSchemaVersion(p) \/ ApplyMigration(p) \/ Initialized(p)
    \/ ExportBackup(p) \/ CreateSnapshot(p) \/ RestoreBackup(p) \/ RestoreSettings(p)
    \/ SaveSettings(p) \/ WriteForm(p) \/ SaveKeys(p) \/ ValidateKey(p) \/ StoreKey(p)
    \/ RecordDiagnostic(p) \/ WriteSettings(p) \/ RemoveKey(p) \/ CrashProcess(p)

LocalSpec == LocalInit /\ [][LocalNext]_localVars

-----------------------------------------------------------------------------
(* ProviderCredentialDiagnosticsService.status                             *)

CredentialInUse == IF keyring # NoKey THEN keyring ELSE EnvironmentKey

\* Mutant: the recorded state is shown for whatever credential is found.
ShownForAnySource == settings.valid

ShownValid == settings.valid /\ keyring # NoKey

-----------------------------------------------------------------------------
(* Correctness.                                                            *)

(* "Forward-only schema migrations run in order and update the schema      *)
(* version only after successful SQL execution" (sqlite_database.py:3):    *)
(* whichever processes migrate at once, crash or restore meanwhile, every  *)
(* database file and every backup holds exactly the migrations up to its   *)
(* version.  For databases that have a version to begin with.              *)
VersionIsWhatWasApplied ==
  \A file \in {files[i] : i \in DOMAIN files} \cup {b.file : b \in bundles} :
    file.applied = 1..file.version

(* "A schema-v1 backup is accepted and migrated forward after restore"     *)
(* (ARCHITECTURE.md:103): a restore that reports success has put its file  *)
(* in place, and the file has the current schema unless another restore    *)
(* has replaced it since, also when other processes migrate the same file. *)
RestoredIsMigrated ==
  \A p \in Process : proc[p].restored # 0 =>
    /\ current >= proc[p].restored
    /\ current = proc[p].restored => files[current].version = SchemaVersion

(* "A validation recorded for a keyring credential does not apply when the *)
(* application later falls back to an environment credential"              *)
(* (CONFIGURATION.md:73), and keys are stored only once checked: a         *)
(* credential shown as validated has been accepted by its provider,        *)
(* through removals, failing keyrings, restored settings and crashes       *)
(* between the keyring's step and the settings'.                           *)
ShownValidIsValidated ==
  settings.readable /\ ShownValid => CredentialInUse \in validated

(* The same sentence as a property of steps, from a new database: its      *)
(* version never goes back.  Two first starts at once break it.            *)
ForwardOnly ==
  [][\A i \in DOMAIN files : files'[i].version >= files[i].version]_localVars

=============================================================================
