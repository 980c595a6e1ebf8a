------------------------------- MODULE Store --------------------------------
(***************************************************************************)
(* The database file: programs of several releases initialise it when they *)
(* start, and the backup command copies it while they write.               *)
(*                                                                         *)
(* SQLite's part is external: a transaction commits at once or not at all, *)
(* BEGIN IMMEDIATE is granted to one at a time, and a copy that is made in *)
(* steps starts again when the source was written in between.              *)
(***************************************************************************)
EXTENDS Naturals

CONSTANTS
    Programs,  \* processes that initialise the database: backends and gateways
    Backups,   \* processes of the backup command
    Release,   \* the latest_schema_version of each of them
    Top,       \* the highest of them
    MaxRows,   \* bound: rows written by the programs
    Nobody,
    Nothing,   \* no file
    Theirs     \* a file that is not a backup

Versions == 0..Top

ASSUME StoreAssumption ==
    /\ Top \in Nat
    /\ Release \in [Programs \cup Backups -> 1..Top]
    /\ MaxRows \in Nat
    /\ Nobody \notin Programs
    /\ Nothing # Theirs

VARIABLES
    db,       \* the committed database
    writer,   \* the program in an immediate transaction
    program,  \* the programs
    backup,   \* the backup commands
    target,   \* the file at the destination of the backups
    theirs    \* history: the destination has a file that its owner put there

storeVars == <<db, writer, program, backup, target, theirs>>

\* How often each migration was applied, and a count of the rows.
Database == [version: Versions, applied: [1..Top -> Nat], rows: 0..MaxRows]
Empty    == [version |-> 0, applied |-> [m \in 1..Top |-> 0], rows |-> 0]

\* The version a program found with its transaction begun.
Program  == [at: {"off", "loaded", "migrating", "on"}, found: Versions]
Off      == [at |-> "off", found |-> 0]

\* A copy is sound or fails the integrity and foreign key checks.
Copy     == [of: Database, sound: BOOLEAN]
NoCopy   == [of |-> Empty, sound |-> FALSE]

\* The rows that were there when the command was started.
Backup   == [at: {"idle", "open", "copy", "verify", "publish", "link", "unlink"},
             copy: Copy, since: 0..MaxRows]
Waiting  == [at |-> "idle", copy |-> NoCopy, since |-> 0]

Published == [by: Backups, copy: Copy, since: 0..MaxRows]

StoreTypeOK ==
    /\ db \in Database
    /\ writer \in Programs \cup {Nobody}
    /\ program \in [Programs -> Program]
    /\ backup \in [Backups -> Backup]
    /\ target \in Published \cup {Nothing, Theirs}
    /\ theirs \in BOOLEAN

StoreInit ==
    /\ db = Empty
    /\ writer = Nobody
    /\ program = [p \in Programs |-> Off]
    /\ backup = [b \in Backups |-> Waiting]
    /\ target = Nothing
    /\ theirs = FALSE

-----------------------------------------------------------------------------
(* Database.initialize                                                     *)

\* Fault: the version is read before the transaction is begun.
Granted_Later == TRUE

\* BEGIN IMMEDIATE waits for the writer, up to its busy timeout.
Granted == writer = Nobody

Begin(p) ==
    /\ program[p].at = "loaded"
    /\ Granted
    /\ writer' = p
    /\ program' = [program EXCEPT ![p] = [at |-> "migrating", found |-> db.version]]
    /\ UNCHANGED <<db, backup, target, theirs>>

\* migrations[current_version:]
Pending(p) == {m \in 1..Release[p] : m > program[p].found}

\* The pending migrations, the version with each of them, and COMMIT.  A newer
\* database is refused.
Migrate(p) ==
    /\ program[p].at = "migrating"
    /\ program[p].found <= Release[p]
    /\ db' = [version |-> Release[p],
              applied |-> [m \in 1..Top |-> db.applied[m] + IF m \in Pending(p) THEN 1 ELSE 0],
              rows |-> db.rows]
    /\ writer' = Nobody
    /\ program' = [program EXCEPT ![p] = [at |-> "on", found |-> program[p].found]]
    /\ UNCHANGED <<backup, target, theirs>>

\* A newer schema, an error of a migration, a busy database, the end of the
\* program or its crash: the transaction is rolled back.
Stop(p) ==
    /\ program[p].at # "off"
    /\ program' = [program EXCEPT ![p] = Off]
    /\ writer' = IF writer = p THEN Nobody ELSE writer
    /\ UNCHANGED <<db, backup, target, theirs>>

\* A transaction of one of the repositories.
WriteRow(p) ==
    /\ program[p].at = "on"
    /\ writer = Nobody
    /\ db.rows < MaxRows
    /\ db' = [db EXCEPT !.rows = db.rows + 1]
    /\ UNCHANGED <<writer, program, backup, target, theirs>>

-----------------------------------------------------------------------------
(* BackupService.create                                                    *)

Put(b, place, copy) ==
    backup' = [backup EXCEPT ![b] = [at |-> place, copy |-> copy, since |-> backup[b].since]]
At(b, place) == Put(b, place, backup[b].copy)

\* _validate_destination and _validate_source
BeginBackup(b) ==
    /\ backup[b].at = "idle"
    /\ target = Nothing
    /\ backup' = [backup EXCEPT ![b] = [at |-> "open", copy |-> NoCopy, since |-> db.rows]]
    /\ UNCHANGED <<db, writer, program, target, theirs>>

\* The source has this program's schema; the temporary file is created, and the
\* first pages copied.
OpenSource(b) ==
    /\ backup[b].at = "open"
    /\ db.version = Release[b]
    /\ \E sound \in BOOLEAN : Put(b, "copy", [of |-> db, sound |-> sound])
    /\ UNCHANGED <<db, writer, program, target, theirs>>

\* The rest of the pages, or all of them anew.
CopyPages(b) ==
    /\ backup[b].at = "copy"
    /\ IF backup[b].copy.of = db
       THEN At(b, "verify")
       ELSE Put(b, "copy", [of |-> db, sound |-> backup[b].copy.sound])
    /\ UNCHANGED <<db, writer, program, target, theirs>>

\* Fault: only the integrity of the copy is verified.
Verified_NoVersion(b) == backup[b].copy.sound

\* _verify: the copy's own schema version, integrity and foreign keys.
Verified(b) ==
    /\ backup[b].copy.of.version = Release[b]
    /\ backup[b].copy.sound

VerifyCopy(b) ==
    /\ backup[b].at = "verify"
    /\ Verified(b)
    /\ At(b, "publish")
    /\ UNCHANGED <<db, writer, program, target, theirs>>

\* _publish looks at the destination again and synchronises the copy.
CheckTarget(b) ==
    /\ backup[b].at = "publish"
    /\ target = Nothing
    /\ At(b, "link")
    /\ UNCHANGED <<db, writer, program, target, theirs>>

\* os.link fails when there is a file.
Link(b) ==
    /\ backup[b].at = "link"
    /\ target = Nothing
    /\ target' = [by |-> b, copy |-> backup[b].copy, since |-> backup[b].since]
    /\ At(b, "unlink")
    /\ UNCHANGED <<db, writer, program, theirs>>

\* The temporary name is removed, after an error too; a crash leaves it.
EndBackup(b) ==
    /\ backup[b].at # "idle"
    /\ backup' = [backup EXCEPT ![b] = Waiting]
    /\ UNCHANGED <<db, writer, program, target, theirs>>

-----------------------------------------------------------------------------
(* The owner of the destination.                                           *)

PutFile ==
    /\ target = Nothing
    /\ target' = Theirs
    /\ theirs' = TRUE
    /\ UNCHANGED <<db, writer, program, backup>>

RemoveFile ==
    /\ target # Nothing
    /\ target' = Nothing
    /\ theirs' = FALSE
    /\ UNCHANGED <<db, writer, program, backup>>

-----------------------------------------------------------------------------
(* Properties.                                                             *)

Whole(d) == \A m \in 1..Top : d.applied[m] = IF m <= d.version THEN 1 ELSE 0

\* The schema is the result of every migration up to its version, each applied
\* once, however many programs of whichever release start together, fail or are
\* killed; and a program that runs has at least the schema it was written for.
SchemaWhole ==
    /\ Whole(db)
    /\ \A p \in Programs : program[p].at = "on" => db.version >= Release[p]

\* A file that its owner put at the destination is still there, and a backup is
\* a sound copy with the schema of the release that made it and with every row
\* that was there when the command was started, although programs write, and
\* may migrate the database, while it is copied.
BackupIsSound ==
    /\ theirs => target = Theirs
    /\ target \notin {Nothing, Theirs} =>
           /\ target.copy.sound
           /\ target.copy.of.version = Release[target.by]
           /\ Whole(target.copy.of)
           /\ target.copy.of.rows >= target.since

\* What keeps the schema whole: a program migrates only while it is the writer,
\* from the version it found.
MigrationInv ==
    \A p \in Programs : program[p].at = "migrating" =>
                           writer = p /\ program[p].found = db.version

\* What keeps backups sound: a copy is of a whole schema and has the rows it must
\* have, and what is about to be published was verified.
CopyInv(b) ==
    /\ backup[b].at # "idle" => db.rows >= backup[b].since
    /\ backup[b].at \notin {"idle", "open"} =>
           /\ Whole(backup[b].copy.of)
           /\ backup[b].copy.of.rows >= backup[b].since
    /\ backup[b].at \in {"publish", "link"} => Verified(b)

StoreInv ==
    /\ SchemaWhole
    /\ MigrationInv
    /\ BackupIsSound
    /\ \A b \in Backups : CopyInv(b)

=============================================================================
