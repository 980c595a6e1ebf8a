---------------------------- MODULE DurableProofs ---------------------------
(* Proofs about the durable state that serves all jobs: first the          *)
(* database, its backups and the configuration, for any number of          *)
(* programs, releases, backups and settings pages; then the journal of the *)
(* Telegram status reader, for any number of updates, scopes and restarts. *)
EXTENDS RuntimeHome, StatusReader, WellFoundedInduction, TLAPS

-----------------------------------------------------------------------------
(* Which variables a step concerns.                                        *)

\* What a step may do to the programs and the schema.
LEMMA ProgramSteps ==
    [Next]_vars =>
        \/ \E p \in Programs : Load(p) \/ Begin(p) \/ Migrate(p) \/ WriteRow(p) \/ Stop(p)
        \/ UNCHANGED <<db, writer, program>>
<1> SUFFICES ASSUME [Next]_vars
             PROVE  \/ \E p \in Programs : Load(p) \/ Begin(p) \/ Migrate(p) \/ WriteRow(p) \/ Stop(p)
                    \/ UNCHANGED <<db, writer, program>>
  OBVIOUS
<1>1. ASSUME NEW p \in Programs, Load(p) \/ StopProgram(p) \/ RunProgram(p)
      PROVE  Load(p) \/ Begin(p) \/ Migrate(p) \/ WriteRow(p) \/ Stop(p)
  BY <1>1, Zenon DEF StopProgram, RunProgram
<1>2. ASSUME NEW b \in Backups, RunBackup(b) PROVE UNCHANGED <<db, writer, program>>
  BY <1>2 DEF RunBackup, BeginBackup, OpenSource, CopyPages, VerifyCopy, CheckTarget, Link,
              EndBackup
<1>3. ASSUME NEW a \in Adders, Serve(a) PROVE UNCHANGED <<db, writer, program>>
  BY <1>3 DEF Serve, storeVars
<1>4. CASE Owner
  BY <1>4 DEF Owner, PutFile, RemoveFile, storeVars
<1>5. CASE UNCHANGED vars
  BY <1>5 DEF vars, storeVars
<1> QED
  BY <1>1, <1>2, <1>3, <1>4, <1>5, Zenon DEF Next

\* What a step may do to the backups and their destination.
LEMMA BackupSteps ==
    [Next]_vars =>
        \/ \E b \in Backups : RunBackup(b)
        \/ PutFile
        \/ RemoveFile
        \/ UNCHANGED <<backup, target, theirs>>
<1> SUFFICES ASSUME [Next]_vars
             PROVE  \/ \E b \in Backups : RunBackup(b)
                    \/ PutFile
                    \/ RemoveFile
                    \/ UNCHANGED <<backup, target, theirs>>
  OBVIOUS
<1>1. ASSUME NEW p \in Programs, Load(p) \/ StopProgram(p) \/ RunProgram(p)
      PROVE  UNCHANGED <<backup, target, theirs>>
  BY <1>1 DEF Load, StopProgram, RunProgram, Begin, Migrate, WriteRow, Stop
<1>2. ASSUME NEW a \in Adders, Serve(a) PROVE UNCHANGED <<backup, target, theirs>>
  BY <1>2 DEF Serve, storeVars
<1>3. CASE Owner
  BY <1>3 DEF Owner, storeVars
<1>4. CASE UNCHANGED vars
  BY <1>4 DEF vars, storeVars
<1> QED
  BY <1>1, <1>2, <1>3, <1>4, Zenon DEF Next

-----------------------------------------------------------------------------
(* Types.                                                                  *)

\* The values the database and the backups start with are of their types.
LEMMA StartTypes == Empty \in Database /\ Off \in Program /\ NoCopy \in Copy /\ Waiting \in Backup
<1> USE StoreAssumption DEF Versions
<1>1. Empty \in Database
  BY DEF Empty, Database
<1>2. NoCopy \in Copy
  BY <1>1 DEF NoCopy, Copy
<1> QED
  BY <1>1, <1>2 DEF Off, Program, Waiting, Backup

\* Every step keeps the programs and the database in their types.
LEMMA ProgramTypeStep ==
    ASSUME StoreTypeOK, [Next]_vars
    PROVE  db' \in Database /\ writer' \in Programs \cup {Nobody} /\ program' \in [Programs -> Program]
<1> DEFINE Typed == /\ db \in Database
                    /\ writer \in Programs \cup {Nobody}
                    /\ program \in [Programs -> Program]
<1>0. Typed
  BY DEF StoreTypeOK
<1>1. ASSUME NEW p \in Programs, Load(p) PROVE Typed'
  BY <1>0, <1>1, StoreAssumption DEF Load, Program, Versions
<1>2. ASSUME NEW p \in Programs, Begin(p) PROVE Typed'
  <2>1. db.version \in Versions
    BY <1>0 DEF Database
  <2> QED
    BY <2>1, <1>0, <1>2 DEF Begin, Program
<1>3. ASSUME NEW p \in Programs, Migrate(p) PROVE Typed'
  <2>1. db' \in Database
    <3>1. \A m \in 1..Top : db.applied[m] \in Nat
      BY <1>0 DEF Database
    <3>2. [m \in 1..Top |-> db.applied[m] + IF m \in Pending(p) THEN 1 ELSE 0] \in [1..Top -> Nat]
      BY <3>1
    <3>3. Release[p] \in Versions /\ db.rows \in 0..MaxRows
      BY <1>0, StoreAssumption DEF Database, Versions
    <3> QED
      BY <1>3, <3>2, <3>3 DEF Migrate, Database
  <2>2. program' \in [Programs -> Program]
    BY <1>0, <1>3 DEF Migrate, Program
  <2> QED
    BY <1>0, <1>3, <2>1, <2>2 DEF Migrate
<1>4. ASSUME NEW p \in Programs, WriteRow(p) PROVE Typed'
  <2>1. db.rows + 1 \in 0..MaxRows
    BY <1>0, <1>4, StoreAssumption DEF WriteRow, Database
  <2>2. db' \in Database
    BY <1>0, <1>4, <2>1 DEF WriteRow, Database
  <2> QED
    BY <1>0, <1>4, <2>2 DEF WriteRow
<1>5. ASSUME NEW p \in Programs, Stop(p) PROVE Typed'
  BY <1>0, <1>5, StartTypes DEF Stop
<1>6. CASE UNCHANGED <<db, writer, program>>
  BY <1>0, <1>6
<1> QED
  BY <1>1, <1>2, <1>3, <1>4, <1>5, <1>6, ProgramSteps, Zenon

\* Every step keeps the backups and their destination in their types.
LEMMA BackupTypeStep ==
    ASSUME StoreTypeOK, [Next]_vars
    PROVE  /\ backup' \in [Backups -> Backup]
           /\ target' \in Published \cup {Nothing, Theirs}
           /\ theirs' \in BOOLEAN
<1> DEFINE Typed == /\ backup \in [Backups -> Backup]
                    /\ target \in Published \cup {Nothing, Theirs}
                    /\ theirs \in BOOLEAN
<1>0. Typed /\ db \in Database /\ db.rows \in 0..MaxRows
  BY DEF StoreTypeOK, Database
<1>1. ASSUME NEW b \in Backups, NEW place \in {"open", "copy", "verify", "publish", "link", "unlink"},
             NEW copy \in Copy, Put(b, place, copy)
      PROVE  backup' \in [Backups -> Backup]
  BY <1>0, <1>1 DEF Put, Backup
<1>2. \A b \in Backups : backup[b].copy \in Copy /\ backup[b].copy.sound \in BOOLEAN
  BY <1>0 DEF Backup, Copy
<1>3. ASSUME NEW sound \in BOOLEAN PROVE [of |-> db, sound |-> sound] \in Copy
  BY <1>0 DEF Copy
<1>4. ASSUME NEW b \in Backups, BeginBackup(b) PROVE Typed'
  BY <1>0, <1>4, StartTypes DEF BeginBackup, Backup
<1>5. ASSUME NEW b \in Backups, OpenSource(b) PROVE Typed'
  BY <1>0, <1>1, <1>3, <1>5 DEF OpenSource
<1>6. ASSUME NEW b \in Backups, CopyPages(b) PROVE Typed'
  BY <1>0, <1>1, <1>2, <1>3, <1>6 DEF CopyPages, At
<1>7. ASSUME NEW b \in Backups, VerifyCopy(b) \/ CheckTarget(b) PROVE Typed'
  BY <1>0, <1>1, <1>2, <1>7 DEF VerifyCopy, CheckTarget, At
<1>8. ASSUME NEW b \in Backups, Link(b) PROVE Typed'
  <2>1. target' \in Published
    BY <1>0, <1>8 DEF Link, Published, Backup
  <2> QED
    BY <1>0, <1>1, <1>2, <1>8, <2>1 DEF Link, At
<1>9. ASSUME NEW b \in Backups, EndBackup(b) PROVE Typed'
  BY <1>0, <1>9, StartTypes DEF EndBackup
<1>10. CASE PutFile \/ RemoveFile
  BY <1>0, <1>10 DEF PutFile, RemoveFile
<1>11. CASE UNCHANGED <<backup, target, theirs>>
  BY <1>0, <1>11
<1> QED
  BY <1>4, <1>5, <1>6, <1>7, <1>8, <1>9, <1>10, <1>11, BackupSteps, Zenon DEF RunBackup

-----------------------------------------------------------------------------
(* The schema.                                                             *)

\* Every step keeps the schema whole.
LEMMA SchemaStep ==
    ASSUME StoreTypeOK, SchemaWhole, MigrationInv, [Next]_vars
    PROVE  SchemaWhole' /\ MigrationInv'
<1> DEFINE Inv == SchemaWhole /\ MigrationInv
<1>0. /\ db \in Database
      /\ db.version \in Nat
      /\ program \in [Programs -> Program]
      /\ \A p \in Programs : Release[p] \in 1..Top
  BY StoreAssumption DEF StoreTypeOK, Database, Versions
<1>1. ASSUME NEW p \in Programs, Load(p) PROVE Inv'
  BY <1>0, <1>1 DEF Load, SchemaWhole, MigrationInv, Whole
<1>2. ASSUME NEW p \in Programs, Begin(p) PROVE Inv'
  BY <1>0, <1>2, StoreAssumption DEF Begin, Granted, SchemaWhole, MigrationInv, Whole
<1>3. ASSUME NEW p \in Programs, Migrate(p) PROVE Inv'
  <2>1. program[p].found = db.version /\ db.version <= Release[p] /\ writer = p
    BY <1>3 DEF Migrate, MigrationInv
  <2>2. db'.version = Release[p]
    BY <1>3 DEF Migrate
  <2>3. ASSUME NEW m \in 1..Top
        PROVE  db'.applied[m] = IF m <= Release[p] THEN 1 ELSE 0
    <3>1. db'.applied[m] = db.applied[m] + IF m \in Pending(p) THEN 1 ELSE 0
      BY <1>3 DEF Migrate
    <3>2. db.applied[m] = IF m <= db.version THEN 1 ELSE 0
      BY DEF SchemaWhole, Whole
    <3>3. m \in Pending(p) <=> m <= Release[p] /\ m > db.version
      BY <1>0, <2>1, StoreAssumption DEF Pending
    <3> QED
      BY <1>0, <2>1, <3>1, <3>2, <3>3, StoreAssumption
  <2>4. Whole(db')
    BY <2>2, <2>3 DEF Whole
  <2>5. ASSUME NEW q \in Programs, program'[q].at = "on" PROVE db'.version >= Release[q]
    <3>1. CASE q = p
      BY <1>0, <2>2, <3>1, StoreAssumption
    <3>2. CASE q # p
      <4>1. program'[q] = program[q]
        BY <1>0, <1>3, <3>2 DEF Migrate
      <4>2. db.version >= Release[q]
        BY <2>5, <4>1 DEF SchemaWhole
      <4> QED
        BY <1>0, <2>1, <2>2, <4>2, StoreAssumption
    <3> QED
      BY <3>1, <3>2
  <2>6. ASSUME NEW q \in Programs PROVE program'[q].at # "migrating"
    BY <1>0, <1>3, <2>1 DEF Migrate, MigrationInv
  <2> QED
    BY <2>4, <2>5, <2>6 DEF SchemaWhole, MigrationInv
<1>4. ASSUME NEW p \in Programs, WriteRow(p) PROVE Inv'
  <2>1. db'.version = db.version /\ db'.applied = db.applied
    BY <1>0, <1>4 DEF WriteRow, Database
  <2> QED
    BY <1>4, <2>1 DEF WriteRow, SchemaWhole, MigrationInv, Whole
<1>5. ASSUME NEW p \in Programs, Stop(p) PROVE Inv'
  BY <1>0, <1>5 DEF Stop, Off, SchemaWhole, MigrationInv, Whole
<1>6. CASE UNCHANGED <<db, writer, program>>
  BY <1>6 DEF SchemaWhole, MigrationInv, Whole
<1> QED
  BY <1>1, <1>2, <1>3, <1>4, <1>5, <1>6, ProgramSteps, Zenon

\* No step takes rows away.
LEMMA RowsStay == ASSUME StoreTypeOK, [Next]_vars PROVE db.rows \in Nat /\ db'.rows >= db.rows
<1>0. db \in Database /\ db.rows \in Nat
  BY StoreAssumption DEF StoreTypeOK, Database
<1>1. ASSUME NEW p \in Programs, Migrate(p) PROVE db'.rows >= db.rows
  BY <1>0, <1>1 DEF Migrate
<1>2. ASSUME NEW p \in Programs, WriteRow(p) PROVE db'.rows >= db.rows
  BY <1>0, <1>2 DEF WriteRow, Database
<1>3. ASSUME UNCHANGED db PROVE db'.rows >= db.rows
  BY <1>0, <1>3
<1>4. ASSUME NEW p \in Programs, Load(p) \/ Begin(p) \/ Stop(p) PROVE UNCHANGED db
  BY <1>4 DEF Load, Begin, Stop
<1> QED
  BY <1>0, <1>1, <1>2, <1>3, <1>4, ProgramSteps, Zenon

-----------------------------------------------------------------------------
(* The backups.                                                            *)

\* Every step keeps the copies and the published file sound.
LEMMA BackupStep ==
    ASSUME StoreTypeOK, SchemaWhole, BackupIsSound, \A b \in Backups : CopyInv(b), [Next]_vars
    PROVE  BackupIsSound' /\ \A b \in Backups : CopyInv(b)'
<1> DEFINE Inv == BackupIsSound /\ \A b \in Backups : CopyInv(b)
<1>0. /\ db.rows \in Nat
      /\ db'.rows \in Nat
      /\ db'.rows >= db.rows
      /\ Whole(db)
      /\ backup \in [Backups -> Backup]
      /\ \A b \in Backups : backup[b].since \in Nat
  BY RowsStay, ProgramTypeStep, StoreAssumption DEF StoreTypeOK, SchemaWhole, Backup, Database
\* What a step of one backup leaves of the others.
<1>1. ASSUME NEW b \in Backups, NEW other \in Backups, other # b, backup'[other] = backup[other]
      PROVE  CopyInv(other)'
  BY <1>0, <1>1 DEF CopyInv, Verified
<1>2. ASSUME NEW b \in Backups, NEW STATE place, NEW STATE copy, Put(b, place, copy)
      PROVE  /\ backup'[b] = [at |-> place, copy |-> copy, since |-> backup[b].since]
             /\ \A other \in Backups : other # b => CopyInv(other)'
  BY <1>0, <1>1, <1>2 DEF Put
<1>3. ASSUME NEW b \in Backups, BeginBackup(b) PROVE Inv'
  BY <1>0, <1>1, <1>3 DEF BeginBackup, CopyInv, BackupIsSound
<1>4. ASSUME NEW b \in Backups, OpenSource(b) PROVE Inv'
  <2>1. PICK sound \in BOOLEAN : Put(b, "copy", [of |-> db, sound |-> sound])
    BY <1>4 DEF OpenSource
  <2>2. backup'[b] = [at |-> "copy", copy |-> [of |-> db, sound |-> sound], since |-> backup[b].since]
    BY <1>0, <2>1 DEF Put
  <2>3. UNCHANGED <<db, target, theirs>> /\ backup[b].at # "idle"
    BY <1>4 DEF OpenSource
  <2>4. CopyInv(b)'
    BY <1>0, <2>2, <2>3 DEF CopyInv, Whole
  <2> QED
    BY <1>2, <2>1, <2>3, <2>4 DEF BackupIsSound
<1>5. ASSUME NEW b \in Backups, CopyPages(b) PROVE Inv'
  <2>0. UNCHANGED <<db, target, theirs>> /\ backup[b].at = "copy"
    BY <1>5 DEF CopyPages
  <2>1. CASE At(b, "verify")
    <3>1. backup'[b] = [at |-> "verify", copy |-> backup[b].copy, since |-> backup[b].since]
      BY <1>0, <2>1 DEF At, Put
    <3>2. CopyInv(b)'
      BY <1>0, <2>0, <3>1 DEF CopyInv, Whole
    <3> QED
      BY <1>2, <2>0, <2>1, <3>2 DEF At, BackupIsSound
  <2>2. CASE Put(b, "copy", [of |-> db, sound |-> backup[b].copy.sound])
    <3>1. backup'[b] = [at |-> "copy", copy |-> [of |-> db, sound |-> backup[b].copy.sound],
                        since |-> backup[b].since]
      BY <1>0, <2>2 DEF Put
    <3>2. CopyInv(b)'
      BY <1>0, <2>0, <3>1 DEF CopyInv, Whole
    <3> QED
      BY <1>2, <2>0, <2>2, <3>2 DEF BackupIsSound
  <2> QED
    BY <1>5, <2>1, <2>2 DEF CopyPages
<1>6. ASSUME NEW b \in Backups, VerifyCopy(b) PROVE Inv'
  <2>1. backup'[b] = [at |-> "publish", copy |-> backup[b].copy, since |-> backup[b].since]
    BY <1>0, <1>6 DEF VerifyCopy, At, Put
  <2>2. UNCHANGED <<db, target, theirs>> /\ backup[b].at = "verify" /\ Verified(b)
    BY <1>6 DEF VerifyCopy
  <2>3. CopyInv(b)'
    BY <1>0, <2>1, <2>2 DEF CopyInv, Verified, Whole
  <2>4. \A other \in Backups : other # b => CopyInv(other)'
    BY <1>2, <1>6 DEF VerifyCopy, At
  <2> QED
    BY <2>2, <2>3, <2>4 DEF BackupIsSound
<1>7. ASSUME NEW b \in Backups, CheckTarget(b) PROVE Inv'
  <2>1. backup'[b] = [at |-> "link", copy |-> backup[b].copy, since |-> backup[b].since]
    BY <1>0, <1>7 DEF CheckTarget, At, Put
  <2>2. UNCHANGED <<db, target, theirs>> /\ backup[b].at = "publish"
    BY <1>7 DEF CheckTarget
  <2>3. CopyInv(b)'
    BY <1>0, <2>1, <2>2 DEF CopyInv, Verified, Whole
  <2>4. \A other \in Backups : other # b => CopyInv(other)'
    BY <1>2, <1>7 DEF CheckTarget, At
  <2> QED
    BY <2>2, <2>3, <2>4 DEF BackupIsSound
<1>8. ASSUME NEW b \in Backups, Link(b) PROVE Inv'
  <2>1. backup'[b] = [at |-> "unlink", copy |-> backup[b].copy, since |-> backup[b].since]
    BY <1>0, <1>8 DEF Link, At, Put
  <2>2. UNCHANGED <<db, theirs>> /\ backup[b].at = "link"
    BY <1>8 DEF Link
  <2>3. CopyInv(b)'
    BY <1>0, <2>1, <2>2 DEF CopyInv, Verified, Whole
  <2>4. Whole(backup[b].copy.of) /\ backup[b].copy.of.rows >= backup[b].since /\ Verified(b)
    BY <2>2 DEF CopyInv
  <2>5. ~theirs
    BY <1>8, StoreAssumption DEF Link, BackupIsSound
  <2>6. BackupIsSound'
    BY <1>8, <2>4, <2>5 DEF Link, BackupIsSound, Verified
  <2> QED
    BY <1>2, <1>8, <2>3, <2>6 DEF Link, At
<1>9. ASSUME NEW b \in Backups, EndBackup(b) PROVE Inv'
  BY <1>0, <1>1, <1>9 DEF EndBackup, Waiting, CopyInv, BackupIsSound
<1>10. ASSUME UNCHANGED backup PROVE \A b \in Backups : CopyInv(b)'
  BY <1>0, <1>10 DEF CopyInv, Verified
<1>11. CASE PutFile
  BY <1>10, <1>11 DEF PutFile, BackupIsSound
<1>12. CASE RemoveFile
  BY <1>10, <1>12 DEF RemoveFile, BackupIsSound
<1>13. CASE UNCHANGED <<backup, target, theirs>>
  BY <1>10, <1>13 DEF BackupIsSound
<1> QED
  BY <1>3, <1>4, <1>5, <1>6, <1>7, <1>8, <1>9, <1>11, <1>12, <1>13, BackupSteps, Zenon
  DEF RunBackup

-----------------------------------------------------------------------------
(* The library.                                                            *)

\* What a step may do to the configuration and the settings pages.
LEMMA LibrarySteps ==
    [Next]_vars =>
        \/ \E a \in Adders :
               \/ ReadLibrary(a) \/ (\E e \in Entries : Submit(a, e)) \/ WriteTemporary(a)
               \/ Recheck(a) \/ Replace(a) \/ Finish(a) \/ Leave(a)
        \/ \E p \in Programs : StopProgram(p)
        \/ \E raw \in HandMade : Edit(raw)
        \/ UNCHANGED libraryVars
  BY Zenon DEF Next, Load, RunProgram, RunBackup, Owner, Serve, vars

\* Every step keeps the configuration and the settings pages in their types, and
\* the invariant of the library.
LEMMA LibraryStep ==
    ASSUME LibraryTypeOK, LibraryInv, [Next]_vars
    PROVE  LibraryTypeOK' /\ LibraryInv'
<1> DEFINE Inv == LibraryTypeOK /\ LibraryInv
<1>0. /\ Blank \in Adder
      /\ Blank.at = "idle"
  BY LibraryAssumption DEF Blank, Adder, Raw, Entries
<1>1. /\ file \in Raw
      /\ due \in Raw
      /\ adder \in [Adders -> Adder]
  BY DEF LibraryTypeOK
<1>2. ASSUME NEW a \in Adders, ReadLibrary(a) PROVE Inv'
  BY <1>0, <1>2 DEF ReadLibrary, Set, LibraryTypeOK, LibraryInv, EditsKept, Saving, Extended, Adder
<1>3. ASSUME NEW a \in Adders, NEW e \in Entries, Submit(a, e) PROVE Inv'
  <2>1. /\ adder'[a].at = "locked"
        /\ \A other \in Adders : other # a => adder'[other] = adder[other] /\ ~Saving(other)
        /\ UNCHANGED <<file, due>>
    BY <1>1, <1>3 DEF Submit, LockFree, Set, Adder
  <2>2. adder' \in [Adders -> Adder]
    BY <1>1, <1>3 DEF Submit, Set, Adder
  <2>3. LibraryInv'
    BY <2>1 DEF LibraryInv, EditsKept, Saving, Extended
  <2> QED
    BY <1>1, <2>1, <2>2, <2>3 DEF LibraryTypeOK
<1>4. ASSUME NEW a \in Adders, WriteTemporary(a) PROVE Inv'
  <2>1. /\ adder'[a] = [adder[a] EXCEPT !.at = "written"]
        /\ adder[a] \in Adder
        /\ Saving(a)
        /\ \A other \in Adders : other # a => adder'[other] = adder[other]
        /\ UNCHANGED <<file, due>>
    BY <1>1, <1>4 DEF WriteTemporary, Set, Saving
  <2>2. adder' \in [Adders -> Adder]
    BY <1>1, <1>4 DEF WriteTemporary, Set, Adder
  <2>3. Extended(a) \in Config
    <3>1. /\ adder[a].seen \in Config
          /\ adder[a].seen.version = 2
          /\ adder[a].entry \in Entries
          /\ Resolves(adder[a].seen.entries \cup {adder[a].entry})
      BY <1>4, <2>1 DEF WriteTemporary, Addable, Adder
    <3>2. adder[a].seen.entries \subseteq Entries
      BY <3>1 DEF Config
    <3> QED
      BY <3>1, <3>2 DEF Extended, Config
  <2>4. /\ adder'[a].at = "written"
        /\ adder'[a].seen = adder[a].seen
        /\ adder'[a].entry = adder[a].entry
    BY <2>1 DEF Adder
  <2>5. Extended(a)' = Extended(a)
    BY <2>4 DEF Extended
  <2>6. LibraryInv'
    BY <2>1, <2>3, <2>4, <2>5 DEF LibraryInv, EditsKept, Saving, Extended
  <2> QED
    BY <1>1, <2>1, <2>2, <2>6 DEF LibraryTypeOK
<1>5. ASSUME NEW a \in Adders, Recheck(a) PROVE Inv'
  <2>1. /\ adder'[a] = [adder[a] EXCEPT !.at = "checked"]
        /\ adder[a] \in Adder
        /\ Saving(a)
        /\ file = adder[a].seen
        /\ \A other \in Adders : other # a => adder'[other] = adder[other]
        /\ UNCHANGED <<file, due>>
    BY <1>1, <1>5 DEF Recheck, Unedited, Set, Saving
  <2>2. adder' \in [Adders -> Adder]
    BY <1>1, <1>5 DEF Recheck, Set, Adder
  <2>3. /\ adder'[a].at = "checked"
        /\ adder'[a].seen = adder[a].seen
        /\ adder'[a].entry = adder[a].entry
    BY <2>1 DEF Adder
  <2>4. Extended(a)' = Extended(a)
    BY <2>3 DEF Extended
  <2>5. LibraryInv'
    BY <1>5, <2>1, <2>3, <2>4 DEF Recheck, LibraryInv, EditsKept, Saving, Extended
  <2> QED
    BY <1>1, <2>1, <2>2, <2>5 DEF LibraryTypeOK
<1>6. ASSUME NEW a \in Adders, Replace(a) PROVE Inv'
  BY <1>6 DEF Replace, Set, LibraryTypeOK, LibraryInv, EditsKept, Saving, Extended, Adder, Raw
<1>7. ASSUME NEW a \in Adders, Finish(a) \/ Leave(a) PROVE Inv'
  BY <1>0, <1>7 DEF Finish, Leave, Set, LibraryTypeOK, LibraryInv, EditsKept, Saving, Extended
<1>8. ASSUME NEW p \in Programs, StopProgram(p) PROVE Inv'
  BY <1>0, <1>8 DEF StopProgram, LibraryTypeOK, LibraryInv, EditsKept, Saving, Extended
<1>9. ASSUME NEW raw \in HandMade, Edit(raw) PROVE Inv'
  <2>1. ASSUME NEW a \in Adders
        PROVE  /\ adder'[a] \in Adder
               /\ adder'[a].at = adder[a].at
               /\ adder'[a].seen = adder[a].seen
               /\ adder'[a].entry = adder[a].entry
               /\ adder'[a].at = "checked" => adder'[a].edited
    BY <1>1, <1>9 DEF Edit, Adder
  <2>2. adder' \in [Adders -> Adder]
    BY <1>9, <2>1 DEF Edit
  <2>3. file' \in Raw /\ due' = file'
    BY <1>9, LibraryAssumption DEF Edit
  <2>4. LibraryInv'
    BY <2>1, <2>3 DEF LibraryInv, EditsKept, Saving, Extended
  <2> QED
    BY <2>2, <2>3, <2>4 DEF LibraryTypeOK
<1>10. CASE UNCHANGED libraryVars
  BY <1>10 DEF libraryVars, LibraryTypeOK, LibraryInv, EditsKept, Saving, Extended
<1> QED
  BY <1>2, <1>3, <1>4, <1>5, <1>6, <1>7, <1>8, <1>9, <1>10, LibrarySteps, Zenon

-----------------------------------------------------------------------------
(* The theorems.                                                           *)

\* The runtime home's variables are always of their types, and the invariants of
\* the database and of the library always hold.
THEOREM HomeInvariant == Spec => [](TypeOK /\ StoreInv /\ LibraryInv)
<1>1. Init => TypeOK
  <2> SUFFICES ASSUME Init PROVE TypeOK
    OBVIOUS
  <2>1. StoreTypeOK
    BY StartTypes DEF Init, StoreInit, StoreTypeOK
  <2>2. Blank \in Adder
    BY LibraryAssumption DEF Blank, Adder, Raw, Entries
  <2>3. LibraryTypeOK
    BY <2>2, LibraryAssumption DEF Init, LibraryInit, LibraryTypeOK
  <2> QED
    BY <2>1, <2>3 DEF TypeOK
<1>2. Init => StoreInv
  BY StoreAssumption
  DEF Init, StoreInit, StoreInv, SchemaWhole, MigrationInv, BackupIsSound, CopyInv, Whole, Empty,
      Off, Waiting
<1>3. Init => LibraryInv
  BY DEF Init, LibraryInit, LibraryInv, EditsKept, Saving, Blank
<1>4. TypeOK /\ StoreInv /\ LibraryInv /\ [Next]_vars => (TypeOK /\ StoreInv /\ LibraryInv)'
  <2> SUFFICES ASSUME TypeOK, StoreInv, LibraryInv, [Next]_vars
               PROVE  (TypeOK /\ StoreInv /\ LibraryInv)'
    OBVIOUS
  <2>1. StoreTypeOK'
    BY ProgramTypeStep, BackupTypeStep DEF TypeOK, StoreTypeOK
  <2>2. StoreInv'
    BY SchemaStep, BackupStep DEF TypeOK, StoreInv
  <2>3. LibraryTypeOK' /\ LibraryInv'
    BY LibraryStep DEF TypeOK
  <2> QED
    BY <2>1, <2>2, <2>3 DEF TypeOK
<1> QED
  BY <1>1, <1>2, <1>3, <1>4, PTL DEF Spec

\* Programs of any number of releases that start together, fail and are killed
\* leave a schema with every migration up to its version applied once.
THEOREM SchemaIsWhole == Spec => []SchemaWhole
<1>1. StoreInv => SchemaWhole
  BY DEF StoreInv
<1> QED
  BY <1>1, HomeInvariant, PTL

\* A published backup is a sound, complete copy of the release's own schema, and
\* a file of the destination's owner is never replaced.
THEOREM BackupsAreSound == Spec => []BackupIsSound
<1>1. StoreInv => BackupIsSound
  BY DEF StoreInv
<1> QED
  BY <1>1, HomeInvariant, PTL

\* No addition to the library overwrites another one, or an edit by hand that it
\* could have seen.
THEOREM EditsAreKept == Spec => []EditsKept
<1>1. LibraryInv => EditsKept
  BY DEF LibraryInv
<1> QED
  BY <1>1, HomeInvariant, PTL

-----------------------------------------------------------------------------
(* The status reader and its journal.                                      *)

\* The update that is being handled is the first of those left to handle.
LEMMA CurrentIsFirst ==
  ASSUME ReaderTypeOK, batch # {}
  PROVE  /\ Current \in batch /\ Current \in Updates /\ Current \in Nat
         /\ \A u \in batch : Current <= u
<1> DEFINE R == OpToRel(<, Nat)
<1>0. batch \subseteq Nat /\ batch \subseteq Updates
  BY ReaderAssumption DEF ReaderTypeOK
<1>1. IsWellFoundedOn(R, Nat)
  BY NatLessThanWellFounded
<1>2. \A i, j \in Nat : i < j => <<i, j>> \in R
  BY DEF OpToRel
<1> HIDE DEF R
<1>3. PICK m \in batch : \A q \in batch : <<q, m>> \notin R
  BY <1>0, <1>1, WFMin
<1>4. ASSUME NEW q \in batch PROVE m <= q
  <2>1. m \in Nat /\ q \in Nat
    BY <1>0
  <2>2. ~(q < m)
    BY <1>2, <1>3, <2>1
  <2> QED
    BY <2>1, <2>2
<1>5. Current \in batch /\ \A u \in batch : Current <= u
  BY <1>3, <1>4 DEF Current, Min
<1> QED
  BY <1>0, <1>5

\* The three ways a step leaves the place of the process in order.
LEMMA PlaceType ==
  ASSUME ReaderTypeOK,
         \/ Gone
         \/ batch # {} /\ Advance
         \/ batch # {} /\ \E p \in Places : GoesTo(p)
  PROVE  /\ at' \in Places /\ batch' \in SUBSET Updates /\ offset' \in Nat
         /\ scope' \in Scopes /\ permitted' \in BOOLEAN /\ heard' \in BOOLEAN
         /\ at' \notin {"down", "poll"} => batch' # {}
<1>1. CASE Gone
  BY <1>1 DEF Gone, ReaderTypeOK, Places
<1>2. CASE batch # {} /\ Advance
  <2>1. Current \in Nat
    BY <1>2, CurrentIsFirst
  <2>2. batch' = batch \ {Current} /\ at' \in {"poll", "receive"} /\ (at' = "receive" => batch # {Current})
    BY <1>2 DEF Advance, NextPlace
  <2>3. at' = "receive" => batch' # {}
    BY <1>2, <2>2
  <2>4. offset' \in Nat
    BY <1>2, <2>1 DEF Advance, NextOffset, ReaderTypeOK
  <2> QED
    BY <1>2, <2>2, <2>3, <2>4 DEF Advance, ReaderTypeOK, Places
<1>3. CASE batch # {} /\ \E p \in Places : GoesTo(p)
  BY <1>3 DEF GoesTo, ReaderTypeOK
<1> QED
  BY <1>1, <1>2, <1>3

\* Every step keeps the variables in their types.
LEMMA TypeStep == ReaderTypeOK /\ [ReaderNext]_readerVars => ReaderTypeOK'
<1> SUFFICES ASSUME ReaderTypeOK, [ReaderNext]_readerVars PROVE ReaderTypeOK'
  OBVIOUS
<1> USE DEF journal, process, world, history
<1>b. at \notin {"down", "poll"} => batch # {} /\ Current \in Updates
  BY CurrentIsFirst DEF ReaderTypeOK
<1>p. {"receive", "answer", "check", "claim", "send", "finish"} \subseteq Places
  BY DEF Places
<1>1. ASSUME NEW s \in Scopes, Start(s) PROVE ReaderTypeOK'
  <2>1. phase' \in [Updates -> Phases]
    BY <1>1 DEF Start, Recovered, ReaderTypeOK, Phases
  <2> QED
    BY <1>1, <2>1 DEF Start, ReaderTypeOK, Places
<1>2. CASE Poll
  <2>1. queue' \in SUBSET arrived /\ batch' = queue' /\ arrived \in SUBSET Updates
    BY <1>2 DEF Poll, ReaderTypeOK
  <2>2. at' \in {"poll", "receive"} /\ (at' = "receive" => queue' # {})
    BY <1>2 DEF Poll
  <2> QED
    BY <1>2, <2>1, <2>2 DEF Poll, ReaderTypeOK, Places
<1>3. CASE PollFails
  BY <1>3, PlaceType DEF PollFails, ReaderTypeOK
<1>4. CASE ResetOffset
  BY <1>4 DEF ResetOffset, ReaderTypeOK
<1>5. CASE ReceiveNew
  <2>1. phase' \in [Updates -> Phases] /\ scopeOf' \in [Updates -> Scopes \cup {None}]
    BY <1>5 DEF ReceiveNew, SetPhase, ReaderTypeOK, Phases
  <2> QED
    BY <1>5, <1>b, <1>p, <2>1, PlaceType DEF ReceiveNew, ReaderTypeOK
<1>6. CASE ReceiveAgain
  BY <1>6, <1>b, <1>p, PlaceType DEF ReceiveAgain, ReaderTypeOK
<1>7. CASE AnswerIt
  <2>1. phase' \in [Updates -> Phases]
    BY <1>7 DEF AnswerIt, SetPhase, ReaderTypeOK, Phases
  <2>2. tells' \in [Updates -> BOOLEAN]
    BY <1>7 DEF AnswerIt, ReaderTypeOK
  <2>3. Advance \/ GoesTo("check")
    BY <1>7 DEF AnswerIt
  <2> QED
    BY <1>7, <1>b, <1>p, <2>1, <2>2, <2>3, PlaceType DEF AnswerIt, ReaderTypeOK
<1>8. CASE CheckEgress
  <2>1. permitted' \in BOOLEAN
    BY <1>8 DEF CheckEgress
  <2> QED
    BY <1>8, <1>b, <1>p, <2>1 DEF CheckEgress, ReaderTypeOK
<1>9. CASE Claim
  <2>1. phase' \in [Updates -> Phases]
    BY <1>9 DEF Claim, SetPhase, ReaderTypeOK, Phases
  <2>2. claimed' \in [Updates -> [at : Nat, scope : Scopes \cup {None}]]
    <3>1. clock \in Nat /\ scope \in Scopes
      BY ReaderAssumption DEF ReaderTypeOK
    <3>2. [at |-> clock, scope |-> scope] \in [at : Nat, scope : Scopes \cup {None}]
      BY <3>1
    <3> QED
      BY <1>9, <3>2 DEF Claim, ReaderTypeOK
  <2>3. Advance \/ GoesTo("send")
    BY <1>9 DEF Claim
  <2> QED
    BY <1>9, <1>b, <1>p, <2>1, <2>2, <2>3, PlaceType DEF Claim, ReaderTypeOK
<1>10. CASE Send
  <2>1. PICK got, ack \in BOOLEAN :
            /\ delivered' = [delivered EXCEPT ![Current] = IF got THEN @ + 1 ELSE @]
            /\ heard' = ack
    BY <1>10, Zenon DEF Send
  <2>2. delivered' \in [Updates -> Nat]
    <3>1. \A u \in Updates : delivered[u] + 1 \in Nat /\ delivered[u] \in Nat
      BY DEF ReaderTypeOK
    <3>2. (IF got THEN delivered[Current] + 1 ELSE delivered[Current]) \in Nat
      BY <1>10, <1>b, <3>1 DEF Send
    <3> QED
      BY <2>1, <3>2 DEF ReaderTypeOK
  <2>3. /\ at' = "finish" /\ at = "send"
        /\ UNCHANGED <<journal, batch, offset, scope, permitted, arrived, queue, policy, clock, claimed>>
    BY <1>10 DEF Send
  <2> QED
    BY <1>b, <1>p, <2>1, <2>2, <2>3 DEF ReaderTypeOK
<1>11. CASE FinishSent
  <2>1. phase' \in [Updates -> Phases]
    BY <1>11 DEF FinishSent, SetPhase, ReaderTypeOK, Phases
  <2> QED
    BY <1>11, <1>b, <2>1, PlaceType DEF FinishSent, ReaderTypeOK
<1>12. CASE FinishUncertain
  <2>1. phase' \in [Updates -> Phases]
    BY <1>12 DEF FinishUncertain, Unconfirmed, SetPhase, ReaderTypeOK, Phases
  <2> QED
    BY <1>12, <2>1, PlaceType DEF FinishUncertain, ReaderTypeOK
<1>13. CASE Exit
  BY <1>13, PlaceType DEF Exit, ReaderTypeOK
<1>14. ASSUME NEW u \in Updates, Arrive(u) PROVE ReaderTypeOK'
  BY <1>14 DEF Arrive, ReaderTypeOK
<1>15. CASE SetPolicy
  BY <1>15 DEF SetPolicy, ReaderTypeOK
<1>16. CASE Tick
  BY <1>16, ReaderAssumption DEF Tick, ReaderTypeOK
<1>17. CASE UNCHANGED readerVars
  BY <1>17 DEF readerVars, ReaderTypeOK
<1> QED
  BY <1>1, <1>2, <1>3, <1>4, <1>5, <1>6, <1>7, <1>8, <1>9, <1>10, <1>11, <1>12, <1>13,
     <1>14, <1>15, <1>16, <1>17, Zenon DEF ReaderNext, Handle

-----------------------------------------------------------------------------
\* No receipt is ever removed.
ReceiptsStay == \A u \in Updates : phase[u] # "none" => phase'[u] # "none"

\* What a step has to show for the order in which updates are handled.
LEMMA OrderStep ==
  ASSUME ReaderTypeOK, OrderInv, NoUpdateLost, ReceiptsStay, UNCHANGED <<arrived, queue>>,
         \/ UNCHANGED <<batch, offset>>
         \/ Gone
         \/ batch # {} /\ Advance /\ phase'[Current] # "none"
  PROVE  OrderInv' /\ NoUpdateLost'
<1>t. arrived \subseteq Updates /\ batch \subseteq Updates /\ Updates \subseteq Nat /\ offset \in Nat
  BY ReaderAssumption DEF ReaderTypeOK
<1>1. NoUpdateLost'
  BY <1>t DEF NoUpdateLost, ReceiptsStay
<1>2. CASE UNCHANGED <<batch, offset>>
  BY <1>1, <1>2, <1>t DEF OrderInv, ReceiptsStay
<1>3. CASE Gone
  <2>1. batch' = {} /\ offset' = 0
    BY <1>3 DEF Gone
  <2> QED
    BY <1>1, <2>1, <1>t DEF OrderInv
<1>4. CASE batch # {} /\ Advance /\ phase'[Current] # "none"
  <2> DEFINE c == Current
  <2>1. c \in batch /\ c \in Updates /\ c \in Nat /\ \A u \in batch : c <= u
    BY <1>4, CurrentIsFirst
  <2>2. batch' = batch \ {c} /\ phase'[c] # "none" /\ offset' = IF offset > c THEN offset ELSE c + 1
    BY <1>4 DEF Advance, NextOffset
  <2> HIDE DEF c
  <2>3. ASSUME NEW u \in Updates, u < c PROVE u \in arrived /\ phase[u] # "none"
    <3>1. u \in arrived /\ u \notin batch
      BY <1>t, <2>1, <2>3 DEF OrderInv
    <3> QED
      BY <2>1, <2>3, <3>1 DEF OrderInv
  <2>4. ASSUME NEW u \in Updates, u < offset' PROVE u \in arrived' /\ phase'[u] # "none"
    <3>1. u < offset \/ u < c \/ u = c
      BY <1>t, <2>1, <2>2, <2>4
    <3> QED
      BY <2>1, <2>2, <2>3, <3>1 DEF OrderInv, ReceiptsStay
  <2>5. ASSUME NEW u \in arrived, NEW v \in batch', u < v, u \notin batch'
        PROVE  phase'[u] # "none"
    BY <1>t, <2>2, <2>5 DEF OrderInv, ReceiptsStay
  <2> QED
    BY <1>1, <2>2, <2>4, <2>5 DEF OrderInv
<1> QED
  BY <1>2, <1>3, <1>4

\* Updates are received before the cursor passes them, by every step.
LEMMA ReceiptStep ==
  ReaderTypeOK /\ ReaderInv /\ [ReaderNext]_readerVars => OrderInv' /\ NoUpdateLost' /\ ReceiptsStay
<1> SUFFICES ASSUME ReaderTypeOK, ReaderInv, [ReaderNext]_readerVars
             PROVE  OrderInv' /\ NoUpdateLost' /\ ReceiptsStay
  OBVIOUS
<1> USE DEF journal, process, world, history
<1>t. /\ arrived \subseteq Updates /\ batch \subseteq Updates /\ Updates \subseteq Nat /\ offset \in Nat
      /\ phase \in [Updates -> Phases] /\ queue \subseteq arrived
  BY ReaderAssumption DEF ReaderTypeOK
<1>i. OrderInv /\ NoUpdateLost
  BY DEF ReaderInv
<1>b. at \notin {"down", "poll"} => batch # {} /\ Current \in Updates
  BY CurrentIsFirst DEF ReaderTypeOK
\* A step that sets the phase of the current update only.
<1>s. ASSUME NEW p \in Phases \ {"none"}, SetPhase(p), at \notin {"down", "poll"}
      PROVE  ReceiptsStay /\ phase'[Current] # "none"
  BY <1>s, <1>b, <1>t DEF SetPhase, ReceiptsStay
<1>u. ASSUME UNCHANGED phase PROVE ReceiptsStay
  BY <1>u DEF ReceiptsStay
<1>p. {"received", "ignored", "ready", "expired", "sending", "sent", "uncertain"} \subseteq Phases \ {"none"}
  BY DEF Phases
<1>1. ASSUME NEW s \in Scopes, Start(s) PROVE OrderInv' /\ NoUpdateLost' /\ ReceiptsStay
  <2>1. ReceiptsStay
    BY <1>1 DEF Start, Recovered, ReceiptsStay
  <2> QED
    BY <1>1, <1>i, <2>1, OrderStep DEF Start
<1>2. CASE Poll
  <2>1. /\ queue' = {u \in queue : u >= offset}
        /\ batch' = queue'
        /\ UNCHANGED <<phase, arrived, offset>>
    BY <1>2 DEF Poll
  <2>2. NoUpdateLost'
    <3> SUFFICES ASSUME NEW u \in arrived, u \notin queue' PROVE phase[u] # "none"
      BY <2>1 DEF NoUpdateLost
    <3>1. u \notin queue \/ u < offset
      BY <1>t, <2>1
    <3> QED
      BY <1>i, <1>t, <3>1 DEF NoUpdateLost, OrderInv
  <2>3. OrderInv'
    BY <1>i, <1>t, <2>1, <2>2 DEF OrderInv, NoUpdateLost
  <2> QED
    BY <2>1, <2>2, <2>3, <1>u
<1>3. CASE PollFails
  <2>1. queue' \in {queue, {u \in queue : u >= offset}} /\ UNCHANGED <<phase, arrived>>
    BY <1>3 DEF PollFails
  <2>2. batch' = {} /\ offset' = 0
    BY <1>3 DEF PollFails, Gone
  <2>3. NoUpdateLost'
    <3> SUFFICES ASSUME NEW u \in arrived, u \notin queue' PROVE phase[u] # "none"
      BY <2>1 DEF NoUpdateLost
    <3>1. u \notin queue \/ u < offset
      BY <1>t, <2>1
    <3> QED
      BY <1>i, <1>t, <3>1 DEF NoUpdateLost, OrderInv
  <2>4. OrderInv'
    BY <1>i, <1>t, <2>1, <2>2 DEF OrderInv
  <2> QED
    BY <2>1, <2>3, <2>4, <1>u
<1>4. CASE ResetOffset
  <2>1. offset' = 0 /\ UNCHANGED <<phase, arrived, queue, batch>>
    BY <1>4 DEF ResetOffset
  <2> QED
    BY <1>i, <1>t, <1>u, <2>1 DEF OrderInv, NoUpdateLost
<1>5. CASE ReceiveNew
  BY <1>5, <1>i, <1>s, <1>p, OrderStep DEF ReceiveNew, GoesTo
<1>6. CASE ReceiveAgain
  <2>1. UNCHANGED <<phase, arrived, queue>> /\ phase[Current] # "none" /\ batch # {}
    BY <1>6, <1>b DEF ReceiveAgain
  <2>2. Advance \/ GoesTo("check")
    BY <1>6 DEF ReceiveAgain
  <2> QED
    BY <1>i, <1>u, <2>1, <2>2, OrderStep DEF GoesTo
<1>7. CASE AnswerIt
  <2>1. UNCHANGED <<arrived, queue>> /\ at = "answer" /\ batch # {}
    BY <1>7, <1>b DEF AnswerIt
  <2>2. (SetPhase("ready") /\ GoesTo("check")) \/ (SetPhase("ignored") /\ Advance)
    BY <1>7 DEF AnswerIt
  <2> QED
    BY <1>i, <1>s, <1>p, <2>1, <2>2, OrderStep DEF GoesTo
<1>8. CASE CheckEgress
  BY <1>8, <1>i, <1>u, OrderStep DEF CheckEgress
<1>9. CASE Claim
  <2>1. UNCHANGED <<arrived, queue>> /\ at = "claim" /\ batch # {}
    BY <1>9, <1>b DEF Claim
  <2>2. (SetPhase("sending") /\ GoesTo("send")) \/ (SetPhase("expired") /\ Advance)
    BY <1>9 DEF Claim
  <2> QED
    BY <1>i, <1>s, <1>p, <2>1, <2>2, OrderStep DEF GoesTo
<1>10. CASE Send
  BY <1>10, <1>i, <1>u, OrderStep DEF Send
<1>11. CASE FinishSent
  BY <1>11, <1>i, <1>b, <1>s, <1>p, OrderStep DEF FinishSent
<1>12. CASE FinishUncertain
  BY <1>12, <1>i, <1>s, <1>p, OrderStep DEF FinishUncertain, Unconfirmed
<1>13. CASE Exit
  BY <1>13, <1>i, <1>u, OrderStep DEF Exit
<1>14. ASSUME NEW w \in Updates, Arrive(w) PROVE OrderInv' /\ NoUpdateLost' /\ ReceiptsStay
  <2>1. /\ w \notin arrived /\ \A v \in Updates : v < w => v \in arrived
        /\ arrived' = arrived \cup {w} /\ queue' = queue \cup {w}
        /\ UNCHANGED <<phase, batch, offset>>
    BY <1>14 DEF Arrive
  <2>2. \A u \in arrived, v \in Updates : v < u => v \in arrived
    BY <1>i DEF OrderInv
  <2>3. ASSUME NEW v \in batch PROVE ~(w < v)
    BY <1>i, <2>1, <2>2 DEF OrderInv
  <2>4. OrderInv'
    BY <1>i, <1>t, <2>1, <2>2, <2>3 DEF OrderInv
  <2>5. NoUpdateLost'
    BY <1>i, <2>1 DEF NoUpdateLost
  <2> QED
    BY <1>u, <2>1, <2>4, <2>5
<1>15. CASE SetPolicy
  BY <1>15, <1>i, <1>u, OrderStep DEF SetPolicy
<1>16. CASE Tick
  BY <1>16, <1>i, <1>u, OrderStep DEF Tick
<1>17. CASE UNCHANGED readerVars
  BY <1>17, <1>i, <1>u, OrderStep DEF readerVars
<1> QED
  BY <1>1, <1>2, <1>3, <1>4, <1>5, <1>6, <1>7, <1>8, <1>9, <1>10, <1>11, <1>12, <1>13,
     <1>14, <1>15, <1>16, <1>17, Zenon DEF ReaderNext, Handle

-----------------------------------------------------------------------------
\* What a step has to show for the replies when it neither sends nor claims:
\* no reply becomes sent without a delivery, none is taken back.
LEMMA QuietStep ==
  ASSUME ReaderTypeOK, ReaderTypeOK', ReaderInv, ReceiptsStay,
         UNCHANGED history,
         \A u \in Updates : scopeOf'[u] = scopeOf[u] \/ phase[u] = "none",
         \A u \in Updates :
             \/ phase'[u] = phase[u]
             \/ phase[u] \notin {"sending", "sent", "uncertain"} /\ phase'[u] # "sent"
             \/ phase'[u] = "uncertain"
             \/ phase'[u] = "sent" /\ delivered[u] > 0,
         at' # "send",
         heard' => heard /\ at' = "finish" /\ at = "finish" /\ batch' = batch
  PROVE  StaleReplyStays' /\ ReplyInv'
<1> USE DEF history
<1>1. StaleReplyStays'
  BY DEF ReaderInv, StaleReplyStays, ReplyInv
<1>2. \A u \in Updates : phase'[u] = "none" => claimed'[u] = NoClaim
  BY DEF ReaderInv, ReplyInv, ReceiptsStay
<1>3. \A u \in Updates : delivered'[u] > 0 => phase'[u] \in {"sending", "sent", "uncertain"}
  BY DEF ReaderInv, ReplyInv
<1>4. \A u \in Updates : phase'[u] = "sent" => delivered'[u] > 0
  BY DEF ReaderInv, ReplyInv
<1>5. heard' => at' = "finish" /\ (delivered[Current] > 0)'
  BY DEF ReaderInv, ReplyInv, Current
<1> QED
  BY <1>1, <1>2, <1>3, <1>4, <1>5 DEF ReplyInv

\* Every step keeps the rest of the invariant.
LEMMA ReplyStep ==
  ReaderTypeOK /\ ReaderTypeOK' /\ ReaderInv /\ [ReaderNext]_readerVars
    => StaleReplyStays' /\ PlaceInv' /\ ReplyInv'
<1> SUFFICES ASSUME ReaderTypeOK, ReaderTypeOK', ReaderInv, [ReaderNext]_readerVars
             PROVE  StaleReplyStays' /\ PlaceInv' /\ ReplyInv'
  OBVIOUS
<1> USE DEF journal, process, world, history
<1>r. ReceiptsStay
  BY ReceiptStep
<1>t. phase \in [Updates -> Phases] /\ scopeOf \in [Updates -> Scopes \cup {None}]
  BY DEF ReaderTypeOK
<1>b. at \notin {"down", "poll"} => batch # {} /\ Current \in Updates
  BY CurrentIsFirst DEF ReaderTypeOK
<1>i. PlaceInv /\ ReplyInv /\ StaleReplyStays
  BY DEF ReaderInv
<1>h. heard => at = "finish"
  BY <1>i DEF ReplyInv
\* A step that sets the phase of the current update only.
<1>s. ASSUME NEW p, SetPhase(p), at \notin {"down", "poll"}
      PROVE  phase'[Current] = p /\ \A u \in Updates \ {Current} : phase'[u] = phase[u]
  BY <1>s, <1>b, <1>t DEF SetPhase
<1>c. ASSUME batch' = batch PROVE Current' = Current
  BY <1>c DEF Current
<1>g. ASSUME Gone \/ Advance PROVE at' \in {"down", "poll", "receive"} /\ heard' = FALSE
  BY <1>g DEF Gone, Advance, NextPlace
\* The process is between two updates.
<1>a. ASSUME at' \in {"down", "poll", "receive"} PROVE PlaceInv'
  BY <1>a DEF PlaceInv
<1>q. ASSUME UNCHANGED <<phase, scopeOf, history>>, at' # "send",
             heard' => heard /\ at' = "finish" /\ at = "finish" /\ batch' = batch
      PROVE  StaleReplyStays' /\ ReplyInv'
  BY <1>q, <1>r, QuietStep
<1>1. ASSUME NEW s \in Scopes, Start(s) PROVE StaleReplyStays' /\ PlaceInv' /\ ReplyInv'
  <2>1. \A u \in Updates : phase'[u] = phase[u] \/ phase'[u] = "uncertain"
    BY <1>1 DEF Start, Recovered
  <2>2. at' = "poll" /\ heard' = heard /\ at = "down" /\ UNCHANGED <<scopeOf, history>>
    BY <1>1 DEF Start
  <2> QED
    BY <1>a, <1>h, <1>r, <2>1, <2>2, QuietStep
<1>2. CASE Poll
  <2>1. at' \in {"poll", "receive"} /\ at = "poll" /\ UNCHANGED <<phase, scopeOf, heard, history>>
    BY <1>2 DEF Poll
  <2> QED
    BY <1>a, <1>h, <1>q, <2>1
<1>3. CASE PollFails \/ Exit
  BY <1>3, <1>a, <1>g, <1>q DEF PollFails, Exit
<1>4. CASE ResetOffset
  BY <1>4, <1>a, <1>h, <1>q DEF ResetOffset
<1>5. CASE ReceiveNew
  <2>1. /\ phase[Current] = "none" /\ SetPhase("received")
        /\ at = "receive" /\ at' = "answer" /\ UNCHANGED <<batch, heard, history>>
    BY <1>5 DEF ReceiveNew, GoesTo
  <2>2. \A u \in Updates : scopeOf'[u] = scopeOf[u] \/ phase[u] = "none"
    BY <1>5, <1>b, <1>t DEF ReceiveNew
  <2>3. phase'[Current] = "received" /\ \A u \in Updates \ {Current} : phase'[u] = phase[u]
    BY <1>s, <2>1
  <2>4. PlaceInv'
    BY <1>c, <2>1, <2>3 DEF PlaceInv
  <2> QED
    BY <1>h, <1>r, <2>1, <2>2, <2>3, <2>4, QuietStep
<1>6. CASE ReceiveAgain
  <2>1. at = "receive" /\ UNCHANGED <<phase, scopeOf, history>>
    BY <1>6 DEF ReceiveAgain
  <2>2. CASE Advance
    BY <1>a, <1>g, <1>q, <2>1, <2>2
  <2>3. CASE phase[Current] = "ready" /\ GoesTo("check")
    <3>1. at' = "check" /\ UNCHANGED <<batch, heard>>
      BY <2>3 DEF GoesTo
    <3>2. PlaceInv'
      BY <1>c, <2>1, <2>3, <3>1 DEF PlaceInv
    <3> QED
      BY <1>h, <1>q, <2>1, <3>1, <3>2
  <2> QED
    BY <1>6, <2>2, <2>3 DEF ReceiveAgain
<1>7. CASE AnswerIt
  <2>1. at = "answer" /\ UNCHANGED <<scopeOf, history>> /\ phase[Current] = "received"
    BY <1>7, <1>i DEF AnswerIt, PlaceInv
  <2>2. CASE SetPhase("ready") /\ GoesTo("check")
    <3>1. at' = "check" /\ UNCHANGED <<batch, heard>>
      BY <2>2 DEF GoesTo
    <3>2. phase'[Current] = "ready" /\ \A u \in Updates \ {Current} : phase'[u] = phase[u]
      BY <1>s, <2>1, <2>2
    <3>3. PlaceInv'
      BY <1>c, <3>1, <3>2 DEF PlaceInv
    <3> QED
      BY <1>h, <1>r, <2>1, <3>1, <3>2, <3>3, QuietStep
  <2>3. CASE SetPhase("ignored") /\ Advance
    <3>1. phase'[Current] = "ignored" /\ \A u \in Updates \ {Current} : phase'[u] = phase[u]
      BY <1>s, <2>1, <2>3
    <3> QED
      BY <1>a, <1>g, <1>r, <2>1, <2>3, <3>1, QuietStep
  <2> QED
    BY <1>7, <2>2, <2>3 DEF AnswerIt
<1>8. CASE CheckEgress
  <2>1. at = "check" /\ at' = "claim" /\ UNCHANGED <<phase, scopeOf, batch, heard, history>>
    BY <1>8 DEF CheckEgress
  <2>2. PlaceInv'
    BY <1>c, <1>i, <2>1 DEF PlaceInv
  <2> QED
    BY <1>h, <1>q, <2>1, <2>2
<1>9. CASE Claim
  <2>1. at = "claim" /\ UNCHANGED <<scopeOf, delivered>> /\ phase[Current] = "ready"
    BY <1>9, <1>i DEF Claim, PlaceInv
  <2>2. CASE ~Claimable
    <3>1. SetPhase("expired") /\ UNCHANGED claimed /\ Advance
      BY <1>9, <2>2 DEF Claim
    <3>2. phase'[Current] = "expired" /\ \A u \in Updates \ {Current} : phase'[u] = phase[u]
      BY <1>s, <2>1, <3>1
    <3> QED
      BY <1>a, <1>g, <1>r, <2>1, <3>1, <3>2, QuietStep
  <2>3. CASE Claimable
    <3>1. /\ SetPhase("sending") /\ at' = "send" /\ UNCHANGED <<batch, heard>>
          /\ claimed' = [claimed EXCEPT ![Current] = [at |-> clock, scope |-> scope]]
      BY <1>9, <2>3 DEF Claim, GoesTo
    <3>2. phase'[Current] = "sending" /\ \A u \in Updates \ {Current} : phase'[u] = phase[u]
      BY <1>s, <2>1, <3>1
    <3>3. PlaceInv'
      BY <1>c, <3>1, <3>2 DEF PlaceInv
    <3>4. /\ claimed'[Current].at = clock /\ claimed'[Current].scope = scope
          /\ \A u \in Updates \ {Current} : claimed'[u] = claimed[u]
      BY <1>b, <2>1, <3>1 DEF ReaderTypeOK
    <3>5. StaleReplyStays'
      BY <1>i, <2>1, <2>3, <3>4 DEF StaleReplyStays, Claimable
    <3>6. delivered[Current] = 0 /\ Current \in Updates
      BY <1>b, <1>i, <2>1 DEF ReplyInv, ReaderTypeOK
    <3>7. ReplyInv'
      BY <1>c, <1>h, <1>i, <2>1, <3>1, <3>2, <3>4, <3>6 DEF ReplyInv
    <3> QED
      BY <3>3, <3>5, <3>7
  <2> QED
    BY <2>2, <2>3
<1>10. CASE Send
  <2>1. /\ at = "send" /\ at' = "finish" /\ UNCHANGED <<phase, scopeOf, batch, claimed>>
        /\ phase[Current] = "sending"
    BY <1>10, <1>i DEF Send, PlaceInv
  <2>2. PICK got, ack \in BOOLEAN :
            /\ ack => got
            /\ delivered' = [delivered EXCEPT ![Current] = IF got THEN delivered[Current] + 1
                                                          ELSE delivered[Current]]
            /\ heard' = ack
    BY <1>10, Zenon DEF Send
  <2>3. /\ got => delivered'[Current] > 0
        /\ \A u \in Updates \ {Current} : delivered'[u] = delivered[u]
    BY <1>b, <2>1, <2>2 DEF ReaderTypeOK
  <2>4. PlaceInv'
    BY <1>c, <2>1 DEF PlaceInv
  <2>5. ReplyInv'
    BY <1>b, <1>c, <1>i, <2>1, <2>2, <2>3 DEF ReplyInv
  <2> QED
    BY <1>i, <2>1, <2>4, <2>5 DEF StaleReplyStays
<1>11. CASE FinishSent
  <2>1. at = "finish" /\ heard /\ SetPhase("sent") /\ Advance /\ UNCHANGED <<scopeOf, history>>
    BY <1>11 DEF FinishSent
  <2>2. phase'[Current] = "sent" /\ \A u \in Updates \ {Current} : phase'[u] = phase[u]
    BY <1>s, <2>1
  <2>3. delivered[Current] > 0
    BY <1>i, <2>1 DEF ReplyInv
  <2> QED
    BY <1>a, <1>g, <1>r, <2>1, <2>2, <2>3, QuietStep
<1>12. CASE FinishUncertain
  <2>1. at = "finish" /\ SetPhase("uncertain") /\ Gone /\ UNCHANGED <<scopeOf, history>>
    BY <1>12 DEF FinishUncertain, Unconfirmed
  <2>2. phase'[Current] = "uncertain" /\ \A u \in Updates \ {Current} : phase'[u] = phase[u]
    BY <1>s, <2>1
  <2> QED
    BY <1>a, <1>g, <1>r, <2>1, <2>2, QuietStep
\* The environment.
<1>13. CASE (\E w \in Updates : Arrive(w)) \/ SetPolicy \/ Tick \/ UNCHANGED readerVars
  <2>1. UNCHANGED <<journal, process, history>>
    BY <1>13 DEF Arrive, SetPolicy, Tick, readerVars
  <2>2. Current' = Current
    BY <1>c, <2>1
  <2> QED
    BY <1>i, <2>1, <2>2 DEF PlaceInv, ReplyInv, StaleReplyStays
<1> QED
  BY <1>1, <1>2, <1>3, <1>4, <1>5, <1>6, <1>7, <1>8, <1>9, <1>10, <1>11, <1>12, <1>13,
     Zenon DEF ReaderNext, Handle

\* The poller and its journal keep the invariant, whatever crashes, restarts
\* with other scopes and lost answers they go through.
THEOREM ReaderSafe == ReaderSpec => [](ReaderTypeOK /\ ReaderInv)
<1>1. ReaderInit => ReaderTypeOK /\ ReaderInv
  <2> SUFFICES ASSUME ReaderInit PROVE ReaderTypeOK /\ ReaderInv
    OBVIOUS
  <2>1. claimed \in [Updates -> [at : Nat, scope : Scopes \cup {None}]]
    BY DEF ReaderInit, NoClaim
  <2>2. ReaderTypeOK
    <3>1. /\ phase \in [Updates -> Phases] /\ scopeOf \in [Updates -> Scopes \cup {None}]
          /\ tells \in [Updates -> BOOLEAN] /\ delivered \in [Updates -> Nat]
      BY DEF ReaderInit, Phases
    <3>2. /\ permitted \in BOOLEAN /\ heard \in BOOLEAN /\ policy \in BOOLEAN /\ scope \in Scopes
          /\ arrived = {} /\ queue = {} /\ batch = {} /\ offset = 0 /\ clock = 0 /\ at = "down"
      BY DEF ReaderInit
    <3> QED
      BY <2>1, <3>1, <3>2, ReaderAssumption DEF ReaderTypeOK, Places
  <2>3. OrderInv
    BY ReaderAssumption DEF ReaderInit, OrderInv
  <2> QED
    BY <2>2, <2>3 DEF ReaderInit, ReaderInv, NoUpdateLost, StaleReplyStays, PlaceInv, ReplyInv
<1>2. ReaderTypeOK /\ ReaderInv /\ [ReaderNext]_readerVars => ReaderTypeOK' /\ ReaderInv'
  BY TypeStep, ReceiptStep, ReplyStep DEF ReaderInv
<1> QED
  BY <1>1, <1>2, PTL DEF ReaderSpec

\* What Telegram has forgotten has a receipt: the disposition of an update is
\* durable before the cursor passes it, wherever the process dies.
THEOREM NothingLost == ReaderSpec => []NoUpdateLost
<1> QED
  BY ReaderSafe, PTL DEF ReaderInv

\* A reply that a crash left behind does not leave after its command's window
\* nor under a scope other than that of its receipt.
THEOREM StaleStays == ReaderSpec => []StaleReplyStays
<1> QED
  BY ReaderSafe, PTL DEF ReaderInv

-----------------------------------------------------------------------------
(* The contract.                                                           *)

\* What a step may do to a receipt and to its message.
Moves(u) ==
    \/ delivered'[u] = delivered[u] /\ phase'[u] = phase[u]
    \/ /\ delivered'[u] = delivered[u]
       /\ \/ phase[u] \in {"none", "received", "ready"}
             /\ phase'[u] \in {"received", "ready", "ignored", "expired", "sending"}
          \/ phase[u] = "sending" /\ phase'[u] = "uncertain"
          \/ phase[u] = "sending" /\ phase'[u] = "sent" /\ delivered[u] > 0
    \/ phase[u] = "sending" /\ phase'[u] = "sending" /\ delivered[u] = 0 /\ delivered'[u] > 0

\* Every step moves every receipt along.
LEMMA ReceiptsMove == ReaderTypeOK /\ ReaderInv /\ [ReaderNext]_readerVars => \A u \in Updates : Moves(u)
<1> SUFFICES ASSUME ReaderTypeOK, ReaderInv, [ReaderNext]_readerVars, NEW u \in Updates PROVE Moves(u)
  OBVIOUS
<1> USE DEF journal, process, world, history
<1>t. phase \in [Updates -> Phases] /\ delivered \in [Updates -> Nat]
  BY DEF ReaderTypeOK
<1>b. at \notin {"down", "poll"} => Current \in Updates
  BY CurrentIsFirst DEF ReaderTypeOK
<1>i. PlaceInv /\ ReplyInv
  BY DEF ReaderInv
<1>0. ASSUME UNCHANGED <<phase, delivered>> PROVE Moves(u)
  BY <1>0 DEF Moves
\* A step that sets the phase of the current update only.
<1>s. ASSUME NEW p, SetPhase(p), at \notin {"down", "poll"}, UNCHANGED delivered
      PROVE  /\ u # Current => Moves(u)
             /\ u = Current => phase'[u] = p /\ delivered'[u] = delivered[u]
  BY <1>s, <1>b, <1>t DEF SetPhase, Moves
<1>1. ASSUME NEW s \in Scopes, Start(s) PROVE Moves(u)
  BY <1>1 DEF Start, Recovered, Moves
<1>2. CASE Poll \/ PollFails \/ ResetOffset \/ ReceiveAgain \/ CheckEgress \/ Exit
  BY <1>2, <1>0 DEF Poll, PollFails, ResetOffset, ReceiveAgain, CheckEgress, Exit
<1>3. CASE ReceiveNew
  BY <1>3, <1>s DEF ReceiveNew, Moves
<1>4. CASE AnswerIt
  <2>1. at = "answer" /\ UNCHANGED delivered /\ phase[Current] = "received"
    BY <1>4, <1>i DEF AnswerIt, PlaceInv
  <2>2. SetPhase("ready") \/ SetPhase("ignored")
    BY <1>4 DEF AnswerIt
  <2> QED
    BY <1>s, <2>1, <2>2 DEF Moves
<1>5. CASE Claim
  <2>1. at = "claim" /\ UNCHANGED delivered /\ phase[Current] = "ready"
    BY <1>5, <1>i DEF Claim, PlaceInv
  <2>2. SetPhase("sending") \/ SetPhase("expired")
    BY <1>5 DEF Claim
  <2> QED
    BY <1>s, <2>1, <2>2 DEF Moves
<1>6. CASE Send
  <2>1. /\ at = "send" /\ UNCHANGED phase /\ phase[Current] = "sending" /\ delivered[Current] = 0
    BY <1>6, <1>i DEF Send, PlaceInv, ReplyInv
  <2>2. PICK got \in BOOLEAN :
            delivered' = [delivered EXCEPT ![Current] = IF got THEN delivered[Current] + 1
                                                      ELSE delivered[Current]]
    BY <1>6, Zenon DEF Send
  <2>3. delivered'[u] = IF u = Current /\ got THEN 1 ELSE delivered[u]
    BY <1>b, <1>t, <2>1, <2>2
  <2> QED
    BY <2>1, <2>3 DEF Moves
<1>7. CASE FinishSent
  <2>1. at = "finish" /\ SetPhase("sent") /\ UNCHANGED delivered
    BY <1>7 DEF FinishSent
  <2>2. phase[Current] = "sending" /\ delivered[Current] > 0
    BY <1>7, <1>i DEF FinishSent, PlaceInv, ReplyInv
  <2> QED
    BY <1>s, <2>1, <2>2 DEF Moves
<1>8. CASE FinishUncertain
  <2>1. at = "finish" /\ SetPhase("uncertain") /\ UNCHANGED delivered
    BY <1>8 DEF FinishUncertain, Unconfirmed
  <2>2. phase[Current] = "sending"
    BY <1>i, <2>1 DEF PlaceInv
  <2> QED
    BY <1>s, <2>1, <2>2 DEF Moves
<1>9. CASE (\E w \in Updates : Arrive(w)) \/ SetPolicy \/ Tick \/ UNCHANGED readerVars
  BY <1>9, <1>0 DEF Arrive, SetPolicy, Tick, readerVars
<1> QED
  BY <1>1, <1>2, <1>3, <1>4, <1>5, <1>6, <1>7, <1>8, <1>9, Zenon DEF ReaderNext, Handle

\* The record of each phase.
LEMMA RecordIs ==
  ASSUME NEW p \in Phases
  PROVE  RecordOf(p) = IF p \in {"none", "received", "ready"} THEN "open"
                       ELSE IF p \in {"ignored", "expired"} THEN "closed"
                       ELSE IF p = "sending" THEN "claimed" ELSE p
BY DEF RecordOf, Phases

\* A step of the reader is, for each update, a step of the contract or none.
LEMMA ContractStep ==
  ReaderTypeOK /\ ReaderTypeOK' /\ ReaderInv /\ [ReaderNext]_readerVars => Contract!ContractNext
<1> SUFFICES ASSUME ReaderTypeOK, ReaderTypeOK', ReaderInv, [ReaderNext]_readerVars, NEW u \in Updates
             PROVE  \/ Contract!CloseReply(u) \/ Contract!ClaimReply(u) \/ Contract!Deliver(u)
                    \/ Contract!Acknowledge(u) \/ Contract!GiveUp(u)
                    \/ Contract!Becomes(u, Record[u])
  BY DEF Contract!ContractNext
<1>1. Moves(u)
  BY ReceiptsMove
<1>2. /\ phase[u] \in Phases /\ phase'[u] \in Phases
      /\ delivered[u] \in Nat /\ delivered'[u] \in Nat
  BY DEF ReaderTypeOK
<1>3. /\ Record[u] = IF phase[u] \in {"none", "received", "ready"} THEN "open"
                    ELSE IF phase[u] \in {"ignored", "expired"} THEN "closed"
                    ELSE IF phase[u] = "sending" THEN "claimed" ELSE phase[u]
      /\ Record'[u] = IF phase'[u] \in {"none", "received", "ready"} THEN "open"
                     ELSE IF phase'[u] \in {"ignored", "expired"} THEN "closed"
                     ELSE IF phase'[u] = "sending" THEN "claimed" ELSE phase'[u]
  BY <1>2, RecordIs DEF Record
<1>4. Got[u] = (delivered[u] > 0) /\ Got'[u] = (delivered'[u] > 0)
  BY DEF Got
<1>5. CASE delivered'[u] = delivered[u]
  <2>1. Got'[u] = Got[u] /\ (Got[u] <=> delivered[u] > 0)
    BY <1>4, <1>5
  <2> QED
    BY <1>1, <1>2, <1>3, <1>5, <2>1 DEF Moves, Contract!CloseReply, Contract!ClaimReply,
       Contract!Acknowledge, Contract!GiveUp, Contract!Becomes
<1>6. CASE delivered'[u] # delivered[u]
  <2>1. phase[u] = "sending" /\ phase'[u] = "sending" /\ delivered[u] = 0 /\ delivered'[u] > 0
    BY <1>1, <1>6 DEF Moves
  <2>2. ~(delivered[u] > 0) /\ delivered'[u] > 0
    BY <2>1
  <2>3. ~Got[u] /\ Got'[u]
    BY <1>4, <2>2, Zenon
  <2> QED
    BY <1>3, <2>1, <2>3 DEF Contract!Deliver
<1> QED
  BY <1>5, <1>6

\* The status reader implements ReplyContract: one claim for a command, at most
\* one message after it, sent recorded only for a delivery, and no way back.
THEOREM ReaderContract == ReaderSpec => KeepsContract
<1>1. ReaderInit => Contract!ContractInit
  <2> SUFFICES ASSUME ReaderInit PROVE Record = [u \in Updates |-> "open"] /\ Got = [u \in Updates |-> FALSE]
    BY DEF Contract!ContractInit
  <2>1. RecordOf("none") = "open"
    BY RecordIs DEF Phases
  <2>2. \A u \in Updates : phase[u] = "none" /\ ~(delivered[u] > 0)
    BY DEF ReaderInit
  <2>3. Record = [u \in Updates |-> "open"]
    BY <2>1, <2>2, Zenon DEF Record
  <2>4. \A u \in Updates : (delivered[u] > 0) = FALSE
    BY <2>2
  <2>5. Got = [u \in Updates |-> FALSE]
    BY <2>4, Zenon DEF Got
  <2> QED
    BY <2>3, <2>5
<1>2. ReaderTypeOK /\ ReaderTypeOK' /\ ReaderInv /\ [ReaderNext]_readerVars
        => [Contract!ContractNext]_Contract!contractVars
  BY ContractStep
<1> QED
  BY <1>1, <1>2, ReaderSafe, PTL DEF ReaderSpec, KeepsContract, Contract!ContractSpec

=============================================================================
