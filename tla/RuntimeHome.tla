---------------------------- MODULE RuntimeHome -----------------------------
(***************************************************************************)
(* The runtime home: a backend starts by reading config.json and then      *)
(* initialises the database; while it runs it serves the settings pages,   *)
(* and when it ends its requests end with it.                              *)
(***************************************************************************)
EXTENDS Store, ModelLibrary

CONSTANTS
    Backends,  \* the programs that are backends
    ServedBy   \* the backend of each settings page

ASSUME HomeAssumption ==
    /\ Backends \subseteq Programs
    /\ ServedBy \in [Adders -> Backends]

vars == <<storeVars, libraryVars>>

TypeOK == StoreTypeOK /\ LibraryTypeOK

Init == StoreInit /\ LibraryInit

\* load_optional_config; the gateway has no use for the configuration.
Load(p) ==
    /\ program[p].at = "off"
    /\ p \in Backends => Readable
    /\ program' = [program EXCEPT ![p] = [at |-> "loaded", found |-> 0]]
    /\ UNCHANGED <<db, writer, backup, target, theirs, libraryVars>>

\* The program ends: its requests are gone, the pages stay open.
StopProgram(p) ==
    /\ Stop(p)
    /\ adder' = [a \in Adders |-> IF Saving(a) /\ ServedBy[a] = p THEN Blank ELSE adder[a]]
    /\ UNCHANGED <<file, due>>

Serve(a) ==
    /\ program[ServedBy[a]].at = "on"
    /\ \/ ReadLibrary(a)
       \/ \E e \in Entries : Submit(a, e)
       \/ WriteTemporary(a)
       \/ Recheck(a)
       \/ Replace(a)
       \/ Finish(a)
    /\ UNCHANGED storeVars

RunProgram(p) ==
    /\ Begin(p) \/ Migrate(p) \/ WriteRow(p)
    /\ UNCHANGED libraryVars

RunBackup(b) ==
    /\ \/ BeginBackup(b)
       \/ OpenSource(b)
       \/ CopyPages(b)
       \/ VerifyCopy(b)
       \/ CheckTarget(b)
       \/ Link(b)
       \/ EndBackup(b)
    /\ UNCHANGED libraryVars

Owner ==
    \/ (PutFile \/ RemoveFile) /\ UNCHANGED libraryVars
    \/ (\E raw \in HandMade : Edit(raw)) /\ UNCHANGED storeVars
    \/ (\E a \in Adders : Leave(a)) /\ UNCHANGED storeVars

Next ==
    \/ \E p \in Programs : Load(p) \/ StopProgram(p) \/ RunProgram(p)
    \/ \E b \in Backups : RunBackup(b)
    \/ \E a \in Adders : Serve(a)
    \/ Owner

Spec == Init /\ [][Next]_vars

=============================================================================
