---------------------------- MODULE ModelLibrary ----------------------------
(***************************************************************************)
(* The model library: sources and models are added to config.json from the *)
(* settings page, in requests that run in threads of one or more backends, *)
(* while somebody may edit the same file by hand.                          *)
(*                                                                         *)
(* A revision is the hash of the file, so it stands for its content.       *)
(***************************************************************************)
EXTENDS FiniteSets

CONSTANTS
    Connections,  \* the identities of sources
    Models,       \* the identities of models
    SourceOf,     \* the connection_id of each model
    Adders,       \* settings pages, with at most one request each
    HandMade,     \* what somebody may write into the file by hand
    NoFile,
    Broken        \* a file that WorkbenchConfig.from_dict refuses

Entries == Connections \cup Models

VARIABLES
    file,   \* config.json
    adder,  \* the settings pages and their requests
    due     \* history: what the edits and the additions make of the file, one by one

libraryVars == <<file, adder, due>>

\* AgentSystem._validate_references
Resolves(entries) == \A m \in Models \cap entries : SourceOf[m] \in entries

Config == {c \in [version: {1, 2}, entries: SUBSET Entries] :
               /\ Resolves(c.entries)
               /\ c.version = 1 => c.entries = {}}
Raw    == Config \cup {NoFile, Broken}

ASSUME LibraryAssumption ==
    /\ Connections # {}
    /\ Connections \cap Models = {}
    /\ SourceOf \in [Models -> Connections]
    /\ HandMade \subseteq Raw

\* A page shows a revision; its request holds the lock from "locked" on.  An
\* edit may come after the request's last comparison.
Adder  == [at: {"idle", "shown", "locked", "written", "checked", "saved"},
           seen: Raw, entry: Entries, edited: BOOLEAN]
Blank  == [at |-> "idle", seen |-> NoFile, entry |-> CHOOSE e \in Entries : TRUE,
           edited |-> FALSE]

LibraryTypeOK ==
    /\ file \in Raw
    /\ adder \in [Adders -> Adder]
    /\ due \in Raw

LibraryInit ==
    /\ file \in HandMade
    /\ adder = [a \in Adders |-> Blank]
    /\ due = file

Set(a, r) == adder' = [adder EXCEPT ![a] = r]

\* _load fails on a broken file; a missing one reads as an empty object.
Readable == file # Broken

-----------------------------------------------------------------------------
ReadLibrary(a) ==
    /\ adder[a].at = "idle"
    /\ Readable
    /\ Set(a, [Blank EXCEPT !.at = "shown", !.seen = file])
    /\ UNCHANGED <<file, due>>

Saving(a) == adder[a].at \notin {"idle", "shown"}

\* Fault: the lock is not taken.
LockFree_Always == TRUE

\* flock without waiting.
LockFree == \A a \in Adders : ~Saving(a)

Submit(a, e) ==
    /\ adder[a].at = "shown"
    /\ LockFree
    /\ Set(a, [adder[a] EXCEPT !.at = "locked", !.entry = e])
    /\ UNCHANGED <<file, due>>

\* The file is the revision that was shown, of version two, and takes the entry.
Addable(a) ==
    /\ file = adder[a].seen
    /\ file \in Config
    /\ file.version = 2
    /\ adder[a].entry \notin file.entries
    /\ Resolves(file.entries \cup {adder[a].entry})

\* The content with the entry.
Extended(a) == [version |-> adder[a].seen.version,
                entries |-> adder[a].seen.entries \cup {adder[a].entry}]

\* The file is loaded once, and the new content written to a temporary file.
WriteTemporary(a) ==
    /\ adder[a].at = "locked"
    /\ Addable(a)
    /\ Set(a, [adder[a] EXCEPT !.at = "written"])
    /\ UNCHANGED <<file, due>>

\* Fault: the file is not compared again.
Unedited_Ignored(a) == TRUE

Unedited(a) == file = adder[a].seen

Recheck(a) ==
    /\ adder[a].at = "written"
    /\ Unedited(a)
    /\ Set(a, [adder[a] EXCEPT !.at = "checked"])
    /\ UNCHANGED <<file, due>>

\* os.replace.  The addition was to what was due; an edit since the comparison
\* is lost, and no longer due.
Replace(a) ==
    /\ adder[a].at = "checked"
    /\ file' = Extended(a)
    /\ due' = IF adder[a].edited \/ due = adder[a].seen THEN file' ELSE due
    /\ Set(a, [adder[a] EXCEPT !.at = "saved"])

\* A conflict, an error or, once saved, the answer; a failure to synchronise
\* the directory or to read the file again is told as an error too.
Finish(a) ==
    /\ Saving(a)
    /\ Set(a, Blank)
    /\ UNCHANGED <<file, due>>

\* The page is left.
Leave(a) ==
    /\ adder[a].at = "shown"
    /\ Set(a, Blank)
    /\ UNCHANGED <<file, due>>

\* Somebody edits the file, removes it or leaves it broken.
Edit(raw) ==
    /\ raw \in HandMade \ {file}
    /\ file' = raw
    /\ due' = raw
    /\ adder' = [a \in Adders |-> IF adder[a].at = "checked"
                                  THEN [adder[a] EXCEPT !.edited = TRUE]
                                  ELSE adder[a]]

-----------------------------------------------------------------------------
(* Properties.                                                             *)

\* The configuration is what the edits by hand and the additions, one after the
\* other, make of it: no addition overwrites another one or an edit, over
\* concurrent requests, stale pages and crashes.  Only an edit between a
\* request's last comparison and its rename is beyond the code's reach.
EditsKept == file = due

\* What keeps it: one request saves at a time, and what it compared is still
\* the file unless that was edited since.
LibraryInv ==
    /\ EditsKept
    /\ \A a, other \in Adders : Saving(a) /\ Saving(other) => a = other
    /\ \A a \in Adders : adder[a].at = "checked" => file = adder[a].seen \/ adder[a].edited
    /\ \A a \in Adders : adder[a].at \in {"written", "checked"} => Extended(a) \in Config

=============================================================================
