---------------------------- MODULE DiffCollect -----------------------------
(***************************************************************************)
(* The collection of a diff: ReadOnlyDiffService.collect runs one git      *)
(* command after the other and looks at files in between, in a worktree    *)
(* that anybody may write meanwhile.                                       *)
(*                                                                         *)
(* A file is abstracted to its data and a stamp, the part of its metadata  *)
(* that a write renews.  A git command sees one state of the worktree.     *)
(* Every comparison is with the base commit: HEAD and the index are left   *)
(* out, and so is what ends a collection because of them (EndScan may end  *)
(* it at any time).                                                        *)
(***************************************************************************)
EXTENDS Naturals, FiniteSetsExt

CONSTANTS
    Tracked,     \* paths of the base commit, as numbers in their order
    Untracked,   \* other paths, numbered after or between them
    Texts,       \* the data of text files
    Large,       \* the data of files above max_text_file_bytes
    Binary,      \* the data of other files that are not text
    Link,        \* anything but a regular file with one name
    Absent,
    BaseOf,      \* the data of the base commit
    Identities,  \* of directories
    Gone,        \* no directory
    MaxPatches,  \* max_patch_bytes, in patches
    MaxStamp     \* bound: writes to the worktree

Paths == Tracked \cup Untracked
Data  == Texts \cup Large \cup Binary \cup {Link, Absent}

ASSUME DiffAssumption ==
    /\ Paths \subseteq Nat \ {0}
    /\ Tracked \cap Untracked = {}
    /\ BaseOf \in [Paths -> Data]
    /\ \A p \in Paths : p \in Untracked <=> BaseOf[p] = Absent
    /\ Texts \cap (Large \cup Binary) = {}
    /\ {Link, Absent} \cap (Texts \cup Large \cup Binary) = {}
    /\ Link # Absent
    /\ Data \cap {"none", "summary", "omitted"} = {}
    /\ Gone \notin Identities
    /\ MaxPatches \in Nat
    /\ MaxStamp \in Nat

VARIABLES
    root,   \* the worktree's directory
    files,  \* what each path has
    stamp,  \* writes to the worktree so far
    scan,   \* the collection in progress
    held    \* history: what the worktree held while the collection was verified

diffVars == <<root, files, stamp, scan, held>>

Kind     == {"changed", "deleted"}
Unseen   == MaxStamp + 1
File     == [data: Data, stamp: 0..MaxStamp]
Entry    == Data \cup {"none", "summary", "omitted"}

\* The awaits of a collection: for its inventory, with one path at hand, and for
\* its verification.
Listing   == {"idle", "status", "tracked", "untracked"}
Showing   == {"stat", "read", "numstat", "patch"}
Comparing == {"verify", "restatus", "retracked", "reuntracked"}

Scan     == [at: Listing \cup Showing \cup Comparing \cup {"done"},
             root: Identities \cup {Gone},
             status: SUBSET (Paths \X Kind), changes: SUBSET (Paths \X Kind),
             state: [Paths -> 0..Unseen], shown: [Paths -> Entry]]

\* The inventory and its status, the state each path had when it was inspected,
\* and what the diff says of it.
NoScan   == [at |-> "idle", root |-> Gone, status |-> {}, changes |-> {},
             state |-> [p \in Paths |-> Unseen], shown |-> [p \in Paths |-> "none"]]

Now      == [p \in Paths |-> files[p].data]
Change(p) == IF Now[p] = Absent THEN <<p, "deleted">> ELSE <<p, "changed">>

\* What git status, git diff --raw and git ls-files --others report.
Changed(S) == {Change(p) : p \in {q \in S : Now[q] # BaseOf[q]}}
Listed(changes) == {c[1] : c \in changes}

DiffTypeOK ==
    /\ root \in Identities \cup {Gone}
    /\ files \in [Paths -> File]
    /\ stamp \in 0..MaxStamp
    /\ scan \in Scan
    /\ held \subseteq [Paths -> Data]

DiffInit ==
    /\ root \in Identities
    /\ files \in [Paths -> [data: Data, stamp: {0}]]
    /\ stamp = 0
    /\ scan = NoScan
    /\ held = {}

Proceed(s) == scan' = s /\ UNCHANGED <<root, files, stamp, held>>

\* The boundary's verify: the directory is the one the service was made for, by
\* device and inode.
SameRoot == root = scan.root

-----------------------------------------------------------------------------
(* The inventory.                                                          *)

BeginScan ==
    /\ scan.at = "idle"
    /\ root # Gone
    /\ Proceed([NoScan EXCEPT !.at = "status", !.root = root])

ReadStatus ==
    /\ scan.at = "status"
    /\ SameRoot
    /\ Proceed([scan EXCEPT !.at = "tracked", !.status = Changed(Paths)])

ListTracked ==
    /\ scan.at = "tracked"
    /\ Proceed([scan EXCEPT !.at = "untracked", !.changes = Changed(Tracked)])

\* WriteBoundary.authorize of every path that was listed.
Authorized(changes) ==
    changes # {} => SameRoot /\ \A p \in Listed(changes) : Now[p] # Link

\* The path that comes next in the sorted inventory.
Rest(changes, p) == {q \in Listed(changes) : q > p}
Onwards(s, p) ==
    [s EXCEPT !.at = IF Rest(s.changes, p) = {} THEN "verify" ELSE "stat"]

\* With the last path shown the collection only has to be verified.
Advance(s) ==
    /\ scan' = s
    /\ held' = IF s.at = "verify" THEN {Now} ELSE {}
    /\ UNCHANGED <<root, files, stamp>>

\* Paths start at 1: before the first one comes 0.
ListUntracked ==
    /\ scan.at = "untracked"
    /\ LET changes == scan.changes \cup Changed(Untracked)
       IN  /\ Authorized(changes)
           /\ Advance(Onwards([scan EXCEPT !.changes = changes], 0))

-----------------------------------------------------------------------------
(* One changed path after the other.                                       *)

\* The path at hand: the first without an entry.
Path == Min({p \in Listed(scan.changes) : scan.shown[p] = "none"})

\* _path_state; a deleted path has none.
StateOf(p) == IF files[p].data = Absent THEN Unseen ELSE files[p].stamp

\* The path is still there, or still deleted, and a regular file.
Inspectable(p) ==
    /\ SameRoot
    /\ Change(p) \in scan.changes
    /\ Now[p] # Link

Inspected  == [scan.state EXCEPT ![Path] = StateOf(Path)]
Show(entry) == [scan EXCEPT !.shown = [scan.shown EXCEPT ![Path] = entry]]

\* The base or the file is of that kind.
Has(p, kind) == BaseOf[p] \in kind \/ Now[p] \in kind

\* _path_state and _require_regular_file; a large file is not read.
InspectPath ==
    /\ scan.at = "stat"
    /\ Inspectable(Path)
    /\ IF Has(Path, Large)
       THEN Advance(Onwards([Show("summary") EXCEPT !.state = Inspected], Path))
       ELSE Proceed([scan EXCEPT !.at = "read", !.state = Inspected])

\* The base is text: then the file is read, and must be the one inspected.
Reads == BaseOf[Path] \notin Binary /\ scan.state[Path] # Unseen

Summarise == Advance(Onwards(Show("summary"), Path))

\* _is_binary, with _read_worktree.
ReadFile ==
    /\ scan.at = "read"
    /\ Reads => SameRoot /\ StateOf(Path) = scan.state[Path]
    /\ IF BaseOf[Path] \in Binary \/ (Reads /\ Now[Path] \in Binary)
       THEN Summarise
       ELSE Proceed([scan EXCEPT !.at = IF Path \in Tracked THEN "numstat" ELSE "patch"])

\* git diff --numstat of a tracked path has the last word.
Classify ==
    /\ scan.at = "numstat"
    /\ IF Has(Path, Binary)
       THEN Summarise
       ELSE Proceed([scan EXCEPT !.at = "patch"])

\* The patches so far leave room for one more.
Fits == Quantify(Paths, LAMBDA p : scan.shown[p] \in Data) < MaxPatches

\* git diff of one path, whatever the path has by then.
Patch ==
    /\ scan.at = "patch"
    /\ Advance(Onwards(Show(IF Fits THEN Now[Path] ELSE "omitted"), Path))

-----------------------------------------------------------------------------
(* _verify_stable: a comparison that fails ends the collection.            *)

Reverify ==
    /\ scan.at = "verify"
    /\ SameRoot
    /\ Proceed([scan EXCEPT !.at = "restatus"])

RereadStatus ==
    /\ scan.at = "restatus"
    /\ Changed(Paths) = scan.status
    /\ Proceed([scan EXCEPT !.at = "retracked"])

\* Fault: the second inventory is not compared with the first.
Relisted_Ignored(S) == TRUE

\* The inventory has not changed.
Relisted(S) == Changed(S) = {c \in scan.changes : c[1] \in S}

RelistTracked ==
    /\ scan.at = "retracked"
    /\ Relisted(Tracked)
    /\ Proceed([scan EXCEPT !.at = "reuntracked"])

\* Fault: the inventory alone is compared.
Stable_InventoryOnly == TRUE

\* Every path has the state it had when it was inspected.
Stable == \A p \in Listed(scan.changes) : StateOf(p) = scan.state[p]

\* The last git command, then the paths, without an await.
FinishScan ==
    /\ scan.at = "reuntracked"
    /\ Relisted(Untracked)
    /\ Authorized(scan.changes)
    /\ Stable
    /\ Proceed([scan EXCEPT !.at = "done"])

CollectStep ==
    \/ BeginScan \/ ReadStatus \/ ListTracked \/ ListUntracked
    \/ InspectPath \/ ReadFile \/ Classify \/ Patch
    \/ Reverify \/ RereadStatus \/ RelistTracked \/ FinishScan

\* A conflict, a limit, an unavailable git, or the end of the service's request.
EndScan == scan' = NoScan /\ held' = {}

-----------------------------------------------------------------------------
(* The environment.                                                        *)

Verifying == scan.at \in Comparing

\* Somebody writes, creates, links or deletes a file.
WriteFile(p, d) ==
    /\ root # Gone
    /\ stamp < MaxStamp
    /\ Now[p] # d
    /\ stamp' = stamp + 1
    /\ files' = [files EXCEPT ![p] = [data |-> d, stamp |-> stamp + 1]]
    /\ held' = IF Verifying THEN held \cup {[Now EXCEPT ![p] = d]} ELSE held
    /\ UNCHANGED <<root, scan>>

\* A copy takes the place of the directory.
ReplaceRoot(id) ==
    /\ id # root
    /\ stamp < MaxStamp
    /\ stamp' = stamp + 1
    /\ root' = id
    /\ files' = [p \in Paths |-> [data |-> files[p].data, stamp |-> stamp + 1]]
    /\ UNCHANGED <<scan, held>>

-----------------------------------------------------------------------------
(* Properties.                                                             *)

\* What the worktree w has at path p is what the diff says of it.  The patch of
\* a deleted path is not looked at: the path may have been back when git read
\* it, which leaves no state to compare.
Told(w, p) ==
    IF <<p, "deleted">> \in scan.changes
    THEN w[p] = Absent
    ELSE w[p] # Link /\ (scan.shown[p] \in Data => w[p] = scan.shown[p])

\* A diff that is returned is of one state of the files it lists: at one moment
\* of its verification, when all of them had been read, they held the shown
\* texts together, were deleted as it says, and were regular files.  A path it
\* does not list was as in the base commit at some moment of the verification:
\* a change that was there throughout is never missing.
StableDiff ==
    scan.at = "done" =>
        /\ \E w \in held : \A p \in Listed(scan.changes) : Told(w, p)
        /\ \A p \in Paths \ Listed(scan.changes) : \E w \in held : w[p] = BaseOf[p]

-----------------------------------------------------------------------------
(* The inductive invariant behind it.                                      *)

\* A stamp that was seen is not given again.
StampsInOrder ==
    \A p \in Paths : /\ files[p].stamp <= stamp
                     /\ scan.state[p] = Unseen \/ scan.state[p] <= stamp

\* The paths are shown in their order, all of them before the verification.
Missing == {p \in Listed(scan.changes) : scan.shown[p] = "none"}
ShownInOrder ==
    /\ scan.at \in Listing => \A p \in Paths : scan.shown[p] = "none" /\ scan.state[p] = Unseen
    /\ scan.at \in Showing =>
           /\ Missing # {}
           /\ \A p \in Missing, q \in Listed(scan.changes) : p < q => q \in Missing
    /\ scan.at \in Comparing \cup {"done"} => Missing = {}

\* Only a path of the base commit is listed as deleted, and only such a path is
\* shown without a state.
AtHand(p) == scan.at \in {"read", "numstat", "patch"} /\ p = Path
DeletedKnown ==
    \A p \in Paths :
        /\ <<p, "deleted">> \in scan.changes => p \in Tracked
        /\ p \in Listed(scan.changes) /\ (p \notin Missing \/ AtHand(p)) /\ scan.state[p] = Unseen
               => <<p, "deleted">> \in scan.changes

\* A path nobody has written since it was inspected has the shown data.
Steady(p) == scan.state[p] # Unseen /\ StateOf(p) = scan.state[p]
ShownSteady ==
    \A p \in Paths : Steady(p) /\ scan.shown[p] \in Data => Now[p] = scan.shown[p]

\* When the tracked paths had been listed again, the deleted ones were away
\* together, those not listed were as in the base commit, and what is steady
\* had its data.
Relisting(w) ==
    /\ \A p \in Paths : <<p, "deleted">> \in scan.changes => w[p] = Absent
    /\ \A p \in Tracked \ Listed(scan.changes) : w[p] = BaseOf[p]
    /\ \A p \in Paths : Steady(p) => w[p] = Now[p]
HeldVerified ==
    /\ Verifying => Now \in held
    /\ scan.at = "reuntracked" => \E w \in held : Relisting(w)

DiffInv ==
    /\ DiffTypeOK
    /\ StampsInOrder
    /\ ShownInOrder
    /\ DeletedKnown
    /\ ShownSteady
    /\ HeldVerified
    /\ StableDiff

=============================================================================
