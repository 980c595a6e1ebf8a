--------------------------- MODULE RetainedTreeProofs ---------------------------
(* Proofs about the collection of a diff and the disposal of a rejected    *)
(* worktree, for any files, requests and bounds.                           *)
EXTENDS RetainedTree, WellFoundedInduction, TLAPS

-----------------------------------------------------------------------------
(* The collection: its operators.                                          *)

\* A set of natural numbers that is not empty has a first element.
LEMMA MinIsFirst ==
    ASSUME NEW S, S \subseteq Nat, S # {}
    PROVE  Min(S) \in S /\ \A q \in S : Min(S) <= q
<1> DEFINE R == OpToRel(<, Nat)
<1>1. IsWellFoundedOn(R, Nat)
  BY NatLessThanWellFounded
<1>2. \A i, j \in Nat : i < j => <<i, j>> \in R
  BY DEF OpToRel
<1> HIDE DEF R
<1>3. PICK m \in S : \A q \in S : <<q, m>> \notin R
  BY <1>1, WFMin
<1>4. ASSUME NEW q \in S
      PROVE  m <= q
  <2>1. m \in Nat /\ q \in Nat
    OBVIOUS
  <2>2. ~(q < m)
    BY <1>2, <1>3, <2>1
  <2> QED
    BY <2>1, <2>2
<1> QED
  BY <1>3, <1>4 DEF Min

\* What the provers need of the types of the collection.
LEMMA DiffTypes ==
    ASSUME DiffTypeOK
    PROVE  /\ Paths \subseteq Nat \ {0}
           /\ MaxStamp \in Nat /\ Unseen = MaxStamp + 1 /\ stamp \in 0..MaxStamp
           /\ scan \in Scan
           /\ scan.state \in [Paths -> 0..Unseen] /\ scan.shown \in [Paths -> Entry]
           /\ scan.changes \subseteq Paths \X Kind
           /\ Listed(scan.changes) \subseteq Paths
           /\ Now \in [Paths -> Data]
           /\ \A p \in Paths : /\ files[p] \in File
                               /\ Now[p] = files[p].data /\ Now[p] \in Data
                               /\ StateOf(p) \in 0..Unseen
                               /\ StateOf(p) = Unseen <=> Now[p] = Absent
                               /\ StateOf(p) # Unseen => StateOf(p) = files[p].stamp
<1>1. Paths \subseteq Nat \ {0} /\ MaxStamp \in Nat /\ Unseen = MaxStamp + 1 /\ stamp \in 0..MaxStamp
  BY DiffAssumption DEF DiffTypeOK, Unseen
<1>2. /\ scan \in Scan
      /\ scan.state \in [Paths -> 0..Unseen] /\ scan.shown \in [Paths -> Entry]
      /\ scan.changes \subseteq Paths \X Kind
  BY DEF DiffTypeOK, Scan
<1>3. Listed(scan.changes) \subseteq Paths
  BY <1>2 DEF Listed
<1>4. ASSUME NEW p \in Paths
      PROVE  /\ files[p] \in File /\ files[p].data \in Data /\ files[p].stamp \in 0..MaxStamp
             /\ Now[p] = files[p].data
  BY DEF DiffTypeOK, File, Now
<1>5. Now \in [Paths -> Data]
  BY <1>4 DEF Now
<1>6. ASSUME NEW p \in Paths
      PROVE  /\ StateOf(p) \in 0..Unseen
             /\ StateOf(p) = Unseen <=> Now[p] = Absent
             /\ StateOf(p) # Unseen => StateOf(p) = files[p].stamp
  BY <1>1, <1>4 DEF StateOf
<1> QED
  BY <1>1, <1>2, <1>3, <1>4, <1>5, <1>6

\* The kinds of a path in what git reports of the paths S.
LEMMA ChangedOf ==
    ASSUME DiffTypeOK, NEW S, S \subseteq Paths
    PROVE  /\ Changed(S) \subseteq Paths \X Kind
           /\ \A p \in Paths : p \in Listed(Changed(S)) <=> p \in S /\ Now[p] # BaseOf[p]
           /\ \A p : <<p, "deleted">> \in Changed(S) => p \in S /\ Now[p] = Absent /\ Now[p] # BaseOf[p]
<1>1. ASSUME NEW p
      PROVE  /\ Change(p)[1] = p
             /\ Change(p) = <<p, "deleted">> => Now[p] = Absent
             /\ Change(p) \in {p} \X Kind
  BY DEF Change, Kind
<1>2. Changed(S) \subseteq Paths \X Kind
  BY <1>1 DEF Changed
<1>3. ASSUME NEW p
      PROVE  p \in Listed(Changed(S)) <=> p \in S /\ Now[p] # BaseOf[p]
  BY <1>1 DEF Changed, Listed
<1>4. ASSUME NEW p, <<p, "deleted">> \in Changed(S)
      PROVE  p \in S /\ Now[p] = Absent /\ Now[p] # BaseOf[p]
  BY <1>1, <1>4 DEF Changed
<1> QED
  BY <1>2, <1>3, <1>4

\* The path at hand is the first without an entry, and all that come after it
\* have none.
LEMMA PathIsFirst ==
    ASSUME DiffTypeOK, ShownInOrder, scan.at \in Showing
    PROVE  /\ Path \in Missing /\ Path \in Paths
           /\ Rest(scan.changes, Path) = Missing \ {Path}
<1>1. Missing # {} /\ \A p \in Missing, q \in Listed(scan.changes) : p < q => q \in Missing
  BY DEF ShownInOrder
<1>2. Missing \subseteq Listed(scan.changes) /\ Listed(scan.changes) \subseteq Paths
      /\ Paths \subseteq Nat
  BY DiffTypes DEF Missing
<1>3. Path = Min(Missing)
  BY DEF Path, Missing
<1>4. Path \in Missing /\ \A q \in Missing : Path <= q
  BY <1>1, <1>2, <1>3, MinIsFirst
<1>5. ASSUME NEW q \in Listed(scan.changes)
      PROVE  q > Path <=> q \in Missing /\ q # Path
  <2>1. q \in Nat /\ Path \in Nat
    BY <1>2, <1>4
  <2>2. Path < q => q \in Missing
    BY <1>1, <1>4
  <2> QED
    BY <1>4, <2>1, <2>2
<1> QED
  BY <1>2, <1>4, <1>5 DEF Rest

-----------------------------------------------------------------------------
(* The collection: its steps.                                              *)

\* What a step that only reads the worktree has to show.
LEMMA ReadingKeeps ==
    ASSUME DiffInv, UNCHANGED <<root, files, stamp>>, scan' \in Scan, held' \subseteq [Paths -> Data],
           ShownInOrder', DeletedKnown', StableDiff',
           \A p \in Paths : scan'.state[p] \in {scan.state[p], StateOf(p), Unseen},
           \A p \in Paths : scan'.shown[p] \in Data =>
               \/ scan'.shown[p] = Now[p]
               \/ scan'.shown[p] = scan.shown[p] /\ scan'.state[p] = scan.state[p],
           scan'.at \in Comparing => Now \in held',
           scan'.at = "reuntracked" => \E w \in held' : Relisting(w)'
    PROVE  DiffInv'
<1>0. DiffTypeOK /\ Now' = Now /\ \A p : StateOf(p)' = StateOf(p)
  BY DEF DiffInv, Now, StateOf
<1>1. DiffTypeOK'
  BY <1>0 DEF DiffTypeOK
<1>2. StampsInOrder'
  <2> SUFFICES ASSUME NEW p \in Paths
               PROVE  files[p].stamp <= stamp /\ (scan'.state[p] = Unseen \/ scan'.state[p] <= stamp)
    BY DEF StampsInOrder, Unseen
  <2>1. files[p].stamp <= stamp /\ (scan.state[p] = Unseen \/ scan.state[p] <= stamp)
    BY DEF DiffInv, StampsInOrder
  <2>2. StateOf(p) # Unseen => StateOf(p) <= stamp
    BY <1>0, <2>1, DiffTypes
  <2> QED
    BY <2>1, <2>2
<1>3. ShownSteady'
  <2> SUFFICES ASSUME NEW p \in Paths, Steady(p)', scan'.shown[p] \in Data
               PROVE  Now[p] = scan'.shown[p]
    BY <1>0 DEF ShownSteady
  <2>1. scan'.state[p] = scan.state[p] => Steady(p)
    BY <1>0 DEF Steady, Unseen
  <2> QED
    BY <2>1 DEF DiffInv, ShownSteady
<1>4. HeldVerified'
  BY <1>0 DEF HeldVerified, Verifying
<1> QED
  BY <1>1, <1>2, <1>3, <1>4 DEF DiffInv

\* A step from one await to the next, with nothing new to remember.
LEMMA AwaitKeeps ==
    ASSUME DiffInv, NEW place, scan' = [scan EXCEPT !.at = place], UNCHANGED <<root, files, stamp, held>>,
           \/ scan.at \in {"read", "numstat"} /\ place \in {"numstat", "patch"}
           \/ scan.at \in {"verify", "restatus"} /\ place \in {"restatus", "retracked"}
    PROVE  DiffInv'
<1>0. DiffTypeOK /\ scan \in Scan
  BY DEF DiffInv, DiffTypeOK
<1>1. /\ scan' \in Scan /\ scan'.at = place
      /\ scan'.root = scan.root /\ scan'.status = scan.status /\ scan'.changes = scan.changes
      /\ scan'.state = scan.state /\ scan'.shown = scan.shown
  BY <1>0 DEF Scan, Showing, Comparing
<1>2. Missing' = Missing /\ Path' = Path
  BY <1>1 DEF Missing, Path, Listed
<1>3. ShownInOrder'
  BY <1>1, <1>2 DEF DiffInv, ShownInOrder, Listing, Showing, Comparing, Listed
<1>4. DeletedKnown'
  BY <1>1, <1>2 DEF DiffInv, DeletedKnown, AtHand, Listed, Unseen
<1>5. held' \subseteq [Paths -> Data] /\ StableDiff'
  BY <1>0, <1>1 DEF DiffTypeOK, StableDiff
<1>6. scan'.at \in Comparing => Now \in held'
  BY <1>1 DEF DiffInv, HeldVerified, Verifying, Comparing
<1>7. scan'.at # "reuntracked"
  BY <1>1
<1> QED
  BY <1>1, <1>3, <1>4, <1>5, <1>6, <1>7, ReadingKeeps

\* A step of the inventory, or one that starts over.
LEMMA InventoryKeeps ==
    ASSUME DiffInv, UNCHANGED <<root, files, stamp>>, scan' \in Scan, held' \subseteq [Paths -> Data],
           scan'.at \in Listing,
           \A p \in Paths : scan'.shown[p] = "none" /\ scan'.state[p] = Unseen,
           \A p \in Paths : <<p, "deleted">> \in scan'.changes => p \in Tracked
    PROVE  DiffInv'
<1>1. scan'.at \notin Showing \cup Comparing \cup {"done"} /\ "none" \notin Data
  BY DiffAssumption DEF Listing, Showing, Comparing
<1>2. ShownInOrder'
  BY <1>1 DEF ShownInOrder, Unseen
<1>3. DeletedKnown'
  <2>1. \A p \in Listed(scan.changes)' \cap Paths : p \in Missing'
    BY DEF Missing
  <2>2. \A p : ~AtHand(p)'
    BY <1>1 DEF AtHand, Showing
  <2> QED
    BY <2>1, <2>2 DEF DeletedKnown
<1>4. StableDiff'
  BY <1>1 DEF StableDiff
<1> QED
  BY <1>1, <1>2, <1>3, <1>4, ReadingKeeps DEF Comparing

\* A step that goes on to the path after p, or from the last path to the
\* verification.
LEMMA AdvanceKeeps ==
    ASSUME DiffInv, NEW STATE s, NEW STATE p, s \in Scan, p \in Nat, Advance(Onwards(s, p)),
           \A q \in Listed(s.changes) : s.shown[q] = "none" <=> q > p,
           \A q \in Paths : <<q, "deleted">> \in s.changes => q \in Tracked,
           \A q \in Listed(s.changes) :
               s.shown[q] # "none" /\ s.state[q] = Unseen => <<q, "deleted">> \in s.changes,
           \A q \in Paths : s.state[q] \in {scan.state[q], StateOf(q), Unseen},
           \A q \in Paths : s.shown[q] \in Data =>
               \/ s.shown[q] = Now[q]
               \/ s.shown[q] = scan.shown[q] /\ s.state[q] = scan.state[q]
    PROVE  DiffInv'
<1>0. DiffTypeOK /\ Paths \subseteq Nat /\ Now \in [Paths -> Data]
  BY DiffTypes DEF DiffInv
<1> DEFINE place == IF Rest(s.changes, p) = {} THEN "verify" ELSE "stat"
<1>1. /\ scan' \in Scan /\ scan'.at = place
      /\ scan'.changes = s.changes /\ scan'.state = s.state /\ scan'.shown = s.shown
  BY DEF Advance, Onwards, Scan, Showing, Comparing
<1>2. /\ UNCHANGED <<root, files, stamp>>
      /\ held' = IF place = "verify" THEN {Now} ELSE {}
  BY <1>1 DEF Advance, Onwards
<1>3. Listed(s.changes) \subseteq Paths
  BY DEF Scan, Listed
<1>4. Missing' = Rest(s.changes, p) /\ Listed(scan.changes)' = Listed(s.changes)
  BY <1>1 DEF Missing, Rest, Listed
<1>5. ShownInOrder'
  <2>1. place = "verify" => Missing' = {}
    BY <1>4
  <2>2. place = "stat" => Missing' # {}
    BY <1>4
  <2>3. ASSUME NEW q \in Missing', NEW r \in Listed(s.changes), q < r
        PROVE  r \in Missing'
    <3>1. q \in Nat /\ r \in Nat /\ q > p
      BY <1>0, <1>3, <1>4, <2>3 DEF Rest
    <3>2. r > p
      BY <2>3, <3>1
    <3> QED
      BY <1>4, <3>2 DEF Rest
  <2> QED
    BY <1>1, <1>4, <2>1, <2>2, <2>3 DEF ShownInOrder, Listing, Showing, Comparing
<1>6. DeletedKnown'
  <2>1. \A q : ~AtHand(q)'
    BY <1>1 DEF AtHand
  <2>2. \A q \in Listed(s.changes) : q \notin Missing' => s.shown[q] # "none"
    BY <1>4 DEF Rest
  <2> QED
    BY <1>1, <1>4, <2>1, <2>2 DEF DeletedKnown, Unseen
<1>7. StableDiff' /\ held' \subseteq [Paths -> Data]
  BY <1>0, <1>1, <1>2 DEF StableDiff
<1>8. scan'.at \in Comparing => Now \in held'
  BY <1>1, <1>2 DEF Comparing
<1>9. scan'.at # "reuntracked"
  BY <1>1
<1> HIDE DEF place
<1> QED
  BY <1>1, <1>2, <1>5, <1>6, <1>7, <1>8, <1>9, ReadingKeeps

\* A collection ends.
LEMMA NoScanKeeps ==
    ASSUME DiffInv, scan' = NoScan, held' = {}, UNCHANGED <<root, files, stamp>>
    PROVE  DiffInv'
<1>1. MaxStamp \in Nat /\ Unseen \in 0..Unseen
  BY DiffAssumption DEF Unseen
<1>2. NoScan \in Scan
  BY <1>1 DEF NoScan, Scan, Listing, Entry
<1> QED
  BY <1>2, InventoryKeeps DEF NoScan, Listing

\* The inventory up to the tracked paths.
LEMMA ListingKeeps ==
    ASSUME DiffInv, BeginScan \/ ReadStatus \/ ListTracked
    PROVE  DiffInv'
<1>0. DiffTypeOK /\ scan \in Scan /\ held \subseteq [Paths -> Data] /\ root \in Identities \cup {Gone}
  BY DEF DiffInv, DiffTypeOK
<1>1. CASE BeginScan
  <2>1. MaxStamp \in Nat /\ Unseen \in 0..Unseen
    BY DiffAssumption DEF Unseen
  <2>2. /\ scan' \in Scan /\ scan'.at \in Listing /\ scan'.changes = {}
        /\ \A p \in Paths : scan'.shown[p] = "none" /\ scan'.state[p] = Unseen
    BY <1>0, <1>1, <2>1 DEF BeginScan, Proceed, NoScan, Scan, Listing, Entry
  <2> QED
    BY <1>0, <1>1, <2>2, InventoryKeeps DEF BeginScan, Proceed
<1>2. scan.at \in Listing =>
          /\ \A p \in Paths : scan.shown[p] = "none" /\ scan.state[p] = Unseen
          /\ \A p \in Paths : <<p, "deleted">> \in scan.changes => p \in Tracked
  BY DEF DiffInv, ShownInOrder, DeletedKnown
<1>3. CASE ReadStatus
  <2>1. Changed(Paths) \subseteq Paths \X Kind
    BY <1>0, ChangedOf
  <2>2. /\ scan' \in Scan /\ scan'.at = "tracked" /\ scan'.changes = scan.changes
        /\ scan'.shown = scan.shown /\ scan'.state = scan.state
    BY <1>0, <1>3, <2>1 DEF ReadStatus, Proceed, Scan, Listing
  <2> QED
    BY <1>0, <1>2, <1>3, <2>2, InventoryKeeps DEF ReadStatus, Proceed, Listing
<1>4. CASE ListTracked
  <2>1. /\ Changed(Tracked) \subseteq Paths \X Kind
        /\ \A p : <<p, "deleted">> \in Changed(Tracked) => p \in Tracked
    BY <1>0, ChangedOf DEF Paths
  <2>2. /\ scan' \in Scan /\ scan'.at = "untracked" /\ scan'.changes = Changed(Tracked)
        /\ scan'.shown = scan.shown /\ scan'.state = scan.state
    BY <1>0, <1>4, <2>1 DEF ListTracked, Proceed, Scan, Listing
  <2> QED
    BY <1>0, <1>2, <1>4, <2>1, <2>2, InventoryKeeps DEF ListTracked, Proceed, Listing
<1> QED
  BY <1>1, <1>3, <1>4

\* The untracked paths complete the inventory; none of them is listed as
\* deleted.
LEMMA ListUntrackedKeeps ==
    ASSUME DiffInv, ListUntracked
    PROVE  DiffInv'
<1>0. DiffTypeOK /\ scan \in Scan /\ Paths \subseteq Nat \ {0} /\ "none" \notin Data
      /\ scan.at \in Listing
  BY DiffTypes, DiffAssumption DEF DiffInv, ListUntracked, Listing
<1> DEFINE changes == scan.changes \cup Changed(Untracked)
           s == [scan EXCEPT !.changes = changes]
<1>1. /\ Changed(Untracked) \subseteq Paths \X Kind
      /\ \A p \in Paths : <<p, "deleted">> \notin Changed(Untracked)
  BY <1>0, ChangedOf, DiffAssumption DEF Paths
<1>2. /\ s \in Scan /\ s.changes = changes
      /\ s.shown = scan.shown /\ s.state = scan.state
  BY <1>0, <1>1 DEF Scan
<1>3. Advance(Onwards(s, 0))
  BY DEF ListUntracked
<1>4. \A p \in Paths : scan.shown[p] = "none" /\ scan.state[p] = Unseen
  BY <1>0 DEF DiffInv, ShownInOrder
<1>5. \A p \in Paths : <<p, "deleted">> \in changes => p \in Tracked
  BY <1>1 DEF DiffInv, DeletedKnown
<1>6. Listed(s.changes) \subseteq Paths
  BY <1>2 DEF Scan, Listed
<1>7. \A q \in Listed(s.changes) : s.shown[q] = "none" <=> q > 0
  BY <1>0, <1>2, <1>4, <1>6
<1> HIDE DEF s, changes
<1> QED
  BY <1>0, <1>2, <1>3, <1>4, <1>5, <1>6, <1>7, AdvanceKeeps

\* What the diff says of the path at hand, and its state.
LEMMA ShowKeeps ==
    ASSUME DiffInv, scan.at \in Showing, NEW STATE s, NEW STATE entry, s \in Scan,
           Advance(Onwards(s, Path)),
           s.changes = scan.changes, s.shown = [scan.shown EXCEPT ![Path] = entry],
           entry \in {"summary", "omitted", Now[Path]},
           \A q \in Paths \ {Path} : s.state[q] = scan.state[q],
           s.state[Path] \in {scan.state[Path], StateOf(Path)},
           s.state[Path] = Unseen => <<Path, "deleted">> \in scan.changes
    PROVE  DiffInv'
<1>0. /\ DiffTypeOK /\ Paths \subseteq Nat \ {0} /\ Data \cap {"none", "summary", "omitted"} = {}
      /\ Listed(scan.changes) \subseteq Paths /\ scan.shown \in [Paths -> Entry]
      /\ \A q \in Paths : Now[q] \in Data
  BY DiffTypes, DiffAssumption DEF DiffInv
<1>1. Path \in Missing /\ Path \in Paths /\ Rest(scan.changes, Path) = Missing \ {Path}
  BY <1>0, PathIsFirst DEF DiffInv
<1>2. /\ s.shown[Path] = entry
      /\ \A q \in Paths \ {Path} : s.shown[q] = scan.shown[q]
  BY <1>0, <1>1
<1>3. entry # "none" /\ (entry \in Data => entry = Now[Path])
  <2>1. Now[Path] # "none"
    BY <1>0, <1>1
  <2>2. "summary" \notin Data /\ "omitted" \notin Data
    BY <1>0
  <2> QED
    BY <2>1, <2>2
<1>4. ASSUME NEW q \in Listed(s.changes)
      PROVE  /\ s.shown[q] = "none" <=> q > Path
             /\ s.shown[q] # "none" /\ s.state[q] = Unseen => <<q, "deleted">> \in s.changes
  <2>1. q \in Paths /\ q \in Listed(scan.changes)
    BY <1>0
  <2>2. q > Path <=> q \in Missing /\ q # Path
    BY <1>1, <2>1 DEF Rest
  <2>3. s.shown[q] = "none" <=> q \in Missing /\ q # Path
    BY <1>2, <1>3, <2>1 DEF Missing
  <2>4. s.shown[q] # "none" /\ s.state[q] = Unseen => <<q, "deleted">> \in s.changes
    <3>1. CASE q = Path
      BY <3>1
    <3>2. CASE q # Path
      BY <2>1, <2>3, <3>2 DEF DiffInv, DeletedKnown
    <3> QED
      BY <3>1, <3>2
  <2> QED
    BY <2>2, <2>3, <2>4
<1>5. \A q \in Paths : s.state[q] \in {scan.state[q], StateOf(q), Unseen}
  BY <1>1
<1>6. \A q \in Paths : s.shown[q] \in Data =>
          \/ s.shown[q] = Now[q]
          \/ s.shown[q] = scan.shown[q] /\ s.state[q] = scan.state[q]
  BY <1>1, <1>2, <1>3
<1>7. \A q \in Paths : <<q, "deleted">> \in s.changes => q \in Tracked
  BY DEF DiffInv, DeletedKnown
<1>8. Path \in Nat
  BY <1>0, <1>1
<1> QED
  BY <1>4, <1>5, <1>6, <1>7, <1>8, AdvanceKeeps

\* A path that was inspected is shown.
LEMMA EntryKeeps ==
    ASSUME DiffInv, scan.at \in {"read", "numstat", "patch"}, NEW STATE entry,
           entry \in {"summary", "omitted", Now[Path]}, Advance(Onwards(Show(entry), Path))
    PROVE  DiffInv'
<1>1. /\ DiffTypeOK /\ scan \in Scan /\ scan.at \in Showing /\ Path \in Paths
      /\ \A q \in Paths : Now[q] \in Data
  BY PathIsFirst, DiffTypes DEF DiffInv, Showing
<1>2. entry \in Entry
  BY <1>1 DEF Entry
<1>3. /\ Show(entry) \in Scan
      /\ Show(entry).changes = scan.changes /\ Show(entry).state = scan.state
      /\ Show(entry).shown = [scan.shown EXCEPT ![Path] = entry]
  BY <1>1, <1>2 DEF Show, Scan
<1>4. scan.state[Path] = Unseen => <<Path, "deleted">> \in scan.changes
  BY <1>1, PathIsFirst DEF DiffInv, DeletedKnown, AtHand, Missing
<1> QED
  BY <1>1, <1>3, <1>4, ShowKeeps

\* The state of the path at hand.
LEMMA InspectKeeps ==
    ASSUME DiffInv, InspectPath
    PROVE  DiffInv'
<1>0. /\ DiffTypeOK /\ scan \in Scan /\ scan.at = "stat" /\ scan.at \in Showing
      /\ Inspectable(Path)
  BY DEF DiffInv, DiffTypeOK, InspectPath, Showing
<1>1. /\ Path \in Missing /\ Path \in Paths /\ StateOf(Path) \in 0..Unseen
      /\ StateOf(Path) = Unseen => Now[Path] = Absent
      /\ scan.state \in [Paths -> 0..Unseen]
  BY <1>0, PathIsFirst, DiffTypes DEF DiffInv
<1>2. /\ Inspected \in [Paths -> 0..Unseen] /\ Inspected[Path] = StateOf(Path)
      /\ \A q \in Paths \ {Path} : Inspected[q] = scan.state[q]
  BY <1>1 DEF Inspected
<1>3. StateOf(Path) = Unseen => <<Path, "deleted">> \in scan.changes
  BY <1>0, <1>1 DEF Inspectable, Change
<1>4. CASE Has(Path, Large)
  <2> DEFINE s == [Show("summary") EXCEPT !.state = Inspected]
  <2>1. Advance(Onwards(s, Path))
    BY <1>0, <1>4 DEF InspectPath
  <2>2. "summary" \in Entry
    BY DEF Entry
  <2>3. /\ s \in Scan /\ s.changes = scan.changes /\ s.state = Inspected
        /\ s.shown = [scan.shown EXCEPT ![Path] = "summary"]
    BY <1>0, <1>1, <1>2, <2>2 DEF Show, Scan
  <2> HIDE DEF s
  <2> QED
    BY <1>0, <1>2, <1>3, <2>1, <2>3, ShowKeeps
<1>5. CASE ~Has(Path, Large)
  <2>1. scan' = [scan EXCEPT !.at = "read", !.state = Inspected]
        /\ UNCHANGED <<root, files, stamp, held>>
    BY <1>0, <1>5 DEF InspectPath, Proceed
  <2>2. /\ scan' \in Scan /\ scan'.at = "read" /\ scan'.changes = scan.changes
        /\ scan'.state = Inspected /\ scan'.shown = scan.shown
    BY <1>0, <1>2, <2>1 DEF Scan, Showing
  <2>3. Missing' = Missing /\ Path' = Path /\ Listed(scan.changes)' = Listed(scan.changes)
    BY <2>2 DEF Missing, Path, Listed
  <2>4. ShownInOrder'
    BY <1>0, <2>2, <2>3 DEF DiffInv, ShownInOrder, Listing, Showing, Comparing
  <2>5. DeletedKnown'
    <3> SUFFICES ASSUME NEW p \in Paths
                 PROVE  /\ <<p, "deleted">> \in scan.changes => p \in Tracked
                        /\ p \in Listed(scan.changes) /\ (p \notin Missing \/ p = Path)
                           /\ Inspected[p] = Unseen => <<p, "deleted">> \in scan.changes
      BY <2>2, <2>3 DEF DeletedKnown, AtHand, Unseen
    <3>1. CASE p = Path
      BY <1>2, <1>3, <3>1 DEF DiffInv, DeletedKnown
    <3>2. CASE p # Path
      BY <1>2, <3>2 DEF DiffInv, DeletedKnown
    <3> QED
      BY <3>1, <3>2
  <2>6. held' \subseteq [Paths -> Data] /\ StableDiff'
    BY <1>0, <2>1, <2>2 DEF DiffTypeOK, StableDiff
  <2>7. \A p \in Paths : /\ scan'.state[p] \in {scan.state[p], StateOf(p), Unseen}
                         /\ scan'.shown[p] \in Data => scan'.state[p] = scan.state[p]
    <3>1. scan.shown[Path] \notin Data
      BY <1>1, DiffAssumption DEF Missing
    <3> QED
      BY <1>2, <2>2, <3>1
  <2>8. scan'.at \notin Comparing
    BY <2>2 DEF Comparing
  <2> QED
    BY <2>1, <2>2, <2>4, <2>5, <2>6, <2>7, <2>8, ReadingKeeps DEF Comparing
<1> QED
  BY <1>4, <1>5

\* The reading of the path at hand, its classification and its patch.
LEMMA ShowingKeeps ==
    ASSUME DiffInv, ReadFile \/ Classify \/ Patch
    PROVE  DiffInv'
<1>1. CASE Summarise /\ (ReadFile \/ Classify)
  BY <1>1, EntryKeeps DEF Summarise, ReadFile, Classify
<1>2. CASE ReadFile /\ ~Summarise
  <2>1. PICK place \in {"numstat", "patch"} : Proceed([scan EXCEPT !.at = place])
    BY <1>2 DEF ReadFile
  <2> QED
    BY <1>2, <2>1, AwaitKeeps DEF ReadFile, Proceed
<1>3. CASE Classify /\ ~Summarise
  BY <1>3, AwaitKeeps DEF Classify, Proceed
<1>4. CASE Patch
  <2> DEFINE entry == IF Fits THEN Now[Path] ELSE "omitted"
  <2>1. entry \in {"summary", "omitted", Now[Path]}
    OBVIOUS
  <2>2. Advance(Onwards(Show(entry), Path))
    BY <1>4 DEF Patch
  <2> HIDE DEF entry
  <2> QED
    BY <1>4, <2>1, <2>2, EntryKeeps DEF Patch
<1> QED
  BY <1>1, <1>2, <1>3, <1>4

\* When the tracked paths are as they were listed, the worktree is the one that
\* the diff will be of.
LEMMA RelistKeeps ==
    ASSUME DiffInv, RelistTracked
    PROVE  DiffInv'
<1>0. /\ DiffTypeOK /\ scan \in Scan /\ scan.at = "retracked" /\ Relisted(Tracked)
      /\ scan' = [scan EXCEPT !.at = "reuntracked"] /\ UNCHANGED <<root, files, stamp, held>>
  BY DEF DiffInv, DiffTypeOK, RelistTracked, Proceed
<1>1. /\ scan' \in Scan /\ scan'.at = "reuntracked" /\ scan'.changes = scan.changes
      /\ scan'.state = scan.state /\ scan'.shown = scan.shown
  BY <1>0 DEF Scan, Comparing
<1>2. Missing' = Missing /\ Listed(scan.changes)' = Listed(scan.changes)
  BY <1>1 DEF Missing, Listed
<1>3. ShownInOrder'
  BY <1>0, <1>1, <1>2 DEF DiffInv, ShownInOrder, Listing, Showing, Comparing
<1>4. DeletedKnown'
  BY <1>0, <1>1, <1>2 DEF DiffInv, DeletedKnown, AtHand, Unseen
<1>5. held' \subseteq [Paths -> Data] /\ StableDiff'
  BY <1>0, <1>1 DEF DiffTypeOK, StableDiff
<1>6. Now \in held
  BY <1>0 DEF DiffInv, HeldVerified, Verifying, Comparing
<1>7. Relisting(Now)'
  <2>1. Now' = Now
    BY <1>0 DEF Now
  <2>2. ASSUME NEW p \in Paths, <<p, "deleted">> \in scan.changes
        PROVE  Now[p] = Absent
    <3>1. p \in Tracked
      BY <2>2 DEF DiffInv, DeletedKnown
    <3>2. <<p, "deleted">> \in Changed(Tracked)
      BY <1>0, <2>2, <3>1 DEF Relisted
    <3> QED
      BY <1>0, <3>2, ChangedOf DEF Paths
  <2>3. ASSUME NEW p \in Tracked \ Listed(scan.changes)
        PROVE  Now[p] = BaseOf[p]
    <3>1. Changed(Tracked) \subseteq scan.changes
      BY <1>0 DEF Relisted
    <3>2. p \notin Listed(Changed(Tracked))
      BY <2>3, <3>1 DEF Listed
    <3> QED
      BY <1>0, <2>3, <3>2, ChangedOf DEF Paths
  <2> QED
    BY <1>1, <1>2, <2>1, <2>2, <2>3 DEF Relisting
<1>8. \E w \in held' : Relisting(w)'
  <2>1. Now' \in held' /\ Now' = Now
    BY <1>0, <1>6 DEF Now
  <2> QED
    BY <1>7, <2>1
<1>9. \A p \in Paths : /\ scan'.state[p] \in {scan.state[p], StateOf(p), Unseen}
                       /\ scan'.shown[p] = scan.shown[p]
  BY <1>1
<1> QED
  BY <1>0, <1>1, <1>3, <1>4, <1>5, <1>6, <1>8, <1>9, ReadingKeeps

\* A collection that finishes has read the files of one moment: what was deleted
\* then is not looked at again, and what was there has not been written since.
LEMMA FinishKeeps ==
    ASSUME DiffInv, FinishScan
    PROVE  DiffInv'
<1>0. /\ DiffTypeOK /\ scan \in Scan /\ scan.at = "reuntracked"
      /\ Relisted(Untracked) /\ Authorized(scan.changes) /\ Stable
      /\ scan' = [scan EXCEPT !.at = "done"] /\ UNCHANGED <<root, files, stamp, held>>
  BY DEF DiffInv, DiffTypeOK, FinishScan, Proceed
<1>1. /\ scan' \in Scan /\ scan'.at = "done" /\ scan'.changes = scan.changes
      /\ scan'.state = scan.state /\ scan'.shown = scan.shown
  BY <1>0 DEF Scan
<1>2. Missing' = Missing /\ Listed(scan.changes)' = Listed(scan.changes)
  BY <1>1 DEF Missing, Listed
<1>3. ShownInOrder'
  BY <1>0, <1>1, <1>2 DEF DiffInv, ShownInOrder, Listing, Showing, Comparing
<1>4. DeletedKnown'
  BY <1>0, <1>1, <1>2 DEF DiffInv, DeletedKnown, AtHand, Unseen
<1>5. Missing = {} /\ Now \in held /\ held \subseteq [Paths -> Data]
      /\ Listed(scan.changes) \subseteq Paths
  BY <1>0, DiffTypes DEF DiffInv, ShownInOrder, HeldVerified, Verifying, Comparing, DiffTypeOK
<1>6. PICK w \in held : Relisting(w)
  BY <1>0 DEF DiffInv, HeldVerified
<1>7. ASSUME NEW p \in Listed(scan.changes)
      PROVE  Told(w, p)
  <2>1. CASE <<p, "deleted">> \in scan.changes
    BY <1>5, <1>6, <2>1 DEF Told, Relisting
  <2>2. CASE <<p, "deleted">> \notin scan.changes
    <3>1. scan.state[p] # Unseen
      BY <1>5, <2>2 DEF DiffInv, DeletedKnown
    <3>2. Steady(p)
      BY <1>0, <3>1 DEF Stable, Steady
    <3>3. w[p] = Now[p] /\ (scan.shown[p] \in Data => Now[p] = scan.shown[p])
      BY <1>5, <1>6, <3>2 DEF Relisting, DiffInv, ShownSteady
    <3>4. Now[p] # Link
      BY <1>0, <1>7 DEF Authorized, Listed
    <3> QED
      BY <2>2, <3>3, <3>4 DEF Told
  <2> QED
    BY <2>1, <2>2
<1>8. ASSUME NEW p \in Paths \ Listed(scan.changes)
      PROVE  \E v \in held : v[p] = BaseOf[p]
  <2>1. CASE p \in Tracked
    BY <1>6, <1>8, <2>1 DEF Relisting
  <2>2. CASE p \in Untracked
    <3>1. Changed(Untracked) \subseteq scan.changes
      BY <1>0 DEF Relisted
    <3>2. p \notin Listed(Changed(Untracked))
      BY <1>8, <3>1 DEF Listed
    <3>3. Now[p] = BaseOf[p]
      BY <1>0, <2>2, <3>2, ChangedOf DEF Paths
    <3> QED
      BY <1>5, <3>3
  <2> QED
    BY <1>8, <2>1, <2>2 DEF Paths
<1>9. StableDiff'
  <2>1. \A p \in Listed(scan.changes) : Told(w, p)'
    BY <1>1, <1>7 DEF Told
  <2> QED
    BY <1>0, <1>2, <1>6, <1>8, <2>1 DEF StableDiff
<1>10. scan'.at \notin Comparing
  BY <1>1 DEF Comparing
<1>11. \A p \in Paths : /\ scan'.state[p] \in {scan.state[p], StateOf(p), Unseen}
                        /\ scan'.shown[p] = scan.shown[p]
  BY <1>1
<1> QED
  BY <1>0, <1>1, <1>3, <1>4, <1>5, <1>9, <1>10, <1>11, ReadingKeeps DEF Comparing

\* Every step of a collection.
LEMMA CollectKeeps ==
    ASSUME DiffInv, CollectStep
    PROVE  DiffInv'
<1>1. CASE Reverify
  BY <1>1, AwaitKeeps DEF Reverify, Proceed
<1>2. CASE RereadStatus
  BY <1>2, AwaitKeeps DEF RereadStatus, Proceed
<1> QED
  BY <1>1, <1>2, ListingKeeps, ListUntrackedKeeps, InspectKeeps, ShowingKeeps, RelistKeeps,
     FinishKeeps DEF CollectStep

\* What a step of anybody else has to show: it leaves the collection alone, and
\* a path that is still as it was inspected was not written.
LEMMA WritingKeeps ==
    ASSUME DiffInv, scan' = scan, held \subseteq held', DiffTypeOK', stamp <= stamp',
           \A p \in Paths : files'[p].stamp <= stamp',
           \A p \in Paths : Steady(p)' => Steady(p) /\ Now'[p] = Now[p],
           Verifying => Now' \in held'
    PROVE  DiffInv'
<1>0. /\ DiffTypeOK /\ stamp \in Nat /\ stamp' \in Nat
      /\ Missing' = Missing /\ Path' = Path /\ Listed(scan.changes)' = Listed(scan.changes)
  BY DiffAssumption DEF DiffInv, DiffTypeOK, Missing, Path, Listed
<1>1. StampsInOrder'
  <2> SUFFICES ASSUME NEW p \in Paths
               PROVE  scan.state[p] = Unseen \/ scan.state[p] <= stamp'
    BY DEF StampsInOrder, Unseen
  <2>1. scan.state[p] = Unseen \/ scan.state[p] <= stamp
    BY DEF DiffInv, StampsInOrder
  <2>2. scan.state[p] \in Nat
    BY <1>0, DiffTypes
  <2> QED
    BY <1>0, <2>1, <2>2
<1>2. ShownInOrder' /\ DeletedKnown'
  BY <1>0 DEF DiffInv, ShownInOrder, DeletedKnown, AtHand, Unseen
<1>3. ShownSteady'
  BY DEF DiffInv, ShownSteady
<1>4. HeldVerified'
  <2>1. ASSUME scan.at = "reuntracked"
        PROVE  \E w \in held' : Relisting(w)'
    <3>1. PICK w \in held : Relisting(w)
      BY <2>1 DEF DiffInv, HeldVerified
    <3>2. Relisting(w)'
      BY <1>0, <3>1 DEF Relisting
    <3> QED
      BY <3>1, <3>2
  <2> QED
    BY <2>1 DEF HeldVerified, Verifying
<1>5. StableDiff'
  <2>1. \A w, p : Told(w, p)' = Told(w, p)
    BY DEF Told
  <2>2. held' \subseteq [Paths -> Data]
    BY DEF DiffTypeOK
  <2> QED
    BY <1>0, <2>1 DEF DiffInv, StableDiff
<1> QED
  BY <1>1, <1>2, <1>3, <1>4, <1>5 DEF DiffInv

\* A stamp is not given twice: what was written is not as it was inspected.
LEMMA NewStamp ==
    ASSUME DiffInv, NEW p \in Paths, stamp < MaxStamp, scan' = scan,
           StateOf(p)' \in {Unseen, stamp + 1}
    PROVE  ~Steady(p)'
<1>1. stamp \in Nat /\ MaxStamp \in Nat /\ Unseen = MaxStamp + 1 /\ scan.state[p] \in 0..Unseen
  BY DiffTypes DEF DiffInv
<1>2. scan.state[p] = Unseen \/ scan.state[p] <= stamp
  BY DEF DiffInv, StampsInOrder
<1>3. Steady(p)' => scan.state[p] # Unseen /\ StateOf(p)' = scan.state[p]
  BY DEF Steady, Unseen
<1> QED
  BY <1>1, <1>2, <1>3

\* A write of one file.
LEMMA WriteFileKeeps ==
    ASSUME DiffInv, NEW p \in Paths, NEW d \in Data, WriteFile(p, d)
    PROVE  DiffInv' /\ stamp' = stamp + 1 /\ stamp' \in 0..MaxStamp
<1>0. /\ DiffTypeOK /\ stamp \in Nat /\ MaxStamp \in Nat /\ stamp < MaxStamp
      /\ scan' = scan /\ root' = root /\ stamp' = stamp + 1
      /\ files \in [Paths -> File] /\ held \subseteq [Paths -> Data] /\ Now \in [Paths -> Data]
  BY DiffTypes DEF DiffInv, DiffTypeOK, WriteFile
<1> DEFINE new == [data |-> d, stamp |-> stamp + 1]
<1>1. new \in File /\ new.data = d /\ new.stamp = stamp + 1
  BY <1>0 DEF File
<1> HIDE DEF new
<1>2. /\ files' \in [Paths -> File] /\ files'[p] = new
      /\ \A q \in Paths \ {p} : files'[q] = files[q]
  BY <1>0, <1>1 DEF WriteFile, new
<1>3. Now' = [Now EXCEPT ![p] = d]
  <2>1. \A q \in Paths : Now'[q] = [Now EXCEPT ![p] = d][q]
    BY <1>0, <1>1, <1>2 DEF Now
  <2> QED
    BY <1>0, <2>1 DEF Now
<1>4. /\ held' \subseteq [Paths -> Data] /\ held \subseteq held'
      /\ Verifying => Now' \in held'
  BY <1>0, <1>3 DEF WriteFile
<1>5. DiffTypeOK'
  BY <1>0, <1>2, <1>4 DEF DiffTypeOK
<1>6. \A q \in Paths : files'[q].stamp <= stamp'
  <2> SUFFICES ASSUME NEW q \in Paths
               PROVE  files'[q].stamp <= stamp'
    OBVIOUS
  <2>1. files[q].stamp <= stamp /\ files[q].stamp \in 0..MaxStamp
    BY <1>0 DEF DiffInv, StampsInOrder, File
  <2> QED
    BY <1>0, <1>1, <1>2, <2>1
<1>7. ASSUME NEW q \in Paths, Steady(q)'
      PROVE  Steady(q) /\ Now'[q] = Now[q]
  <2>1. StateOf(p)' \in {Unseen, stamp + 1}
    BY <1>1, <1>2 DEF StateOf, Unseen
  <2>2. q # p
    BY <1>0, <1>7, <2>1, NewStamp
  <2>3. files'[q] = files[q]
    BY <1>2, <2>2
  <2> QED
    BY <1>0, <1>7, <2>3 DEF Steady, StateOf, Now, Unseen
<1> QED
  BY <1>0, <1>4, <1>5, <1>6, <1>7, WritingKeeps

\* Another directory in the place of the worktree.
LEMMA ReplaceRootKeeps ==
    ASSUME DiffInv, NEW id \in Identities, ReplaceRoot(id)
    PROVE  DiffInv' /\ Now' = Now /\ stamp' = stamp + 1 /\ stamp' \in 0..MaxStamp
<1>0. /\ DiffTypeOK /\ stamp \in Nat /\ MaxStamp \in Nat /\ stamp < MaxStamp
      /\ scan' = scan /\ held' = held /\ root' = id /\ stamp' = stamp + 1
      /\ files \in [Paths -> File] /\ held \subseteq [Paths -> Data]
  BY DiffTypes DEF DiffInv, DiffTypeOK, ReplaceRoot
<1>1. ASSUME NEW q \in Paths
      PROVE  /\ files'[q].data = files[q].data /\ files'[q].stamp = stamp + 1
             /\ files'[q] \in File
  BY <1>0 DEF ReplaceRoot, File
<1>2. files' \in [Paths -> File]
  BY <1>1 DEF ReplaceRoot
<1>3. Now' = Now
  BY <1>1 DEF Now
<1>4. DiffTypeOK'
  BY <1>0, <1>2 DEF DiffTypeOK
<1>5. \A q \in Paths : ~Steady(q)'
  BY <1>0, <1>1, NewStamp DEF StateOf, Unseen
<1>6. Verifying => Now' \in held'
  BY <1>0, <1>3 DEF DiffInv, HeldVerified
<1>7. stamp <= stamp' /\ \A q \in Paths : files'[q].stamp <= stamp'
  BY <1>0, <1>1
<1> QED
  BY <1>0, <1>3, <1>4, <1>5, <1>6, <1>7, WritingKeeps

\* What git removes while nothing is collected.
LEMMA RemovalKeeps ==
    ASSUME DiffInv, scan.at = "idle", UNCHANGED <<stamp, scan, held>>,
           root' \in {root, Gone}, files' \in [Paths -> File],
           \A p \in Paths : files'[p].stamp \in {files[p].stamp, stamp}
    PROVE  DiffInv'
<1>0. DiffTypeOK /\ stamp \in Nat
  BY DiffTypes DEF DiffInv
<1>1. DiffTypeOK'
  BY <1>0 DEF DiffTypeOK
<1>2. \A p \in Paths : ~Steady(p)'
  BY DEF DiffInv, ShownInOrder, Listing, Steady, Unseen
<1>3. stamp <= stamp' /\ \A p \in Paths : files'[p].stamp <= stamp'
  BY <1>0 DEF DiffInv, StampsInOrder
<1>4. ~Verifying
  BY DEF Verifying, Comparing
<1> QED
  BY <1>1, <1>2, <1>3, <1>4, WritingKeeps

\* A step that touches neither the worktree nor the collection.
LEMMA SameDiff ==
    ASSUME DiffInv, UNCHANGED diffVars
    PROVE  DiffInv'
<1>1. /\ DiffTypeOK /\ Now' = Now /\ Missing' = Missing /\ Path' = Path
      /\ Listed(scan.changes)' = Listed(scan.changes)
      /\ UNCHANGED <<root, files, stamp, scan, held>>
  BY DEF DiffInv, diffVars, Now, Missing, Path, Listed
<1>2. stamp \in Nat
  BY <1>1, DiffTypes
<1>3. DiffTypeOK' /\ held \subseteq held' /\ stamp <= stamp'
  BY <1>1, <1>2 DEF DiffTypeOK
<1>4. \A p \in Paths : Steady(p)' => Steady(p) /\ Now'[p] = Now[p]
  BY <1>1 DEF Steady, StateOf, Unseen
<1>5. \A p \in Paths : files'[p].stamp <= stamp'
  BY <1>1 DEF DiffInv, StampsInOrder
<1>6. Verifying => Now' \in held'
  BY <1>1 DEF DiffInv, HeldVerified
<1> QED
  BY <1>1, <1>3, <1>4, <1>5, <1>6, WritingKeeps

-----------------------------------------------------------------------------
(* The collection: what it promises.                                       *)

\* Nothing is collected at first.
LEMMA DiffStarts ==
    ASSUME DiffInit
    PROVE  DiffInv
<1>1. MaxStamp \in Nat /\ Unseen \in 0..Unseen /\ 0 \in 0..MaxStamp
  BY DiffAssumption DEF Unseen
<1>2. NoScan \in Scan
  BY <1>1 DEF NoScan, Scan, Listing, Entry
<1>3. files \in [Paths -> File] /\ \A p \in Paths : files[p].stamp = 0
  BY <1>1 DEF DiffInit, File
<1>4. /\ scan.at = "idle" /\ scan.changes = {}
      /\ \A p \in Paths : scan.shown[p] = "none" /\ scan.state[p] = Unseen
  BY DEF DiffInit, NoScan
<1>5. DiffTypeOK
  BY <1>1, <1>2, <1>3 DEF DiffInit, DiffTypeOK
<1>6. StampsInOrder /\ ShownInOrder
  BY <1>3, <1>4 DEF DiffInit, StampsInOrder, ShownInOrder, Listing, Showing, Comparing
<1>7. Listed(scan.changes) = {}
  BY <1>4 DEF Listed
<1>8. DeletedKnown /\ ShownSteady /\ HeldVerified /\ StableDiff
  BY <1>4, <1>7 DEF DeletedKnown, ShownSteady, Steady, HeldVerified, Verifying, Comparing, StableDiff
<1> QED
  BY <1>5, <1>6, <1>8 DEF DiffInv

\* A collection that nobody disturbs stays right about the worktree.
LEMMA QuietKept ==
    ASSUME DiffInv, Quiet, CollectStep
    PROVE  Quiet'
<1>0. /\ DiffTypeOK /\ scan \in Scan /\ Now' = Now /\ UNCHANGED files
      /\ Paths \subseteq Nat \ {0} /\ scan.shown \in [Paths -> Entry]
      /\ Data \cap {"none", "summary", "omitted"} = {}
  BY DiffTypes, DiffAssumption
     DEF DiffInv, Now, CollectStep, BeginScan, ReadStatus, ListTracked, ListUntracked, InspectPath,
         ReadFile, Classify, Patch, Summarise, Reverify, RereadStatus, RelistTracked, FinishScan,
         Proceed, Advance
<1>1. CASE BeginScan
  <2>1. scan'.at = "status" /\ \A p \in Paths : scan'.shown[p] = "none"
    BY <1>1 DEF BeginScan, Proceed, NoScan
  <2> QED
    BY <1>0, <2>1 DEF Quiet, Listing
<1>2. CASE ReadStatus
  <2>1. scan'.at = "tracked" /\ scan'.shown = scan.shown
    BY <1>0, <1>2 DEF ReadStatus, Proceed, Scan
  <2> QED
    BY <1>0, <2>1 DEF Quiet, Listing
<1>3. CASE ListTracked
  <2>1. scan'.at = "untracked" /\ scan'.shown = scan.shown /\ scan'.changes = Changed(Tracked)
    BY <1>0, <1>3 DEF ListTracked, Proceed, Scan
  <2>2. \A p \in Tracked \ Listed(scan'.changes) : Now[p] = BaseOf[p]
    BY <1>0, <2>1, ChangedOf DEF Paths
  <2> QED
    BY <1>0, <2>1, <2>2 DEF Quiet, Listing, Listed
<1>4. CASE ListUntracked
  <2> DEFINE changes == scan.changes \cup Changed(Untracked)
  <2>1. /\ scan.at = "untracked" /\ scan'.shown = scan.shown /\ scan'.changes = changes
    BY <1>0, <1>4 DEF ListUntracked, Advance, Onwards, Scan
  <2>2. Listed(changes) = Listed(scan.changes) \cup Listed(Changed(Untracked))
    BY DEF Listed
  <2>3. \A p \in Tracked \ Listed(scan.changes) : Now[p] = BaseOf[p]
    BY <2>1 DEF Quiet
  <2>4. \A p \in Untracked \ Listed(Changed(Untracked)) : Now[p] = BaseOf[p]
    BY <1>0, ChangedOf DEF Paths
  <2>5. \A p \in Paths \ Listed(changes) : Now[p] = BaseOf[p]
    BY <2>2, <2>3, <2>4 DEF Paths
  <2>6. Listed(scan.changes)' = Listed(changes)
    BY <2>1 DEF Listed
  <2> HIDE DEF changes
  <2> QED
    BY <1>0, <2>1, <2>5, <2>6 DEF Quiet, Paths
<1>5. ASSUME scan.at \notin Listing, scan'.changes = scan.changes,
             \A p \in Paths : scan'.shown[p] \in Data => scan'.shown[p] \in {scan.shown[p], Now[p]}
      PROVE  Quiet'
  <2>1. Listed(scan.changes)' = Listed(scan.changes)
    BY <1>5 DEF Listed
  <2> QED
    BY <1>0, <1>5, <2>1 DEF Quiet, Listing
<1>6. ASSUME scan.at \in Showing, NEW STATE s, NEW STATE entry, Advance(Onwards(s, Path)), s \in Scan,
             s.changes = scan.changes, s.shown = [scan.shown EXCEPT ![Path] = entry],
             entry \in {"summary", "omitted", Now[Path]}
      PROVE  Quiet'
  <2>1. scan'.shown = s.shown /\ scan'.changes = scan.changes /\ scan.at \notin Listing
    BY <1>6 DEF Advance, Onwards, Scan, Showing, Listing
  <2>2. \A p \in Paths : s.shown[p] \in Data => s.shown[p] \in {scan.shown[p], Now[p]}
    BY <1>0, <1>6
  <2> QED
    BY <1>5, <2>1, <2>2
<1>7. ASSUME NEW STATE entry, entry \in {"summary", "omitted", Now[Path]}, scan.at \in Showing
      PROVE  /\ entry \in Entry
             /\ Show(entry) \in Scan /\ Show(entry).changes = scan.changes
             /\ Show(entry).shown = [scan.shown EXCEPT ![Path] = entry]
  <2>1. entry \in Entry
    BY <1>0, <1>7, PathIsFirst, DiffTypes DEF DiffInv, Entry
  <2> QED
    BY <1>0, <2>1 DEF Show, Scan
<1>8. CASE InspectPath
  <2>0. scan.at = "stat" /\ scan.at \in Showing /\ scan.at \notin Listing
    BY <1>8 DEF InspectPath, Showing, Listing
  <2>1. Inspected \in [Paths -> 0..Unseen]
    BY <1>0, <2>0, PathIsFirst, DiffTypes DEF DiffInv, Inspected
  <2>2. CASE Has(Path, Large)
    <3> DEFINE s == [Show("summary") EXCEPT !.state = Inspected]
    <3>1. s \in Scan /\ s.changes = scan.changes /\ s.shown = [scan.shown EXCEPT ![Path] = "summary"]
      BY <1>7, <2>0, <2>1 DEF Scan
    <3>2. Advance(Onwards(s, Path))
      BY <1>8, <2>2 DEF InspectPath
    <3> HIDE DEF s
    <3> QED
      BY <1>6, <2>0, <3>1, <3>2
  <2>3. CASE ~Has(Path, Large)
    <3>1. scan'.changes = scan.changes /\ scan'.shown = scan.shown
      BY <1>0, <1>8, <2>3 DEF InspectPath, Proceed, Scan
    <3> QED
      BY <1>5, <2>0, <3>1
  <2> QED
    BY <2>2, <2>3
<1>9. CASE Summarise /\ (ReadFile \/ Classify)
  <2>1. scan.at \in Showing
    BY <1>9 DEF ReadFile, Classify, Showing
  <2> QED
    BY <1>6, <1>7, <1>9, <2>1 DEF Summarise
<1>10. CASE Patch
  <2> DEFINE entry == IF Fits THEN Now[Path] ELSE "omitted"
  <2>1. entry \in {"summary", "omitted", Now[Path]} /\ scan.at \in Showing
        /\ Advance(Onwards(Show(entry), Path))
    BY <1>10 DEF Patch, Showing
  <2> HIDE DEF entry
  <2> QED
    BY <1>6, <1>7, <2>1
<1>11. ASSUME scan.at \notin Listing, NEW place, scan' = [scan EXCEPT !.at = place]
       PROVE  Quiet'
  <2>1. scan'.changes = scan.changes /\ scan'.shown = scan.shown
    BY <1>0, <1>11 DEF Scan
  <2> QED
    BY <1>5, <1>11, <2>1
<1>12. CASE (ReadFile \/ Classify) /\ ~Summarise
  <2>1. PICK place \in {"numstat", "patch"} : scan' = [scan EXCEPT !.at = place]
    BY <1>12 DEF ReadFile, Classify, Proceed
  <2>2. scan.at \notin Listing
    BY <1>12 DEF ReadFile, Classify, Listing
  <2> QED
    BY <1>11, <2>1, <2>2
<1>13. CASE Reverify \/ RereadStatus \/ RelistTracked \/ FinishScan
  BY <1>11, <1>13 DEF Reverify, RereadStatus, RelistTracked, FinishScan, Proceed, Listing
<1> QED
  BY <1>1, <1>2, <1>3, <1>4, <1>8, <1>9, <1>10, <1>12, <1>13 DEF CollectStep

\* A quiet collection that shows the frozen diff was of the rejected files.
LEMMA LiveIsRejected ==
    ASSUME DiffInv, Quiet, Live
    PROVE  Now = Rejected
<1>0. /\ Now \in [Paths -> Data] /\ scan.at = "done" /\ Missing = {}
      /\ Rejected \in [Paths -> Texts \cup {Absent}] /\ Data \cap {"none", "summary", "omitted"} = {}
  BY DiffTypes, DiffAssumption, RetainedAssumption DEF DiffInv, Live, ShownInOrder
<1>1. ASSUME NEW p \in Paths
      PROVE  Now[p] = Rejected[p]
  <2>1. Rejected[p] \in Data
    BY <1>0 DEF Data
  <2>2. CASE Rejected[p] = BaseOf[p]
    <3>1. scan.shown[p] = "none"
      BY <2>2 DEF Live
    <3>2. p \notin Listed(scan.changes)
      BY <1>0, <3>1 DEF Missing
    <3> QED
      BY <1>0, <2>2, <3>2 DEF Quiet, Listing
  <2>3. CASE Rejected[p] # BaseOf[p]
    <3>1. scan.shown[p] = Rejected[p]
      BY <2>3 DEF Live
    <3> QED
      BY <2>1, <3>1 DEF Quiet
  <2> QED
    BY <2>2, <2>3
<1> QED
  BY <1>0, <1>1

-----------------------------------------------------------------------------
(* The disposal: what every step may assume.                               *)

\* A request that moves changes its own record only.
LEMMA BecomesOnly ==
    ASSUME TypeOK, NEW h \in Requests, NEW r \in Request, Becomes(h, r)
    PROVE  /\ request' \in [Requests -> Request]
           /\ request'[h] = r
           /\ \A g \in Requests : g # h => request'[g] = request[g]
BY DEF TypeOK, Becomes

\* A request that goes on keeps what it has seen.
LEMMA MovesOnly ==
    ASSUME TypeOK, NEW h \in Requests, NEW at \in {"idle"} \cup Ahead \cup Begun, MovesTo(h, at)
    PROVE  /\ request' \in [Requests -> Request]
           /\ request'[h].at = at /\ request'[h].seen = request[h].seen
           /\ \A g \in Requests : g # h => request'[g] = request[g]
<1> DEFINE r == [request[h] EXCEPT !.at = at]
<1>1. request[h] \in Request
  BY DEF TypeOK
<1>2. r \in Request /\ r.at = at /\ r.seen = request[h].seen
  BY <1>1 DEF Request
<1> HIDE DEF r
<1> QED
  BY <1>2, BecomesOnly DEF MovesTo, r

\* A request that is answered is idle again.
LEMMA AnswerOnly ==
    ASSUME TypeOK, NEW h \in Requests, Answer(h)
    PROVE  /\ request' \in [Requests -> Request]
           /\ request'[h].at = "idle"
           /\ \A g \in Requests : g # h => request'[g] = request[g]
<1>1. MaxStamp \in Nat
  BY DiffAssumption
<1>2. Idle \in Request /\ Idle.at = "idle"
  BY <1>1 DEF Idle, Request
<1> QED
  BY <1>2, BecomesOnly DEF Answer

\* While one request holds the project's lock the others are idle, and no git
\* of a dead backend is left.
LEMMA HolderAlone ==
    ASSUME RetainedInv, NEW h \in Requests, Holding(h)
    PROVE  /\ \A g \in Requests : g # h => request[g].at = "idle"
           /\ ~orphan
           /\ request[h].at \notin {"live", "relive"} => scan.at = "idle"
BY DEF RetainedInv, OneAtATime, IntentFirst, Holding

\* What a step of the one request that holds the lock has to show, when it
\* leaves the worktree alone.
LEMMA HolderKeeps ==
    ASSUME RetainedInv, NEW h \in Requests, \A g \in Requests : g # h => request[g].at = "idle",
           request' \in [Requests -> Request],
           \A g \in Requests : g # h => request'[g] = request[g],
           UNCHANGED <<root, files, stamp, ignored, clock, destroyed, disturbed>>,
           started' \in BOOLEAN, completed' \in BOOLEAN, orphan' \in BOOLEAN, removals' \in Nat,
           DiffInv',
           scan'.at # "idle" => request'[h].at \in {"live", "relive"},
           removals' <= 1,
           ~started' => removals' = 0,
           request'[h].at \in Ahead => ~started',
           request'[h].at \in Begun => started',
           request'[h].at \in {"inventory", "snapshot", "relive", "remove"} => removals' = 0,
           orphan' => started' /\ request'[h].at = "idle",
           request'[h].at = "snapshot" /\ ~disturbed => ~ignored,
           request'[h].at \in {"relive", "remove"} => request'[h].seen <= stamp,
           request'[h].at \in {"relive", "remove"} /\ request'[h].seen = stamp =>
               /\ ~disturbed => ~ignored
               /\ request'[h].at = "relive" => Quiet'
               /\ request'[h].at = "remove" => Now = Rejected,
           (orphan' \/ request'[h].at = "removing") /\ ~disturbed =>
               root = Original /\ Now = Rejected /\ ~ignored
    PROVE  RetainedInv'
<1>0. /\ \A g \in Requests : g # h => request'[g].at = "idle"
      /\ Now' = Now
  BY DEF Now
<1>1. TypeOK'
  BY DEF RetainedInv, TypeOK, DiffInv
<1>2. OneAtATime'
  BY <1>0 DEF OneAtATime, Holding
<1>3. IntentFirst'
  BY <1>0 DEF IntentFirst, Holding, Ahead, Begun
<1>4. SeenHolds'
  BY <1>0 DEF SeenHolds
<1>5. RemovesReviewed'
  BY <1>0 DEF RemovesReviewed, Removing
<1>6. DestroyedWasReviewed'
  BY DEF RetainedInv, DestroyedWasReviewed
<1> QED
  BY <1>1, <1>2, <1>3, <1>4, <1>5, <1>6 DEF RetainedInv

-----------------------------------------------------------------------------
(* The disposal: the steps of a request.                                   *)

\* What the steps share that come before git.
LEMMA LookingKeeps ==
    ASSUME RetainedInv, NEW h \in Requests,
           \A g \in Requests : g # h => request[g].at = "idle", ~orphan,
           request' \in [Requests -> Request],
           \A g \in Requests : g # h => request'[g] = request[g],
           UNCHANGED <<root, files, stamp, ignored, clock, completed, orphan, removals, destroyed, disturbed>>,
           started' \in BOOLEAN, started => started',
           DiffInv',
           scan'.at # "idle" => request'[h].at \in {"live", "relive"},
           request'[h].at \in Ahead => ~started',
           request'[h].at \in Begun => started',
           request'[h].at \in {"inventory", "snapshot", "relive", "remove"} => removals = 0,
           request'[h].at # "removing",
           request'[h].at = "snapshot" /\ ~disturbed => ~ignored,
           request'[h].at \in {"relive", "remove"} => request'[h].seen <= stamp,
           request'[h].at \in {"relive", "remove"} /\ request'[h].seen = stamp =>
               /\ ~disturbed => ~ignored
               /\ request'[h].at = "relive" => Quiet'
               /\ request'[h].at = "remove" => Now = Rejected
    PROVE  RetainedInv'
<1>1. removals \in Nat /\ completed \in BOOLEAN /\ orphan \in BOOLEAN
  BY DEF RetainedInv, TypeOK
<1>2. removals <= 1 /\ (~started => removals = 0)
  BY DEF RetainedInv, IntentFirst
<1> QED
  BY <1>1, <1>2, HolderKeeps

\* The way to the intent.
LEMMA BeforeIntentKeeps ==
    ASSUME RetainedInv, NEW h \in Requests,
           BeginCleanup(h) \/ Inspect(h) \/ CheckLive(h) \/ RecordIntent(h)
    PROVE  RetainedInv'
<1>0. /\ TypeOK /\ DiffInv /\ OneAtATime /\ IntentFirst /\ request[h] \in Request
      /\ started \in BOOLEAN
  BY DEF RetainedInv, TypeOK
<1>1. CASE BeginCleanup(h)
  <2>1. /\ \A g \in Requests : request[g].at = "idle"
        /\ ~started /\ ~orphan /\ scan.at = "idle"
    BY <1>0, <1>1 DEF BeginCleanup, Holding, Disposable, IntentFirst, OneAtATime
  <2>2. /\ request' \in [Requests -> Request] /\ request'[h].at = "inspect"
        /\ \A g \in Requests : g # h => request'[g] = request[g]
    BY <1>0, <1>1, MovesOnly DEF BeginCleanup, Ahead
  <2>3. UNCHANGED <<diffVars, ignored, cleanupVars>> /\ DiffInv'
    <3>1. UNCHANGED <<diffVars, ignored, cleanupVars>>
      BY <1>1 DEF BeginCleanup
    <3> QED
      BY <1>0, <3>1, SameDiff
  <2> QED
    BY <1>0, <2>1, <2>2, <2>3, LookingKeeps DEF diffVars, cleanupVars, Ahead, Begun
<1>2. ASSUME request[h].at \in Ahead
      PROVE  /\ \A g \in Requests : g # h => request[g].at = "idle"
             /\ ~started /\ ~orphan /\ removals = 0
             /\ request[h].at # "live" => scan.at = "idle"
  <2>1. Holding(h) /\ request[h].at # "relive"
    BY <1>2 DEF Holding, Ahead
  <2> QED
    BY <1>0, <1>2, <2>1, HolderAlone DEF IntentFirst
<1>3. CASE Inspect(h)
  <2>1. /\ request' \in [Requests -> Request] /\ request'[h].at = "live"
        /\ \A g \in Requests : g # h => request'[g] = request[g]
    BY <1>0, <1>3, MovesOnly DEF Inspect, Ahead
  <2>2. UNCHANGED <<diffVars, ignored, cleanupVars>> /\ DiffInv' /\ request[h].at \in Ahead
    <3>1. UNCHANGED <<diffVars, ignored, cleanupVars>> /\ request[h].at \in Ahead
      BY <1>3 DEF Inspect, Ahead
    <3> QED
      BY <1>0, <3>1, SameDiff
  <2> QED
    BY <1>0, <1>2, <2>1, <2>2, LookingKeeps DEF diffVars, cleanupVars, Ahead, Begun
<1>4. CASE CheckLive(h)
  <2>1. /\ request' \in [Requests -> Request] /\ request'[h].at = "intent"
        /\ \A g \in Requests : g # h => request'[g] = request[g]
    BY <1>0, <1>4, MovesOnly DEF CheckLive, Ahead
  <2>2. /\ UNCHANGED <<root, files, stamp, ignored, cleanupVars>>
        /\ scan' = NoScan /\ held' = {} /\ request[h].at \in Ahead
    BY <1>4 DEF CheckLive, EndScan, Ahead
  <2>3. DiffInv' /\ scan'.at = "idle"
    BY <1>0, <2>2, NoScanKeeps DEF NoScan
  <2> QED
    BY <1>0, <1>2, <2>1, <2>2, <2>3, LookingKeeps DEF cleanupVars, Ahead, Begun
<1>5. CASE RecordIntent(h)
  <2>1. /\ request' \in [Requests -> Request] /\ request'[h].at = "inventory"
        /\ \A g \in Requests : g # h => request'[g] = request[g]
    BY <1>0, <1>5, MovesOnly DEF RecordIntent, Begun
  <2>2. /\ UNCHANGED <<diffVars, ignored, clock, completed, orphan, removals, destroyed, disturbed>>
        /\ started' = TRUE /\ request[h].at = "intent" /\ request[h].at \in Ahead /\ DiffInv'
    <3>1. /\ UNCHANGED <<diffVars, ignored, clock, completed, orphan, removals, destroyed, disturbed>>
          /\ started' = TRUE /\ request[h].at = "intent" /\ request[h].at \in Ahead
      BY <1>5 DEF RecordIntent, Ahead
    <3> QED
      BY <1>0, <3>1, SameDiff
  <2> QED
    BY <1>0, <1>2, <2>1, <2>2, LookingKeeps DEF diffVars, Ahead, Begun
<1> QED
  BY <1>1, <1>3, <1>4, <1>5

\* The two collections, before the intent and after it.
LEMMA CollectingKeeps ==
    ASSUME RetainedInv, NEW h \in Requests, Collect(h)
    PROVE  RetainedInv'
<1>0. /\ DiffInv /\ IntentFirst /\ SeenHolds /\ CollectStep
      /\ request[h].at \in {"live", "relive"} /\ request' = request
      /\ UNCHANGED <<ignored, cleanupVars>>
      /\ request \in [Requests -> Request] /\ started \in BOOLEAN
  BY DEF RetainedInv, TypeOK, Collect
<1>1. \A g \in Requests : g # h => request[g].at = "idle"
  BY <1>0, HolderAlone DEF Holding
<1>2. ~orphan
  BY <1>0, HolderAlone DEF Holding
<1>3. DiffInv' /\ UNCHANGED <<root, files, stamp>>
  BY <1>0, CollectKeeps
     DEF CollectStep, BeginScan, ReadStatus, ListTracked, ListUntracked, InspectPath, ReadFile,
         Classify, Patch, Summarise, Reverify, RereadStatus, RelistTracked, FinishScan, Proceed,
         Advance
<1>4. Quiet => Quiet'
  BY <1>0, QuietKept
<1> QED
  BY <1>0, <1>1, <1>2, <1>3, <1>4, LookingKeeps DEF cleanupVars, IntentFirst, SeenHolds

\* With the intent recorded: the last looks at the worktree.
LEMMA LookingAgainKeeps ==
    ASSUME RetainedInv, NEW h \in Requests, Inventory(h) \/ Snapshot(h) \/ CheckAgain(h)
    PROVE  RetainedInv'
<1>0. /\ TypeOK /\ DiffInv /\ IntentFirst /\ SeenHolds /\ request[h] \in Request
      /\ request[h].at \in {"inventory", "snapshot", "relive"}
      /\ started \in BOOLEAN /\ stamp \in 0..MaxStamp /\ stamp \in Nat
  BY DiffTypes DEF RetainedInv, TypeOK, DiffInv, Inventory, Snapshot, CheckAgain
<1>1. /\ \A g \in Requests : g # h => request[g].at = "idle"
      /\ ~orphan /\ started /\ removals = 0
      /\ request[h].at # "relive" => scan.at = "idle"
  <2>1. Holding(h) /\ request[h].at \in Begun /\ request[h].at # "live"
    BY <1>0 DEF Holding, Begun
  <2> QED
    BY <1>0, <2>1, HolderAlone DEF IntentFirst
<1>2. CASE Inventory(h)
  <2>1. /\ request' \in [Requests -> Request] /\ request'[h].at = "snapshot"
        /\ \A g \in Requests : g # h => request'[g] = request[g]
    BY <1>0, <1>2, MovesOnly DEF Inventory, Begun
  <2>2. /\ UNCHANGED <<diffVars, ignored, cleanupVars>> /\ request[h].at = "inventory" /\ ~ignored
    BY <1>2 DEF Inventory
  <2>3. DiffInv'
    BY <1>0, <2>2, SameDiff
  <2> QED
    BY <1>0, <1>1, <2>1, <2>2, <2>3, LookingKeeps DEF diffVars, cleanupVars, Ahead, Begun
<1>3. CASE Snapshot(h)
  <2> DEFINE r == [at |-> "relive", seen |-> stamp]
  <2>1. r \in Request /\ r.at = "relive" /\ r.seen = stamp
    BY <1>0 DEF Request, Begun
  <2> HIDE DEF r
  <2>2. /\ request' \in [Requests -> Request] /\ request'[h] = r
        /\ \A g \in Requests : g # h => request'[g] = request[g]
    BY <1>0, <1>3, <2>1, BecomesOnly DEF Snapshot, r
  <2>3. /\ UNCHANGED <<diffVars, ignored, cleanupVars>> /\ request[h].at = "snapshot"
    BY <1>3 DEF Snapshot
  <2>4. DiffInv' /\ scan' = scan /\ Now' = Now
    BY <1>0, <2>3, SameDiff DEF diffVars, Now
  <2>5. ~disturbed => ~ignored
    BY <1>0, <2>3 DEF SeenHolds
  <2>6. Quiet'
    <3>1. scan.at = "idle" /\ \A p \in Paths : scan.shown[p] \notin Data
      BY <1>0, <1>1, <2>3, DiffAssumption DEF DiffInv, ShownInOrder, Listing
    <3> QED
      BY <2>4, <3>1 DEF Quiet, Listing
  <2>7. stamp <= stamp
    BY <1>0
  <2> QED
    BY <1>0, <1>1, <2>1, <2>2, <2>3, <2>4, <2>5, <2>6, <2>7, LookingKeeps
       DEF diffVars, cleanupVars, Ahead, Begun
<1>4. CASE CheckAgain(h)
  <2>1. /\ request' \in [Requests -> Request] /\ request'[h].at = "remove"
        /\ request'[h].seen = request[h].seen
        /\ \A g \in Requests : g # h => request'[g] = request[g]
    BY <1>0, <1>4, MovesOnly DEF CheckAgain, Begun
  <2>2. /\ UNCHANGED <<root, files, stamp, ignored, cleanupVars>>
        /\ scan' = NoScan /\ held' = {} /\ request[h].at = "relive" /\ Live
    BY <1>4 DEF CheckAgain, EndScan
  <2>3. DiffInv' /\ scan'.at = "idle"
    BY <1>0, <2>2, NoScanKeeps DEF NoScan
  <2>4. request[h].seen <= stamp
    BY <1>0, <2>2 DEF SeenHolds
  <2>5. request[h].seen = stamp => Now = Rejected /\ (~disturbed => ~ignored)
    BY <1>0, <2>2, LiveIsRejected DEF SeenHolds
  <2> QED
    BY <1>0, <1>1, <2>1, <2>2, <2>3, <2>4, <2>5, LookingKeeps DEF cleanupVars, Ahead, Begun
<1> QED
  BY <1>2, <1>3, <1>4

\* The worktree is handed to git once.
LEMMA StartRemovalKeeps ==
    ASSUME RetainedInv, NEW h \in Requests, StartRemoval(h)
    PROVE  RetainedInv'
<1>0. /\ TypeOK /\ DiffInv /\ IntentFirst /\ SeenHolds /\ request[h].at = "remove"
      /\ LastLook(h) /\ removals' = removals + 1
      /\ UNCHANGED <<diffVars, ignored, clock, started, completed, orphan, destroyed, disturbed>>
      /\ started \in BOOLEAN /\ completed \in BOOLEAN /\ orphan \in BOOLEAN
  BY DEF RetainedInv, TypeOK, StartRemoval
<1>1. /\ \A g \in Requests : g # h => request[g].at = "idle"
      /\ ~orphan /\ started /\ removals = 0 /\ scan.at = "idle"
  <2>1. Holding(h) /\ request[h].at \in Begun
    BY <1>0 DEF Holding, Begun
  <2> QED
    BY <1>0, <2>1, HolderAlone DEF IntentFirst
<1>2. /\ request' \in [Requests -> Request] /\ request'[h].at = "removing"
      /\ \A g \in Requests : g # h => request'[g] = request[g]
  BY <1>0, MovesOnly DEF StartRemoval, Begun
<1>3. DiffInv'
  BY <1>0, SameDiff
<1>4. ~disturbed => root = Original /\ Now = Rejected /\ ~ignored
  BY <1>0 DEF LastLook, SameTree, SeenHolds
<1>5. removals' \in Nat /\ removals' <= 1 /\ started'
  BY <1>0, <1>1
<1> QED
  BY <1>0, <1>1, <1>2, <1>3, <1>4, <1>5, HolderKeeps DEF diffVars, Ahead, Begun

\* The way from git's answer to the completion.
LEMMA AfterRemovalKeeps ==
    ASSUME RetainedInv, NEW h \in Requests, Confirm(h) \/ Complete(h)
    PROVE  RetainedInv'
<1>0. /\ TypeOK /\ DiffInv /\ IntentFirst /\ request[h].at \in {"confirm", "complete"}
      /\ UNCHANGED <<diffVars, ignored, clock, started, orphan, removals, destroyed, disturbed>>
      /\ started \in BOOLEAN /\ orphan \in BOOLEAN /\ removals \in Nat /\ removals <= 1
  BY DEF RetainedInv, TypeOK, IntentFirst, Confirm, Complete, cleanupVars
<1>1. /\ \A g \in Requests : g # h => request[g].at = "idle"
      /\ ~orphan /\ started /\ scan.at = "idle"
  <2>1. Holding(h) /\ request[h].at \in Begun
    BY <1>0 DEF Holding, Begun
  <2> QED
    BY <1>0, <2>1, HolderAlone DEF IntentFirst
<1>2. DiffInv'
  BY <1>0, SameDiff
<1>3. /\ request' \in [Requests -> Request] /\ request'[h].at \in {"complete", "idle"}
      /\ \A g \in Requests : g # h => request'[g] = request[g]
  <2>1. CASE Confirm(h)
    BY <1>0, <2>1, MovesOnly DEF Confirm, Begun
  <2>2. CASE Complete(h)
    BY <1>0, <2>2, AnswerOnly DEF Complete
  <2> QED
    BY <2>1, <2>2
<1>4. completed' \in BOOLEAN
  BY DEF RetainedInv, TypeOK, Confirm, Complete, cleanupVars
<1> QED
  BY <1>0, <1>1, <1>2, <1>3, <1>4, HolderKeeps DEF diffVars, Ahead, Begun

\* A request that is refused or dies.
LEMMA EndingKeeps ==
    ASSUME RetainedInv, NEW h \in Requests, Refuse(h) \/ Die(h)
    PROVE  RetainedInv'
<1>0. /\ TypeOK /\ DiffInv /\ IntentFirst /\ RemovesReviewed /\ Holding(h)
      /\ UNCHANGED <<root, files, stamp, ignored, clock, started, completed, removals, destroyed,
                     disturbed>>
      /\ scan' = NoScan /\ held' = {} /\ Answer(h)
      /\ started \in BOOLEAN /\ completed \in BOOLEAN /\ orphan \in BOOLEAN
      /\ removals \in Nat /\ removals <= 1 /\ (~started => removals = 0)
  BY DEF RetainedInv, TypeOK, IntentFirst, Refuse, Die, EndScan, Holding, cleanupVars
<1>1. (\A g \in Requests : g # h => request[g].at = "idle") /\ ~orphan
  BY <1>0, HolderAlone
<1>2. DiffInv' /\ scan'.at = "idle"
  BY <1>0, NoScanKeeps DEF NoScan
<1>3. /\ request' \in [Requests -> Request] /\ request'[h].at = "idle"
      /\ \A g \in Requests : g # h => request'[g] = request[g]
  BY <1>0, AnswerOnly
<1>4. /\ orphan' \in BOOLEAN
      /\ orphan' => request[h].at = "removing"
  <2>1. CASE Refuse(h)
    BY <1>0, <1>1, <2>1 DEF Refuse, cleanupVars
  <2>2. CASE Die(h)
    <3>1. orphan' = (orphan \/ request[h].at = "removing")
      BY <2>2 DEF Die
    <3> QED
      BY <1>1, <3>1
  <2> QED
    BY <2>1, <2>2
<1>5. orphan' => started'
  BY <1>0, <1>4 DEF IntentFirst, Begun
<1>6. orphan' /\ ~disturbed => root = Original /\ Now = Rejected /\ ~ignored
  BY <1>0, <1>4 DEF RemovesReviewed, Removing
<1> QED
  BY <1>0, <1>1, <1>2, <1>3, <1>4, <1>5, <1>6, HolderKeeps DEF Ahead, Begun

-----------------------------------------------------------------------------
(* The disposal: what git does to the worktree.                            *)

\* Whatever git leaves of the worktree: nobody is collecting, and what it took
\* was reviewed.
LEMMA RemovalTakes ==
    ASSUME RetainedInv, Removing, UNCHANGED <<stamp, scan, held, ignored, disturbed>>,
           Removes \/ RemovesPartly \/ UNCHANGED <<root, files, destroyed>>
    PROVE  /\ DiffInv' /\ scan'.at = "idle" /\ DestroyedWasReviewed'
           /\ destroyed' \in Tree \cup {Gone}
<1>0. /\ DiffInv /\ DiffTypeOK /\ RemovesReviewed /\ DestroyedWasReviewed
      /\ ignored \in BOOLEAN /\ destroyed \in Tree \cup {Gone}
      /\ root \in Identities \cup {Gone} /\ files \in [Paths -> File] /\ stamp \in 0..MaxStamp
      /\ Now \in [Paths -> Data]
  BY DiffTypes DEF RetainedInv, TypeOK, DiffTypeOK, DiffInv
<1>1. scan.at = "idle"
  <2>1. CASE orphan
    BY <2>1 DEF RetainedInv, IntentFirst, OneAtATime, Holding
  <2>2. CASE \E h \in Requests : request[h].at = "removing"
    BY <2>2, HolderAlone DEF Holding
  <2> QED
    BY <2>1, <2>2 DEF Removing
<1> DEFINE gone == [data |-> Absent, stamp |-> stamp]
<1>2. gone \in File /\ gone.stamp = stamp
  BY <1>0 DEF File, Data
<1> HIDE DEF gone
<1>3. /\ root' \in {root, Gone} /\ files' \in [Paths -> File]
      /\ \A p \in Paths : files'[p].stamp \in {files[p].stamp, stamp}
  <2>1. CASE Removes \/ UNCHANGED <<root, files, destroyed>>
    BY <1>0, <2>1 DEF Removes
  <2>2. CASE RemovesPartly
    <3>1. root' = root /\ \E p \in Paths : files' = [files EXCEPT ![p] = gone]
      BY <2>2 DEF RemovesPartly, gone
    <3> QED
      BY <1>0, <1>2, <3>1
  <2> QED
    BY <2>1, <2>2
<1>4. DiffInv'
  BY <1>0, <1>1, <1>3, RemovalKeeps
<1> DEFINE taken == [id |-> root, data |-> Now, ignored |-> ignored]
<1>5. taken.id = root /\ taken.data = Now /\ taken.ignored = ignored
  OBVIOUS
<1>6. root # Gone => taken \in Tree
  BY <1>0 DEF Tree
<1> HIDE DEF taken
<1>7. destroyed' = destroyed \/ (root # Gone /\ destroyed' = taken)
  BY DEF Removes, RemovesPartly, taken
<1>8. DestroyedWasReviewed'
  <2>1. CASE destroyed' = destroyed
    BY <1>0, <2>1 DEF DestroyedWasReviewed
  <2>2. CASE destroyed' = taken
    BY <1>0, <1>5, <2>2 DEF DestroyedWasReviewed, RemovesReviewed
  <2> QED
    BY <1>7, <2>1, <2>2
<1> QED
  BY <1>0, <1>1, <1>4, <1>6, <1>7, <1>8

\* With no git running and no request beyond its answer, nothing else is left
\* to show.
LEMMA RemovedKeeps ==
    ASSUME RetainedInv, Removing, UNCHANGED <<stamp, scan, held, ignored, disturbed>>,
           Removes \/ RemovesPartly \/ UNCHANGED <<root, files, destroyed>>,
           UNCHANGED <<clock, started, completed, removals>>,
           request' \in [Requests -> Request], orphan' = FALSE,
           \A g, other \in Requests : Holding(g)' /\ Holding(other)' => g = other,
           \A g \in Requests : request'[g].at \in {"idle", "confirm"}
    PROVE  RetainedInv'
<1>0. /\ DiffInv' /\ scan'.at = "idle" /\ DestroyedWasReviewed' /\ destroyed' \in Tree \cup {Gone}
      /\ started /\ TypeOK
  <2>1. started
    BY DEF RetainedInv, IntentFirst, Removing, Begun
  <2> QED
    BY <2>1, RemovalTakes DEF RetainedInv
<1>1. TypeOK'
  <2>1. UNCHANGED <<ignored, clock, started, completed, removals, disturbed>>
    OBVIOUS
  <2> QED
    BY <1>0, <2>1 DEF TypeOK, DiffInv
<1>2. OneAtATime'
  BY <1>0 DEF OneAtATime
<1>3. IntentFirst'
  BY <1>0 DEF RetainedInv, IntentFirst, Ahead, Begun
<1>4. SeenHolds'
  BY DEF SeenHolds
<1>5. RemovesReviewed'
  BY DEF RemovesReviewed, Removing
<1> QED
  BY <1>0, <1>1, <1>2, <1>3, <1>4, <1>5 DEF RetainedInv

\* The end of git worktree remove, for the request that waits for it.
LEMMA RemovalEndsKeeps ==
    ASSUME RetainedInv, NEW h \in Requests, RemovalSucceeds(h) \/ RemovalFails(h)
    PROVE  RetainedInv'
<1>0. /\ TypeOK /\ request[h].at = "removing"
      /\ Removes \/ RemovesPartly \/ UNCHANGED <<root, files, destroyed>>
      /\ UNCHANGED <<stamp, scan, held, ignored, clock, started, completed, orphan, removals, disturbed>>
  BY DEF RetainedInv, RemovalSucceeds, RemovalFails
<1>1. (\A g \in Requests : g # h => request[g].at = "idle") /\ orphan = FALSE
  BY <1>0, HolderAlone DEF Holding, TypeOK
<1>2. /\ request' \in [Requests -> Request] /\ request'[h].at \in {"confirm", "idle"}
      /\ \A g \in Requests : g # h => request'[g] = request[g]
  BY <1>0, MovesOnly, AnswerOnly DEF RemovalSucceeds, RemovalFails, Begun
<1>3. /\ \A g \in Requests : request'[g].at \in {"idle", "confirm"}
      /\ \A g, other \in Requests : Holding(g)' /\ Holding(other)' => g = other
  BY <1>1, <1>2 DEF Holding
<1>4. Removing
  BY <1>0 DEF Removing
<1> QED
  BY <1>0, <1>1, <1>2, <1>3, <1>4, RemovedKeeps

\* The end of a git that outlived its backend.
LEMMA OrphanEndsKeeps ==
    ASSUME RetainedInv, OrphanEnds
    PROVE  RetainedInv'
<1>1. /\ \A g \in Requests : ~Holding(g)
      /\ request' = request /\ request' \in [Requests -> Request]
  BY DEF RetainedInv, TypeOK, IntentFirst, OrphanEnds
<1>2. /\ \A g \in Requests : request'[g].at \in {"idle", "confirm"}
      /\ \A g, other \in Requests : Holding(g)' /\ Holding(other)' => g = other
  BY <1>1 DEF Holding
<1> QED
  BY <1>1, <1>2, RemovedKeeps DEF OrphanEnds, Removing

-----------------------------------------------------------------------------
(* The disposal: the environment.                                          *)

\* A write: requests that compare the stamp will see it, and the two moments
\* at which nobody does are on record.
LEMMA WriteKeeps ==
    ASSUME RetainedInv, Write
    PROVE  RetainedInv'
<1>0. /\ TypeOK /\ DiffInv /\ DiffTypeOK /\ scan' = scan /\ Disturbs
      /\ UNCHANGED <<request, clock, started, completed, orphan, removals, destroyed>>
      /\ ignored \in BOOLEAN
  BY DEF RetainedInv, DiffInv, TypeOK, Write, WriteFile, ReplaceRoot, WriteIgnored
<1>1. DiffInv' /\ stamp' = stamp + 1 /\ stamp \in Nat /\ ignored' \in BOOLEAN
  <2>0. stamp \in Nat /\ MaxStamp \in Nat
    BY <1>0, DiffTypes
  <2>1. CASE \E p \in Paths, d \in Data : WriteFile(p, d) /\ UNCHANGED ignored
    BY <1>0, <2>0, <2>1, WriteFileKeeps
  <2>2. CASE \E id \in Identities : ReplaceRoot(id) /\ UNCHANGED ignored
    BY <1>0, <2>0, <2>2, ReplaceRootKeeps
  <2>3. CASE WriteIgnored
    <3>1. /\ stamp < MaxStamp /\ stamp' = stamp + 1 /\ UNCHANGED <<root, files, scan, held>>
          /\ ignored' = ~ignored
      BY <2>3 DEF WriteIgnored
    <3>2. Now' = Now /\ stamp' \in 0..MaxStamp /\ stamp <= stamp'
      BY <2>0, <3>1 DEF Now
    <3>3. DiffTypeOK'
      BY <1>0, <3>1, <3>2 DEF DiffTypeOK
    <3>4. \A p \in Paths : files'[p].stamp <= stamp'
      <4> SUFFICES ASSUME NEW p \in Paths
                   PROVE  files[p].stamp <= stamp'
        BY <3>1
      <4>1. files[p].stamp <= stamp /\ files[p].stamp \in Nat
        BY <1>0 DEF DiffInv, StampsInOrder, DiffTypeOK, File
      <4> QED
        BY <2>0, <3>1, <4>1
    <3>5. \A p \in Paths : Steady(p)' => Steady(p) /\ Now'[p] = Now[p]
      BY <3>1, <3>2 DEF Steady, StateOf, Unseen
    <3>6. Verifying => Now' \in held'
      BY <1>0, <3>1, <3>2 DEF DiffInv, HeldVerified
    <3>7. DiffInv'
      BY <1>0, <3>1, <3>2, <3>3, <3>4, <3>5, <3>6, WritingKeeps
    <3> QED
      BY <1>0, <2>0, <3>1, <3>7
  <2> QED
    BY <2>1, <2>2, <2>3 DEF Write
<1>2. /\ disturbed' \in BOOLEAN
      /\ ~disturbed' => /\ ~disturbed /\ ~orphan
                        /\ \A h \in Requests : request[h].at \notin {"snapshot", "removing"}
  BY <1>0 DEF Disturbs, TypeOK
<1>3. TypeOK'
  BY <1>0, <1>1, <1>2 DEF TypeOK, DiffInv
<1>4. OneAtATime'
  BY <1>0 DEF RetainedInv, OneAtATime, Holding
<1>5. IntentFirst'
  BY <1>0 DEF RetainedInv, IntentFirst, Holding
<1>6. SeenHolds'
  <2>1. ASSUME NEW h \in Requests, request[h].at \in {"relive", "remove"}
        PROVE  request[h].seen <= stamp' /\ request[h].seen # stamp'
    <3>1. request[h].seen <= stamp /\ request[h].seen \in Nat
      BY <1>0, <2>1 DEF RetainedInv, SeenHolds, TypeOK, Request
    <3> QED
      BY <1>1, <3>1
  <2> QED
    BY <1>0, <1>2, <2>1 DEF SeenHolds
<1>7. RemovesReviewed'
  BY <1>0, <1>2 DEF RemovesReviewed, Removing
<1>8. DestroyedWasReviewed'
  BY <1>0, <1>2 DEF RetainedInv, DestroyedWasReviewed
<1> QED
  BY <1>1, <1>3, <1>4, <1>5, <1>6, <1>7, <1>8 DEF RetainedInv

\* Time passes, or nothing happens.
LEMMA ClockKeeps ==
    ASSUME RetainedInv, (\E t \in 0..MaxClock : SetClock(t)) \/ UNCHANGED vars
    PROVE  RetainedInv'
<1>0. /\ TypeOK /\ DiffInv /\ clock' \in 0..MaxClock
      /\ UNCHANGED <<diffVars, ignored, request, started, completed, orphan, removals, destroyed,
                     disturbed>>
  BY DEF RetainedInv, TypeOK, SetClock, vars, cleanupVars
<1>1. DiffInv' /\ Now' = Now /\ scan' = scan /\ stamp' = stamp /\ root' = root
  BY <1>0, SameDiff DEF Now, diffVars
<1>2. TypeOK'
  BY <1>0, <1>1 DEF TypeOK, DiffInv
<1>3. Quiet' = Quiet
  BY <1>1 DEF Quiet, Listed
<1>4. OneAtATime' /\ IntentFirst'
  BY <1>0, <1>1 DEF RetainedInv, OneAtATime, IntentFirst, Holding
<1>5. SeenHolds'
  BY <1>0, <1>1, <1>3 DEF RetainedInv, SeenHolds
<1>6. RemovesReviewed' /\ DestroyedWasReviewed'
  BY <1>0, <1>1 DEF RetainedInv, RemovesReviewed, Removing, DestroyedWasReviewed
<1> QED
  BY <1>1, <1>2, <1>4, <1>5, <1>6 DEF RetainedInv

-----------------------------------------------------------------------------
(* The disposal: what it promises.                                         *)

\* Before the first cleanup request nothing was removed and nothing is read.
LEMMA RetainedStarts == Init => RetainedInv
<1> SUFFICES ASSUME Init
             PROVE  RetainedInv
  OBVIOUS
<1>0. /\ MaxStamp \in Nat /\ MaxClock \in Nat
      /\ 0 \in 0..MaxStamp /\ 0 \in 0..MaxClock
  BY DiffAssumption, RetainedAssumption
<1>1. DiffInv /\ DiffTypeOK /\ scan.at = "idle"
  BY DiffStarts DEF Init, DiffInv, DiffInit, NoScan
<1>2. Idle \in Request /\ Idle.at = "idle"
  BY <1>0 DEF Idle, Request
<1>3. \A h \in Requests : request[h] = Idle
  BY DEF Init
<1>4. TypeOK
  BY <1>0, <1>1, <1>2 DEF Init, TypeOK
<1>5. OneAtATime
  BY <1>1, <1>2, <1>3 DEF OneAtATime, Holding
<1>6. IntentFirst
  BY <1>2, <1>3 DEF Init, IntentFirst, Ahead, Begun
<1>7. SeenHolds /\ RemovesReviewed /\ DestroyedWasReviewed
  BY <1>2, <1>3 DEF Init, SeenHolds, RemovesReviewed, Removing, DestroyedWasReviewed
<1> QED
  BY <1>1, <1>4, <1>5, <1>6, <1>7 DEF RetainedInv

\* Every step of a request, of git, of a writer or of the clock keeps the
\* invariant.
LEMMA RetainedKept == RetainedInv /\ [Next]_vars => RetainedInv'
<1> SUFFICES ASSUME RetainedInv, [Next]_vars
             PROVE  RetainedInv'
  OBVIOUS
<1>1. ASSUME NEW h \in Requests, Step(h)
      PROVE  RetainedInv'
  BY <1>1, BeforeIntentKeeps, CollectingKeeps, LookingAgainKeeps, StartRemovalKeeps,
     RemovalEndsKeeps, AfterRemovalKeeps, EndingKeeps DEF Step
<1> QED
  BY <1>1, OrphanEndsKeeps, WriteKeeps, ClockKeeps DEF Next

\* The inductive invariant of the disposal and of the collections it waits for
\* holds in every state.
THEOREM RetainedSafe == Spec => []RetainedInv
BY RetainedStarts, RetainedKept, PTL DEF Spec

\* _cleanup_locked and remove_retained hand a worktree to git worktree remove at
\* most once, whatever fails, dies or reappears.
THEOREM RemovalOnce == Spec => []RemovedOnce
<1>1. RetainedInv => RemovedOnce
  BY DEF RetainedInv, IntentFirst, RemovedOnce
<1> QED
  BY <1>1, RetainedSafe, PTL

\* What remove_retained destroys is the rejected directory with the reviewed
\* files, unless somebody wrote at a moment that its inspections cannot see.
THEOREM DestroyedReviewed == Spec => []DestroyedWasReviewed
<1>1. RetainedInv => DestroyedWasReviewed
  BY DEF RetainedInv
<1> QED
  BY <1>1, RetainedSafe, PTL

\* A diff that ReadOnlyDiffService.collect returns is of one state of the files
\* it lists, whatever is written while it reads one after the other.
THEOREM DiffOfOneState == Spec => []StableDiff
<1>1. RetainedInv => StableDiff
  BY DEF RetainedInv, DiffInv
<1> QED
  BY <1>1, RetainedSafe, PTL

\* A cleanup that was interrupted after its intent is neither started again nor
\* declared complete.
THEOREM InterruptedStays == Spec => UncertainStays
<1>1. RetainedInv /\ [Next]_vars => (Uncertain => Uncertain' /\ removals' = removals)
  <2> SUFFICES ASSUME RetainedInv, [Next]_vars, Uncertain
               PROVE  Uncertain' /\ removals' = removals
    OBVIOUS
  <2>1. \A h \in Requests : request[h].at = "idle"
    BY DEF Uncertain, RetainedInv, IntentFirst, TypeOK, Request
  <2>2. ASSUME NEW h \in Requests
        PROVE  ~Step(h)
    <3>1. ~BeginCleanup(h)
      BY DEF BeginCleanup, Disposable, Uncertain
    <3> QED
      BY <2>1, <3>1
         DEF Step, Inspect, Collect, CheckLive, RecordIntent, Inventory, Snapshot, CheckAgain,
             StartRemoval, RemovalSucceeds, RemovalFails, Confirm, Complete, Refuse, Die, Holding
  <2>3. UNCHANGED <<started, completed, request, removals>>
    BY <2>2 DEF Next, OrphanEnds, Write, SetClock, vars, cleanupVars
  <2> QED
    BY <2>3 DEF Uncertain
<1>2. RetainedInv /\ [Next]_vars => [Uncertain => Uncertain' /\ removals' = removals]_vars
  BY <1>1
<1> QED
  BY <1>2, RetainedSafe, PTL DEF Spec, UncertainStays

=============================================================================
