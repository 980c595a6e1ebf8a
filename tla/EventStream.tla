---------------------------- MODULE EventStream -----------------------------
(***************************************************************************)
(* The append-only event ledger, the server-sent stream that replays and   *)
(* follows the events of one job, and the page that shows them.            *)
(*                                                                         *)
(* Events of several jobs share one table: an event has an id in the table *)
(* and a sequence in its job.  The stream advances by sequence, the        *)
(* browser resumes by id.  A connection may break with frames on the wire; *)
(* the browser then reconnects with the id of the last frame it got.  After*)
(* an error frame the page opens a stream of its own from the beginning    *)
(* and keeps what it shows.  A subscription that is refused fails the       *)
(* EventSource for good.  Heartbeats change nothing and are left out.      *)
(***************************************************************************)
EXTENDS Naturals, Sequences, FiniteSets, FiniteSetsExt

CONSTANTS
    Jobs,
    Keys,         \* idempotency keys
    NoKey,        \* of an event without one
    BatchSize,    \* events of one query
    MaxEvents     \* bound: rows of the ledger

ASSUME StreamAssumption ==
    /\ BatchSize \in Nat \ {0}
    /\ MaxEvents \in Nat
    /\ NoKey \notin Keys

VARIABLES
    events,    \* the table, by id
    page,      \* the selected job, the ids shown and state.lastEvent
    source,    \* the EventSource and the request it makes
    wire       \* frames on their way to the page

streamVars == <<events, page, source, wire>>

Error == 0      \* the frame workbench.error; ids are positive

\* The cursor of the browser is an id, that of the generator a sequence, and a
\* batch is a set of ids.
Source == [at : {"none", "connecting", "query", "send", "ended", "closed", "failed"},
           cursor : Nat, sequence : Nat, batch : SUBSET Nat]

StreamTypeOK ==
    /\ events \in Seq([job : Jobs, sequence : Nat, key : Keys \cup {NoKey}])
    /\ page \in [job : Jobs, shown : Seq(Nat), last : Nat]
    /\ source \in Source
    /\ wire \in Seq(Nat)

NoSource == [at |-> "none", cursor |-> 0, sequence |-> 0, batch |-> {}]

StreamInit ==
    /\ events = <<>>
    /\ \E j \in Jobs : page = [job |-> j, shown |-> <<>>, last |-> 0]
    /\ source = NoSource
    /\ wire = <<>>

-----------------------------------------------------------------------------
(* The ledger.                                                             *)

\* The ids of the events of job j.
EventsOf(j) == {i \in DOMAIN events : events[i].job = j}

\* _matching_idempotent_event: keys are scoped to a job.
Existing(j, k) == k # NoKey /\ \E i \in DOMAIN events : events[i].job = j /\ events[i].key = k

\* The sequence after the latest of the job.
NextSequence(j) ==
    1 + IF EventsOf(j) = {} THEN 0 ELSE Max({events[i].sequence : i \in EventsOf(j)})

\* EventRepository._append.  A retry returns the stored event or raises.
AppendEvent(j, k) ==
    /\ Len(events) < MaxEvents
    /\ ~Existing(j, k)
    /\ events' = Append(events, [job |-> j, sequence |-> NextSequence(j), key |-> k])
    /\ UNCHANGED <<page, source, wire>>

-----------------------------------------------------------------------------
(* The server.                                                             *)

\* Fault: the id is taken for the sequence.
StartAfter_Id == source.cursor

\* The sequence of the event that Last-Event-ID names.
StartAfter == IF source.cursor = 0 THEN 0 ELSE events[source.cursor].sequence

\* subscribe: a cursor of another job is refused before the stream begins.
Subscribe ==
    /\ source.at = "connecting"
    /\ source.cursor # 0 => events[source.cursor].job = page.job
    /\ source' = [source EXCEPT !.at = "query", !.sequence = StartAfter]
    /\ UNCHANGED <<events, page, wire>>

\* subscribe raises while the storage fails, and the endpoint answers 503.  The
\* browser takes up no connection after that, and the page keeps the dead source.
RefuseSubscription ==
    /\ source.at = "connecting"
    /\ source' = [source EXCEPT !.at = "failed"]
    /\ UNCHANGED <<events, page, wire>>

\* Fault: an off-by-one in the comparison with the cursor.
Follows_Skipping(i, s) == events[i].sequence > s + 1

\* sequence > ?
Follows(i, s) == events[i].sequence > s

\* The events of job j after sequence s, and those of them before the event i.
Later(j, s) == {i \in EventsOf(j) : Follows(i, s)}
Earlier(j, s, i) == {e \in Later(j, s) : events[e].sequence < events[i].sequence}

\* list_after: the next events of the job, at most BatchSize.
ListAfter(j, s) == {i \in Later(j, s) : Cardinality(Earlier(j, s, i)) < BatchSize}

\* A query in the thread pool.  One that finds nothing is repeated.
Query ==
    /\ source.at = "query"
    /\ Later(page.job, source.sequence) # {}
    /\ source' = [source EXCEPT !.at = "send", !.batch = ListAfter(page.job, source.sequence)]
    /\ UNCHANGED <<events, page, wire>>

\* One frame, in the order of the sequence, after which the cursor is that of
\* its record.
SendFrame ==
    /\ source.at = "send"
    /\ \E i \in source.batch :
           /\ \A e \in source.batch : events[i].sequence <= events[e].sequence
           /\ wire' = Append(wire, i)
           /\ source' = [source EXCEPT !.at = IF source.batch = {i} THEN "query" ELSE "send",
                                       !.sequence = events[i].sequence,
                                       !.batch = @ \ {i}]
    /\ UNCHANGED <<events, page>>

\* The storage fails under the stream: a control frame, and the stream ends.
Fail ==
    /\ source.at = "query"
    /\ wire' = Append(wire, Error)
    /\ source' = [source EXCEPT !.at = "ended"]
    /\ UNCHANGED <<events, page>>

-----------------------------------------------------------------------------
(* The browser and the page.                                               *)

\* selectTask: the stream is closed, the activity cleared.
Select(j) ==
    /\ j # page.job
    /\ page' = [job |-> j, shown |-> <<>>, last |-> 0]
    /\ source' = NoSource
    /\ wire' = <<>>
    /\ UNCHANGED events

\* loadDetail opens a stream, from the beginning, where there is none; a dead
\* one is there.
ConnectStream ==
    /\ source.at \in {"none", "closed"}
    /\ source' = [NoSource EXCEPT !.at = "connecting"]
    /\ UNCHANGED <<events, page, wire>>

\* The connection is lost with what it carries; the browser reconnects.
Break ==
    /\ source.at \in {"query", "send", "ended"}
    /\ source' = [source EXCEPT !.at = "connecting", !.batch = {}]
    /\ wire' = <<>>
    /\ UNCHANGED <<events, page>>

\* eventId <= state.lastEvent is ignored.
Fresh(i) == i > page.last

\* The listener of workbench.event.
Show ==
    LET i == Head(wire)
    IN  /\ wire # <<>>
        /\ i # Error
        /\ wire' = Tail(wire)
        /\ source' = [source EXCEPT !.cursor = i]
        /\ page' = IF Fresh(i) THEN [page EXCEPT !.shown = Append(@, i), !.last = i] ELSE page
        /\ UNCHANGED events

\* The listener of workbench.error closes the source; what is shown stays.
ShowError ==
    /\ wire # <<>>
    /\ Head(wire) = Error
    /\ wire' = <<>>
    /\ source' = [NoSource EXCEPT !.at = "closed"]
    /\ UNCHANGED <<events, page>>

-----------------------------------------------------------------------------
StreamNext ==
    \/ \E j \in Jobs, k \in Keys \cup {NoKey} : AppendEvent(j, k)
    \/ \E j \in Jobs : Select(j)
    \/ Subscribe \/ RefuseSubscription \/ Query \/ SendFrame \/ Fail
    \/ ConnectStream \/ Break \/ Show \/ ShowError

\* The endpoint, the generator, the thread pool and the browser make progress: a
\* request that is not refused is answered.  Nothing is assumed of writers, of
\* the operator, of failures or of the connection.
StreamSpec == StreamInit /\ [][StreamNext]_streamVars

FairSpec ==
    /\ StreamSpec
    /\ WF_streamVars(Subscribe) /\ WF_streamVars(Query) /\ WF_streamVars(SendFrame)
    /\ WF_streamVars(Show) /\ WF_streamVars(ShowError)

-----------------------------------------------------------------------------
(* Properties.                                                             *)

Shown(i) == \E n \in DOMAIN page.shown : page.shown[n] = i

\* The page shows the job's events in order, without a gap or a duplicate,
\* over batches, broken connections, resumed streams and streams that begin
\* again.
StreamIsPrefix ==
    /\ \A m, n \in DOMAIN page.shown : m < n => page.shown[m] < page.shown[n]
    /\ \A n \in DOMAIN page.shown :
           /\ page.shown[n] \in EventsOf(page.job)
           /\ \A i \in EventsOf(page.job) : i < page.shown[n] => Shown(i)

\* The page has its stream, or the browser is about to reconnect.
Following == source.at \notin {"none", "closed"}

Concerns(i) == i \in DOMAIN events /\ events[i].job = page.job

\* The subscription was refused: the page has a source that never reconnects,
\* until another task is selected.
Refused == source.at = "failed"

\* An event of the followed job comes to be shown, unless the operator selects
\* another job, the storage fails under the stream, which closes it, a request
\* of the browser is refused or the connection breaks again and again.
StreamCatchesUp ==
    \/ []<><<Break>>_streamVars
    \/ \A i \in 1..MaxEvents :
           (Concerns(i) /\ Following /\ ~Refused) ~>
               (Shown(i) \/ ~Concerns(i) \/ ~Following \/ Refused)

-----------------------------------------------------------------------------
(* What the stream relies on.  Inductive, with the type.                   *)

\* In a job the order of the ids is that of the sequences, which begin at one.
LedgerInOrder ==
    /\ \A i \in DOMAIN events : events[i].sequence > 0
    /\ \A i, k \in DOMAIN events :
           i < k /\ events[i].job = events[k].job => events[i].sequence < events[k].sequence

\* state.lastEvent is the last event shown, and the browser is not ahead of it.
LastIsShown ==
    /\ \A n \in DOMAIN page.shown : page.shown[n] <= page.last
    /\ page.last # 0 => Shown(page.last)
    /\ source.cursor # 0 => source.cursor \in EventsOf(page.job) /\ source.cursor <= page.last

\* The frames on the wire are the events that follow the browser's cursor.
WireInOrder ==
    /\ source.at \in {"none", "connecting", "closed", "failed"} => wire = <<>>
    /\ \A m, n \in DOMAIN wire : m < n /\ Error \notin {wire[m], wire[n]} => wire[m] < wire[n]
    /\ \A n \in DOMAIN wire : wire[n] # Error =>
           /\ wire[n] \in EventsOf(page.job)
           /\ source.cursor < wire[n]
           /\ \A i \in EventsOf(page.job) : source.cursor < i /\ i < wire[n] =>
                  \E m \in DOMAIN wire : m < n /\ wire[m] = i

\* What the generator has passed is what the browser has or is about to get,
\* and a batch skips nothing that follows.
OnWire(i) == \E n \in DOMAIN wire : wire[n] = i
Passed(i) == i <= source.cursor \/ OnWire(i)

GeneratorKnows ==
    source.at \in {"query", "send"} =>
        /\ source.sequence # 0 =>
               \E i \in EventsOf(page.job) : events[i].sequence = source.sequence
        /\ \A i \in EventsOf(page.job) : Passed(i) <=> ~Follows(i, source.sequence)
        /\ source.at = "send" => \A i \in source.batch :
               /\ i \in Later(page.job, source.sequence)
               /\ Earlier(page.job, source.sequence, i) \subseteq source.batch

StreamInv == StreamIsPrefix /\ LedgerInOrder /\ LastIsShown /\ WireInOrder /\ GeneratorKnows

=============================================================================
