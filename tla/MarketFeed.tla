------------------------------ MODULE MarketFeed ------------------------------
(***************************************************************************)
(* A driver's public order book: KatanaPublicWs, LighterPublicWs and       *)
(* AsterPublicWs, and the spread monitor's gate that decides whether what  *)
(* order_book() returns is recorded.                                       *)
(*                                                                         *)
(* A book is the set of the venue's updates that are in it: the venue's    *)
(* own book after update n is 1 .. n, and a local book is right when it is *)
(* 1 .. last_u.  Updates are only ever applied in rising order, so the set *)
(* determines the book.  `moves` says which updates change the top of the  *)
(* book, `hollow` after which the venue has no order on one side.          *)
(***************************************************************************)
EXTENDS Integers, Sequences, FiniteSets

CONSTANTS
    SkipMessages,   \* the venue may leave an update out of the stream
    FreshTicks,     \* _FRESH_MS, in ticks of the model's clock
    Nothing,        \* Python's None
    \* Bounds of the model:
    MaxSeq,         \* updates of the venue's book
    MaxWire,        \* messages on their way
    BufferMax,      \* _BUFFER_MAX, the length of the deque
    MaxLinks        \* connections made

ASSUME MarketFeedAssumption ==
    /\ SkipMessages \in BOOLEAN
    /\ FreshTicks \in Nat /\ MaxSeq \in Nat \ {0} /\ MaxWire \in Nat \ {0}
    /\ BufferMax \in Nat \ {0} /\ MaxLinks \in Nat \ {0}
    /\ Nothing \notin Int /\ \A S \in SUBSET (1 .. MaxSeq) : Nothing # S

Updates == 1 .. MaxSeq
BookOf(n) == 1 .. n
Never == FreshTicks + 1      \* the clock's top: long ago, or not yet

VARIABLES
    venue,        \* "katana", "lighter" or "aster"
    moves,        \* the updates that change the top of the book
    hollow,       \* the updates after which a side is empty
    seq,          \* updates the venue has made
    \* the connection
    online,       \* whether the socket is open
    links,        \* connections made so far
    wire,         \* messages on their way: [kind, u]
    \* the book (KatanaPublicWs' fields; Lighter and Aster have some of them)
    book,         \* _bids and _asks
    synced,       \* _synced; for Lighter and Aster, a snapshot has arrived
    buffer,       \* _buffer
    last_u,       \* _last_u
    bootstrap,    \* the bootstrap task: "none", "fetching", "retry"
    snap,         \* the sequence of the snapshot on its way, or Nothing
    last_book,    \* _last_book with its quote: the updates in it, or Nothing
    update_age,   \* ticks since _last_update_ms
    \* the spread monitor
    row_age,      \* how long the book of this tick's row had been out of sync, or Nothing
    \* history
    sync_age,     \* ticks since the book was last in sync with the venue
    skipped       \* updates lost on a path that BootstrapEnds and LighterDiff do not look at

feedVars == <<venue, moves, hollow, seq, online, links, wire, book, synced, buffer,
              last_u, bootstrap, snap, last_book, update_age, row_age,
              sync_age, skipped>>

marketVars == <<venue, moves, hollow>>
connVars == <<online, links>>
taskVars == <<bootstrap, snap>>

Messages == [kind : {"ack", "snapshot", "diff", "frame"}, u : 0 .. MaxSeq]

MarketFeedTypeOK ==
    /\ venue \in {"katana", "lighter", "aster"}
    /\ moves \subseteq Updates /\ hollow \subseteq 0 .. MaxSeq
    /\ seq \in 0 .. MaxSeq
    /\ online \in BOOLEAN /\ links \in 0 .. MaxLinks
    /\ wire \in Seq(Messages) /\ Len(wire) <= MaxWire
    /\ book \subseteq Updates
    /\ synced \in BOOLEAN
    /\ buffer \in Seq(Updates) /\ Len(buffer) <= BufferMax
    /\ last_u \in {Nothing} \cup 0 .. MaxSeq
    /\ bootstrap \in {"none", "fetching", "retry"}
    /\ snap \in {Nothing} \cup 0 .. MaxSeq
    /\ last_book \in {Nothing} \cup SUBSET Updates
    /\ update_age \in 0 .. Never /\ sync_age \in 0 .. Never
    /\ row_age \in {Nothing} \cup 0 .. Never
    /\ skipped \subseteq Updates

MarketFeedInit ==
    /\ venue \in {"katana", "lighter", "aster"}
    /\ moves = {} /\ hollow \in {{}, {0}}
    /\ seq = 0 /\ online = FALSE /\ links = 0 /\ wire = <<>>
    /\ book = {} /\ synced = FALSE /\ buffer = <<>> /\ last_u = Nothing
    /\ bootstrap = "none" /\ snap = Nothing
    /\ last_book = Nothing /\ update_age = Never
    /\ row_age = Nothing /\ sync_age = Never /\ skipped = {}

MaxOf(S) == CHOOSE n \in S \cup {0} : \A k \in S : k <= n

\* The best bid and ask of a book, named by the update that last changed them.
Top(updates) == MaxOf(updates \cap moves)
OneSided(updates) == MaxOf(updates) \in hollow

-----------------------------------------------------------------------------
(* The venue and the connection.                                           *)

Send(message) ==
    /\ Len(wire) < MaxWire
    /\ wire' = Append(wire, message)

\* The book changes and a connected subscriber is told, or left out.  One update at
\* most empties a side, until the next; both move the top.  What is left out before
\* Katana takes the snapshot it will answer with is in that snapshot.
VenueUpdates ==
    /\ seq < MaxSeq
    /\ seq' = seq + 1
    /\ hollow' \in {hollow, {seq'}} /\ (hollow # {} => hollow' = hollow)
    /\ moves' \in {moves, moves \cup {seq'}}
    /\ {seq, seq'} \cap hollow' # {} => seq' \in moves'
    /\ \/ /\ ~online
          /\ UNCHANGED <<wire, skipped>>
       \/ /\ online
          /\ Send([kind |-> IF venue = "aster" THEN "frame" ELSE "diff", u |-> seq'])
          /\ UNCHANGED skipped
       \/ /\ online /\ SkipMessages
          /\ skipped' = IF venue = "katana" /\ snap = Nothing THEN skipped
                        ELSE skipped \cup {seq'}
          /\ UNCHANGED wire
    /\ UNCHANGED <<venue, connVars, book, synced, buffer, last_u, taskVars, last_book,
                   update_age, row_age, sync_age>>

\* Leaves the bootstrap of the old socket running.
MutResetBook ==
    /\ book' = {} /\ synced' = FALSE /\ buffer' = <<>> /\ last_u' = Nothing
    /\ UNCHANGED <<bootstrap, snap>>

\* _reset_book, which also cancels the bootstrap; Lighter only clears its two sides.
\* What order_book() returns stays.
ResetBook ==
    /\ book' = {} /\ synced' = FALSE /\ buffer' = <<>> /\ last_u' = Nothing
    /\ bootstrap' = "none" /\ snap' = Nothing

\* Aster sends its frames at a fixed pace, whether the book changed or not.
VenueRepeats ==
    /\ venue = "aster" /\ online /\ wire = <<>>
    /\ Send([kind |-> "frame", u |-> seq])
    /\ UNCHANGED <<marketVars, seq, connVars, book, synced, buffer, last_u, taskVars,
                   last_book, update_age, row_age, sync_age, skipped>>

\* A connection and its subscription.  Katana acknowledges it, Lighter answers with a
\* snapshot, an Aster frame is one; Aster's client has no book of its own to clear.
Connect ==
    /\ ~online
    /\ links < MaxLinks
    /\ online' = TRUE
    /\ links' = links + 1
    /\ ResetBook
    /\ wire' = CASE venue = "katana" -> <<[kind |-> "ack", u |-> seq]>>
                 [] venue = "lighter" -> <<[kind |-> "snapshot", u |-> seq]>>
                 [] venue = "aster" -> <<>>
    /\ UNCHANGED <<marketVars, seq, last_book, update_age, row_age,
                   sync_age, skipped>>

Disconnect ==
    /\ online
    /\ online' = FALSE
    /\ wire' = <<>>
    /\ UNCHANGED <<marketVars, seq, links, book, synced, buffer, last_u, taskVars, last_book,
                   update_age, row_age, sync_age, skipped>>

-----------------------------------------------------------------------------
(* The local book.                                                         *)

\* _emit_book: nothing when a side is empty or the top is the same as that shown.
EmitBook(updates) ==
    IF OneSided(updates) \/ (last_book # Nothing /\ Top(updates) = Top(last_book))
    THEN UNCHANGED last_book
    ELSE last_book' = updates

\* An update was applied to a book in sync, which is now `updates`.
Applied(updates, u) ==
    /\ book' = updates
    /\ last_u' = u
    /\ synced' = TRUE
    /\ update_age' = 0
    /\ sync_age' = 0
    /\ EmitBook(updates)

\* Start a single bootstrap task.
ScheduleBootstrap ==
    /\ bootstrap' = IF bootstrap = "none" THEN "fetching" ELSE bootstrap
    /\ UNCHANGED snap

\* A buffer without a limit.
MutKeep(u) == buffer' = Append(buffer, u) /\ UNCHANGED skipped

\* The deque drops its oldest diff when it is full.
Keep(u) ==
    IF Len(buffer) < BufferMax
    THEN /\ buffer' = Append(buffer, u)
         /\ UNCHANGED skipped
    ELSE /\ buffer' = Append(Tail(buffer), u)
         /\ skipped' = IF snap = Nothing THEN skipped ELSE skipped \cup {Head(buffer)}

Receive(kind) ==
    /\ wire # <<>>
    /\ Head(wire).kind = kind
    /\ wire' = Tail(wire)

\* "subscriptions": the bootstrap starts.  It ends at once when the book is in sync.
KatanaAck ==
    /\ Receive("ack")
    /\ IF synced THEN UNCHANGED taskVars ELSE ScheduleBootstrap
    /\ UNCHANGED <<marketVars, seq, connVars, book, synced, buffer, last_u, last_book,
                   update_age, row_age, sync_age, skipped>>

\* Every message of the stream counts as a sign of life.
MutOnDiffAlive(u) ==
    /\ update_age' = 0
    /\ IF synced /\ u <= last_u + 1
       THEN /\ book' = IF u <= last_u THEN book ELSE book \cup {u}
            /\ last_u' = MaxOf({u, last_u})
            /\ EmitBook(book')
            /\ sync_age' = 0
            /\ UNCHANGED <<synced, buffer, skipped, taskVars>>
       ELSE /\ synced' = FALSE
            /\ Keep(u)
            /\ ScheduleBootstrap
            /\ UNCHANGED <<book, last_u, sync_age, last_book>>

\* Waits for the next message to ask for a snapshot.
MutOnDiffWaits(u) ==
    IF synced /\ u <= last_u + 1
    THEN /\ IF u <= last_u
            THEN UNCHANGED <<book, last_u, synced, update_age, sync_age, last_book>>
            ELSE Applied(book \cup {u}, u)
         /\ UNCHANGED <<buffer, skipped, taskVars>>
    ELSE /\ synced' = FALSE
         /\ Keep(u)
         /\ IF synced THEN UNCHANGED taskVars ELSE ScheduleBootstrap
         /\ UNCHANGED <<book, last_u, update_age, sync_age, last_book>>

\* KatanaPublicWs._on_diff: kept for the bootstrap when out of sync, dropped when
\* old, applied when next; a jump puts the book out of sync.
OnDiff(u) ==
    IF synced /\ u <= last_u + 1
    THEN /\ IF u <= last_u
            THEN UNCHANGED <<book, last_u, synced, update_age, sync_age, last_book>>
            ELSE Applied(book \cup {u}, u)
         /\ UNCHANGED <<buffer, skipped, taskVars>>
    ELSE /\ synced' = FALSE
         /\ Keep(u)
         /\ ScheduleBootstrap
         /\ UNCHANGED <<book, last_u, update_age, sync_age, last_book>>

KatanaDiff ==
    /\ venue = "katana"
    /\ Receive("diff")
    /\ OnDiff(Head(wire).u)
    /\ UNCHANGED <<marketVars, seq, connVars, row_age>>

\* The request for the snapshot reaches the venue, which answers with its book.
SnapshotTaken ==
    /\ bootstrap = "fetching" /\ snap = Nothing
    /\ snap' = seq
    /\ UNCHANGED <<marketVars, seq, connVars, wire, book, synced, buffer, last_u, bootstrap,
                   last_book, update_age, row_age, sync_age, skipped>>

\* The request fails; the task sleeps and asks again.
SnapshotFails ==
    /\ bootstrap = "fetching"
    /\ bootstrap' = "retry"
    /\ snap' = Nothing
    /\ UNCHANGED <<marketVars, seq, connVars, wire, book, synced, buffer, last_u, last_book,
                   update_age, row_age, sync_age, skipped>>

SnapshotRetry ==
    /\ bootstrap = "retry"
    /\ bootstrap' = "fetching"
    /\ UNCHANGED <<marketVars, seq, connVars, wire, book, synced, buffer, last_u, snap,
                   last_book, update_age, row_age, sync_age, skipped>>

Later(n) == {u \in {buffer[i] : i \in DOMAIN buffer} : u > n}

\* Waits for the next update before it shows the book.
MutBootstrapEnds ==
    /\ bootstrap = "fetching" /\ snap # Nothing
    /\ book' = BookOf(snap) \cup Later(snap)
    /\ last_u' = MaxOf(book')
    /\ synced' = TRUE
    /\ update_age' = 0 /\ sync_age' = 0
    /\ UNCHANGED last_book
    /\ buffer' = <<>>
    /\ bootstrap' = "none" /\ snap' = Nothing
    /\ UNCHANGED <<marketVars, seq, connVars, wire, row_age, skipped>>

\* The snapshot arrives and the buffered updates after it are applied, in order and
\* without a look at whether they follow each other.
BootstrapEnds ==
    /\ bootstrap = "fetching" /\ snap # Nothing
    /\ \E last \in {snap} \cup Later(snap) :
          /\ \A u \in Later(snap) : u <= last
          /\ Applied(BookOf(snap) \cup Later(snap), last)
    /\ buffer' = <<>>
    /\ bootstrap' = "none" /\ snap' = Nothing
    /\ UNCHANGED <<marketVars, seq, connVars, wire, row_age, skipped>>

\* Lighter's snapshot replaces the book.
LighterSnapshot ==
    /\ Receive("snapshot")
    /\ Applied(BookOf(Head(wire).u), Head(wire).u)
    /\ UNCHANGED <<marketVars, seq, connVars, buffer, taskVars, row_age, skipped>>

\* Lighter's updates carry no number the driver looks at.
LighterDiff ==
    /\ venue = "lighter"
    /\ Receive("diff")
    /\ Applied(book \cup {Head(wire).u}, Head(wire).u)
    /\ UNCHANGED <<marketVars, seq, connVars, buffer, taskVars, row_age, skipped>>

\* A frame of Aster's is a book of its own; one with an empty side is no sign of life.
AsterFrame ==
    /\ Receive("frame")
    /\ IF OneSided(BookOf(Head(wire).u))
       THEN UNCHANGED <<book, last_u, synced, update_age, sync_age, last_book>>
       ELSE Applied(BookOf(Head(wire).u), Head(wire).u)
    /\ UNCHANGED <<marketVars, seq, connVars, buffer, taskVars, row_age, skipped>>

-----------------------------------------------------------------------------
(* The clock and the spread monitor.                                       *)

Tick ==
    /\ update_age' = IF update_age < Never THEN update_age + 1 ELSE update_age
    /\ sync_age' = IF synced /\ online THEN sync_age
                   ELSE IF sync_age < Never THEN sync_age + 1 ELSE sync_age
    /\ <<update_age, sync_age>>' # <<update_age, sync_age>>
    /\ row_age' = Nothing
    /\ UNCHANGED <<marketVars, seq, connVars, wire, book, synced, buffer, last_u, taskVars,
                   last_book, skipped>>

\* SpreadMonitor._evaluate, run by an update of either leg's book: a row for a leg
\* that has a book and was updated within the window.
Evaluate ==
    /\ last_book # Nothing
    /\ update_age <= FreshTicks
    /\ row_age' = sync_age
    /\ UNCHANGED <<marketVars, seq, connVars, wire, book, synced, buffer, last_u, taskVars,
                   last_book, update_age, sync_age, skipped>>

-----------------------------------------------------------------------------
MarketFeedNext ==
    \/ VenueUpdates \/ VenueRepeats \/ Connect \/ Disconnect
    \/ KatanaAck \/ KatanaDiff \/ SnapshotTaken \/ SnapshotFails \/ SnapshotRetry \/ BootstrapEnds
    \/ LighterSnapshot \/ LighterDiff \/ AsterFrame
    \/ Tick \/ Evaluate

\* The read loop takes what arrives, the loop around it reconnects after its backoff;
\* a snapshot request has a timeout, is made again after a failure and does not fail
\* forever.
MarketFeedFairness ==
    /\ WF_feedVars(KatanaAck \/ KatanaDiff \/ LighterSnapshot \/ LighterDiff \/ AsterFrame)
    /\ SF_feedVars(SnapshotTaken) /\ WF_feedVars(SnapshotRetry) /\ SF_feedVars(BootstrapEnds)

MarketFeedSpec == MarketFeedInit /\ [][MarketFeedNext]_feedVars /\ MarketFeedFairness

-----------------------------------------------------------------------------
(* Properties.                                                             *)

Missing == BookOf(last_u) \ book

\* A book in sync lacks an update only if it was lost where the driver does not look:
\* Lighter's stream left it out; or, between the taking of a Katana snapshot and its
\* arrival, the stream left it out or a full buffer dropped it (the jump this leaves in
\* the buffer is JumpsAreResynced's).  A snapshot of an earlier connection, a diff that
\* overtakes one, an update left out before the snapshot was taken and a jump in a
\* synced stream lose nothing.
MissingWasSkipped == synced => Missing \subseteq skipped

\* The driver's docstring: a jump in `u` means missed messages, counted and resynced.  A
\* Katana book in sync then lacks nothing, for whatever it lacks leaves a jump in what it
\* applies later.  _bootstrap applies the buffered diffs without looking for one, and
\* the book counts as in sync.
JumpsAreResynced == venue = "katana" /\ synced => Missing = {}

\* The top of the book that order_book() and best_quote() return is the top of the
\* local book, through resyncs and reconnects and whatever is missing from both; below
\* the top they may be older.
TopIsCurrent ==
    synced /\ ~OneSided(book) => last_book # Nothing /\ Top(last_book) = Top(book)

\* The spread monitor records no row for a leg that has been down or out of sync for
\* longer than the window: nothing but an update of a book in sync renews book_ts().
RowsOnlyWhenFresh == row_age # Nothing => row_age <= FreshTicks

\* A connected Katana feed that lost its sequence gets back in sync.
Resyncs == (venue = "katana" /\ online /\ ~synced) ~> (synced \/ ~online)
=============================================================================
