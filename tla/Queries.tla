------------------------------ MODULE Queries ------------------------------
(***************************************************************************)
(* Reading what the indexer has written while it writes: a client of the   *)
(* API (api/src) following nextCursor through a list, and the live feed of *)
(* the overview page, fed by Redis through the API's gateway.              *)
(*                                                                         *)
(* Abstracted: a router document is its position in the order of its _id,  *)
(* an event is its identity with a blockTime; decodeCursor undoes          *)
(* encodeCursor, so a cursor is the value of the last row.                 *)
(***************************************************************************)
EXTENDS Integers, Sequences, FiniteSets, FiniteSetsExt, Functions

CONSTANTS
  RouterDocs,   \* routers there may be, as numbers in the order of their _id
  EpochDocs,    \* epoch numbers a router may have documents for
  Lexical,      \* [EpochDocs -> place of the number among them, sorted as strings]
  Events,       \* numbers, in the order the transactions confirmed
  TimeOf,       \* [Events -> blockTime]
  Limit,        \* rows of a page, after clampLimit
  FeedSize      \* rows the feed keeps (the code's 50)

ASSUME QueriesAssumption ==
  /\ RouterDocs \subseteq Nat \ {0} /\ EpochDocs \subseteq Nat /\ Events \subseteq Nat \ {0}
  /\ Lexical \in [EpochDocs -> Nat] /\ IsInjective(Lexical)
  /\ TimeOf \in [Events -> Nat \ {0}]
  /\ Limit \in Nat \ {0} /\ FeedSize \in Nat \ {0}

VARIABLES
  fleet,        \* the routers collection
  opened,       \* epochs of the router looked at
  log,          \* the events collection
  walk,         \* [Collections -> a client's way through the list]
  unpublished,  \* events inserted, still to be published
  gateway,      \* the API's Redis subscription is up
  online,       \* the browser's socket is connected
  feed,         \* rows of LiveFeed: [event, id], id as in the field _id
  arrived       \* the event the socket delivered last

readVars  == <<fleet, opened, log>>
feedVars  == <<unpublished, gateway, online, feed, arrived>>
queryVars == <<readVars, walk, feedVars>>

Listings == {"routers", "epochs", "events"}
NoId == 0
Start == -1     \* no cursor

NewWalk == [cursor |-> Start, seen |-> {}, twice |-> FALSE, there |-> {}, cuts |-> {},
            step |-> "new"]

QueryInit ==
  /\ fleet = {} /\ opened = {} /\ log = {}
  /\ walk = [l \in Listings |-> NewWalk]
  /\ unpublished = <<>> /\ gateway = TRUE /\ online = FALSE
  /\ feed = <<>> /\ arrived = NoId

----------------------------------------------------------------------------
(* Pages.                                                                  *)

Holds(l) == CASE l = "routers" -> fleet [] l = "epochs" -> opened [] OTHER -> log

\* Row a sorts before row b.  Epoch numbers are stored as strings: as a string 9
\* is above 10.  Events sharing a blockTime come in any order.
Ahead(l, a, b) ==
  CASE l = "routers" -> a < b
    [] l = "epochs"  -> Lexical[a] > Lexical[b]
    [] OTHER         -> TimeOf[a] > TimeOf[b]

CursorOf(l, row) == IF l = "events" THEN TimeOf[row] ELSE row

\* Comparing a string with a number, the filter on epochNumber matches nothing.
Beyond(l, row, cursor) ==
  CASE l = "routers" -> row > cursor
    [] l = "epochs"  -> FALSE
    [] OTHER         -> TimeOf[row] < cursor

\* Resumes with the row the last page ended with (mutation).
MatchingAgain(l, cursor) ==
  {row \in Holds(l) : cursor = Start \/ Beyond(l, row, cursor) \/ CursorOf(l, row) = cursor}
Matching(l, cursor) == {row \in Holds(l) : cursor = Start \/ Beyond(l, row, cursor)}

\* The first Limit rows of what matches, in some order the sort allows.
Pages(l, matching) ==
  LET rows == IF Cardinality(matching) < Limit THEN Cardinality(matching) ELSE Limit
  IN  {p \in kSubset(rows, matching) :
         \A a \in p, b \in matching \ p : ~Ahead(l, b, a)}

LastRows(l, p) == {a \in p : \A b \in p : ~Ahead(l, a, b)}

ReadPage(l) ==
  LET w == walk[l]
      matching == Matching(l, w.cursor)
  IN
  /\ w.step # "done"
  /\ \E p \in Pages(l, matching) :
       LET hasMore == Cardinality(matching) > Limit
           last == IF p = {} THEN Start ELSE CursorOf(l, CHOOSE a \in LastRows(l, p) : TRUE)
       IN  walk' = [walk EXCEPT ![l] =
             [cursor |-> last, seen |-> w.seen \cup p,
              twice  |-> w.twice \/ w.seen \cap p # {},
              there  |-> IF w.step = "new" THEN Holds(l) ELSE w.there,
              cuts   |-> IF hasMore THEN w.cuts \cup {last} ELSE w.cuts,
              step   |-> IF hasMore THEN "more" ELSE "done"]]
  /\ UNCHANGED <<readVars, feedVars>>

RouterIndexed(r) ==
  /\ r \notin fleet
  /\ fleet' = fleet \cup {r}
  /\ UNCHANGED <<opened, log, walk, feedVars>>

EpochIndexed(e) ==
  /\ e \notin opened
  /\ opened' = opened \cup {e}
  /\ UNCHANGED <<fleet, log, walk, feedVars>>

----------------------------------------------------------------------------
(* The feed.                                                               *)

\* Published first, inserted later, or never (mutation).
EventIndexedLate(e) ==
  /\ e \notin log /\ e \notin Range(unpublished)
  /\ unpublished' = Append(unpublished, e)
  /\ UNCHANGED <<fleet, opened, log, walk, gateway, online, feed, arrived>>

\* processSignature inserts an event, then publishes it.
EventIndexed(e) ==
  /\ e \notin log
  /\ log' = log \cup {e}
  /\ unpublished' = Append(unpublished, e)
  /\ UNCHANGED <<fleet, opened, walk, gateway, online, feed, arrived>>

\* The handler of LiveFeed: what is published carries no _id.
Prepended(e) ==
  IF \E i \in DOMAIN feed : feed[i].id = NoId THEN feed
  ELSE SubSeq(<<[event |-> e, id |-> NoId]>> \o feed, 1,
              IF Len(feed) < FeedSize THEN Len(feed) + 1 ELSE FeedSize)

\* Redis delivers to whoever is subscribed, the gateway to whoever is connected.
Publish ==
  /\ unpublished # <<>>
  /\ unpublished' = Tail(unpublished)
  /\ IF gateway /\ online THEN feed' = Prepended(Head(unpublished))
                               /\ arrived' = Head(unpublished)
     ELSE UNCHANGED <<feed, arrived>>
  /\ UNCHANGED <<readVars, walk, gateway, online>>

\* The indexer dies between the insert and the publication.
IndexerDies ==
  /\ unpublished # <<>>
  /\ unpublished' = <<>>
  /\ UNCHANGED <<readVars, walk, gateway, online, feed, arrived>>

\* The server renders the page with the newest events; they carry their _id.
Rendered(rows) == [i \in DOMAIN rows |-> [event |-> rows[i], id |-> rows[i]]]

\* The page p of events in the orders its sort allows.
Sorted(p) ==
  {rows \in [1 .. Cardinality(p) -> p] :
     \A i, j \in DOMAIN rows :
       i < j => rows[i] # rows[j] /\ ~Ahead("events", rows[j], rows[i])}

LoadFeed ==
  /\ \E p \in Pages("events", log) : \E rows \in Sorted(p) : feed' = Rendered(rows)
  /\ online' = FALSE /\ arrived' = NoId
  /\ UNCHANGED <<readVars, walk, unpublished, gateway>>

SocketTurns ==
  /\ online' = ~online
  /\ UNCHANGED <<readVars, walk, unpublished, gateway, feed, arrived>>

GatewayTurns ==
  /\ gateway' = ~gateway
  /\ UNCHANGED <<readVars, walk, unpublished, online, feed, arrived>>

----------------------------------------------------------------------------
QueryNext ==
  \/ \E l \in Listings : ReadPage(l)
  \/ \E r \in RouterDocs : RouterIndexed(r)
  \/ \E e \in EpochDocs : EpochIndexed(e)
  \/ \E e \in Events : EventIndexed(e)
  \/ Publish \/ IndexerDies \/ LoadFeed \/ SocketTurns \/ GatewayTurns

QuerySpec == QueryInit /\ [][QueryNext]_queryVars

----------------------------------------------------------------------------
\* pagination.ts:1-4: whatever is written between its pages, no list returns a row
\* twice, and a client that follows the cursors to the end misses, of what was there
\* when it began, no router; of the events only some that share the blockTime at which
\* a page was cut; and of the epochs, whose cursor matches nothing, only what comes
\* behind one full page.
WalksMissOnlyAtCuts ==
  \A l \in Listings :
    /\ ~walk[l].twice
    /\ walk[l].step = "done" =>
         \A row \in walk[l].there \ walk[l].seen :
           \/ /\ l = "epochs" /\ Cardinality(walk[l].seen) = Limit
              /\ \A a \in walk[l].seen : Ahead(l, a, row)
           \/ l = "events" /\ TimeOf[row] \in walk[l].cuts

\* ingest.ts:92-102: the feed shows nothing the database does not hold.
FeedIsDurable == \A i \in DOMAIN feed : feed[i].event \in log

\* LiveFeed.tsx:26-32: only a second arrival of an event is dropped, so the event
\* that arrived last is in the feed.
FeedShowsArrivals == arrived # NoId => \E i \in DOMAIN feed : feed[i].event = arrived
=============================================================================
