----------------------------- MODULE DebugEvents -----------------------------
(***************************************************************************)
(* Developer debug events of one user: batches are upserted by the         *)
(* client's event id and kept for a retention time; every ingest and every *)
(* listing starts a bounded prune that nobody waits for and that reads the *)
(* ids to delete first and deletes them by id afterwards; the desk pages   *)
(* through the live events with a cursor while all of this goes on, and    *)
(* opens an event with the timeline of its correlation.  The pages it has  *)
(* fetched stay in the query cache and are shown again, in the same walk   *)
(* through the list or in a later one, before they are fetched anew.       *)
(*                                                                         *)
(* Rows carry what the queries tell apart: the client's id, when they were *)
(* received and whether they match the desk's filter (an update may change *)
(* that).  Payloads and their redaction are left out.  Row ids are random  *)
(* (uuid), so a new row takes any unused one; the order of two rows that   *)
(* were received together is the order of their ids.                       *)
(***************************************************************************)
EXTENDS Naturals, FiniteSets, Sequences

CONSTANTS ClientEvents,   \* clientEventId
          RowIds,         \* the ids new rows may get: a set of positive numbers
          Retention,      \* RETENTION_DAYS, in steps of the clock
          PageLimit,      \* limit of a listing
          PruneLimit,     \* BOUNDED_PRUNE_LIMIT
          TimelineSize,   \* MAX_TIMELINE_SIZE
          MaxDebugTime,   \* bound on the clock
          MaxPrunes       \* bound on prunes under way

ASSUME DebugAssumption ==
  /\ IsFiniteSet(RowIds) /\ RowIds \subseteq Nat \ {0}
  /\ {PageLimit, PruneLimit, TimelineSize} \subseteq Nat \ {0}
  /\ {Retention, MaxDebugTime} \subseteq Nat

VARIABLES debugNow,       \* the clock
          debugRow,       \* row id -> row or NoDebugRow
          usedIds,        \* ids that have been given to a row
          stamped,        \* history: receivedAt of the row each was given to
          prunes,         \* prunes under way: {} before their read, then ids
          cursor,         \* the page's cursor, 0 for the first page
          history,        \* the cursors of the pages before it
          pages,          \* cursor -> the page last fetched for it, or NoPage
          timeline,       \* the event detail being shown: [of, shown]
          due             \* history: what the walk since the list was last
                          \* opened has still to show

debugVars == <<debugNow, debugRow, usedIds, stamped, prunes, cursor, history, pages,
               timeline, due>>

NoDebugRow == [at |-> "none"]
DebugRow == [event : ClientEvents, at : 0..MaxDebugTime, matches : BOOLEAN]
NoPage == [next |-> "none"]
Page == [items : SUBSET RowIds, next : RowIds \cup {0}, of : SUBSET RowIds]

Stored == {i \in RowIds : debugRow[i] # NoDebugRow}
RowsOfEvent(e) == {i \in Stored : debugRow[i].event = e}

\* expiresAt > now, expiresAt < now: at the instant itself a row is neither
\* listed nor pruned.
LiveRow(i) == debugRow[i].at + Retention > debugNow
ExpiredRow(i) == debugRow[i].at + Retention < debugNow

DebugTypeOK ==
  /\ debugNow \in 0..MaxDebugTime
  /\ debugRow \in [RowIds -> DebugRow \cup {NoDebugRow}]
  /\ Stored \subseteq usedIds /\ usedIds \subseteq RowIds
  /\ stamped \in [RowIds -> 0..MaxDebugTime]
  /\ prunes \subseteq SUBSET RowIds
  /\ cursor \in RowIds \cup {0}
  /\ history \in Seq(RowIds \cup {0})
  /\ pages \in [RowIds \cup {0} -> Page \cup {NoPage}]
  /\ timeline \in [of : RowIds \cup {0}, shown : SUBSET RowIds]
  /\ due \subseteq RowIds

DebugInit ==
  /\ debugNow = 0
  /\ debugRow = [i \in RowIds |-> NoDebugRow]
  /\ usedIds = {}
  /\ stamped = [i \in RowIds |-> 0]
  /\ prunes = {}
  /\ cursor = 0
  /\ history = <<>>
  /\ pages = [c \in RowIds \cup {0} |-> NoPage]
  /\ timeline = [of |-> 0, shown |-> {}]
  /\ due = RowIds

-----------------------------------------------------------------------------
(* Ingest.                                                                  *)

UpdatedRowExtended(row, m) == [row EXCEPT !.matches = m, !.at = debugNow]

\* The update of the upsert leaves receivedAt and expiresAt as they were.
UpdatedRow(row, m) == [row EXCEPT !.matches = m]

CreatedRow(e, m) == [event |-> e, at |-> debugNow, matches |-> m]

\* void pruneExpiredBounded(): started, not waited for.  Beyond the bound it
\* fails at once, which it may do anyway.
StartPrune ==
  prunes' = IF Cardinality(prunes) < MaxPrunes THEN prunes \cup {{}} ELSE prunes

\* What the controller lets through: the empty batch it refuses.  Whether
\* ingestion is enabled and the batch is small enough is not modelled.
AcceptedBatch(batch) == batch # {}

\* One transaction upserts the events of a batch by (user, clientEventId).
IngestBatch(batch, m) ==
  LET new == {e \in batch : RowsOfEvent(e) = {}} IN
  /\ AcceptedBatch(batch)
  /\ \E id \in [new -> RowIds \ usedIds] :
       /\ \A d, e \in new : id[d] = id[e] => d = e
       /\ usedIds' = usedIds \cup {id[e] : e \in new}
       /\ stamped' = [i \in RowIds |-> IF \E e \in new : id[e] = i THEN debugNow ELSE stamped[i]]
       /\ debugRow' = [i \in RowIds |->
            IF \E e \in new : id[e] = i
            THEN CreatedRow(CHOOSE e \in new : id[e] = i, m)
            ELSE IF i \in Stored /\ debugRow[i].event \in batch
                 THEN UpdatedRow(debugRow[i], m)
                 ELSE debugRow[i]]
  /\ StartPrune
  /\ UNCHANGED <<debugNow, cursor, history, pages, timeline, due>>

-----------------------------------------------------------------------------
(* Expiry.                                                                  *)

ClockTicks ==
  /\ debugNow < MaxDebugTime
  /\ debugNow' = debugNow + 1
  /\ UNCHANGED <<debugRow, usedIds, stamped, prunes, cursor, history, pages, timeline, due>>

Without(ids) == [i \in RowIds |-> IF i \in ids THEN NoDebugRow ELSE debugRow[i]]

\* The bounded prune reads at most PruneLimit expired ids, in no order.
PruneReads ==
  /\ {} \in prunes
  /\ LET expired == {i \in Stored : ExpiredRow(i)} IN
       \E ids \in SUBSET expired :
         /\ Cardinality(ids) = IF Cardinality(expired) < PruneLimit
                               THEN Cardinality(expired) ELSE PruneLimit
         /\ prunes' = (prunes \ {{}}) \cup (IF ids = {} THEN {} ELSE {ids})
  /\ UNCHANGED <<debugNow, debugRow, usedIds, stamped, cursor, history, pages, timeline,
                 due>>

\* ... and deletes them by id, whatever they are by now.
PruneDeletes(ids) ==
  /\ ids # {}
  /\ debugRow' = Without(ids)
  /\ prunes' = prunes \ {ids}
  /\ UNCHANGED <<debugNow, usedIds, stamped, cursor, history, pages, timeline, due>>

\* A failed read or deletion is swallowed.
PruneFails(ids) ==
  /\ prunes' = prunes \ {ids}
  /\ UNCHANGED <<debugNow, debugRow, usedIds, stamped, cursor, history, pages, timeline,
                 due>>

\* The desk's "Clean expired" deletes by the condition itself.
PruneExpired ==
  /\ {i \in Stored : ExpiredRow(i)} # {}
  /\ debugRow' = Without({i \in Stored : ExpiredRow(i)})
  /\ UNCHANGED <<debugNow, usedIds, stamped, prunes, cursor, history, pages, timeline, due>>

\* The user's account is deleted: onDelete Cascade.
UserDeleted ==
  /\ Stored # {}
  /\ debugRow' = Without(Stored)
  /\ UNCHANGED <<debugNow, usedIds, stamped, prunes, cursor, history, pages, timeline, due>>

-----------------------------------------------------------------------------
(* The desk's list: newest first, by receivedAt and id.                     *)

Listable == {i \in Stored : LiveRow(i) /\ debugRow[i].matches}

Before(i, j) == \/ debugRow[i].at > debugRow[j].at
                \/ debugRow[i].at = debugRow[j].at /\ i > j

Place(i, S) == Cardinality({j \in S : Before(j, i)})

\* Prisma's cursor: the rows from the cursor row on, in the order of the
\* query; none at all when the cursor row is gone.  skip: 1 leaves out the
\* first of them, which is the cursor row only if it still matches.
FromCursor(c) == IF c \in Stored THEN {i \in Listable : i = c \/ Before(c, i)} ELSE {}

\* The cursor one row too far: the first row of the next page.
PageFromPeeked(S, skip) ==
  LET page == {i \in S : Place(i, S) \in skip..(skip + PageLimit)}
  IN [items |-> {i \in page : Place(i, S) < skip + PageLimit},
      next  |-> IF Cardinality(page) > PageLimit
                THEN CHOOSE i \in page : \A j \in page : j = i \/ Before(j, i)
                ELSE 0]

\* take: limit + 1 tells whether there is more; the page ends with limit.
PageFrom(S, skip) ==
  LET items == {i \in S : Place(i, S) \in skip..(skip + PageLimit - 1)}
  IN [items |-> items,
      next  |-> IF Cardinality(S) > skip + PageLimit
                THEN CHOOSE i \in items : \A j \in items : j = i \/ Before(j, i)
                ELSE 0]

ListEvents(c) == IF c = 0 THEN PageFrom(Listable, 0) ELSE PageFrom(FromCursor(c), 1)

\* What the page is a page of: the rows listed now, or none when its cursor
\* row is no longer one of them.
ListedFrom(c) == IF c = 0 \/ c \in Listable THEN Listable ELSE {}

\* What is due after a page came on show, if it is there to be shown: not its
\* rows, and no row that it is not a page of.
DueAfter(rows, page) == IF page = NoPage THEN rows ELSE (rows \cap page.of) \ page.items

\* useQuery fetches the page of the current cursor when it is first shown
\* and again whenever it counts as stale; what was fetched for other cursors
\* stays cached, and is shown, with its nextCursor, until it is fetched again.
FetchPage ==
  LET page == ListEvents(cursor) IN
  /\ timeline.of = 0
  /\ pages' = [pages EXCEPT ![cursor] = [items |-> page.items, next |-> page.next,
                                         of |-> ListedFrom(cursor)]]
  /\ due' = DueAfter(due, pages'[cursor])
  /\ StartPrune
  /\ UNCHANGED <<debugNow, debugRow, usedIds, stamped, cursor, history, timeline>>

HandleNext ==
  /\ timeline.of = 0
  /\ pages[cursor] # NoPage /\ pages[cursor].next # 0
  /\ history' = Append(history, cursor)
  /\ cursor' = pages[cursor].next
  /\ due' = DueAfter(due, pages[cursor'])
  /\ UNCHANGED <<debugNow, debugRow, usedIds, stamped, prunes, pages, timeline>>

HandlePrev ==
  /\ timeline.of = 0
  /\ history # <<>>
  /\ cursor' = history[Len(history)]
  /\ history' = SubSeq(history, 1, Len(history) - 1)
  /\ due' = DueAfter(due, pages[cursor'])
  /\ UNCHANGED <<debugNow, debugRow, usedIds, stamped, prunes, pages, timeline>>

\* A new walk, over those pages of the query that are still in the cache: none
\* after a reload or under a filter not used before, all of them when the desk
\* returns to the list or to a filter at once.
FirstPage ==
  /\ cursor' = 0
  /\ history' = <<>>
  /\ \E kept \in SUBSET (RowIds \cup {0}) :
       pages' = [c \in RowIds \cup {0} |-> IF c \in kept THEN pages[c] ELSE NoPage]
  /\ due' = DueAfter(RowIds, pages'[0])

HandleFilterChange ==
  /\ timeline.of = 0
  /\ FirstPage
  /\ UNCHANGED <<debugNow, debugRow, usedIds, stamped, prunes, timeline>>

-----------------------------------------------------------------------------
(* The event detail: the event and the earliest others of its correlation,  *)
(* in the order the client made them (here: the order of their ids).        *)

Earliest(S, n) == {i \in S : Cardinality({j \in S : j < i}) < n}

RelatedRows(i) == Earliest({j \in Stored : LiveRow(j)} \ {i}, TimelineSize - 1)

\* From the list any event is opened, from a detail its previous and next.
LinkedFromHere(i) == timeline.of # 0 => i \in timeline.shown

\* Opening an event, or the next one of its timeline, leaves the list, which
\* forgets its cursor and its history ...
GetEvent(i) ==
  /\ i \in Stored /\ LiveRow(i)
  /\ LinkedFromHere(i)
  /\ timeline' = [of |-> i, shown |-> Earliest({i} \cup RelatedRows(i), TimelineSize)]
  /\ cursor' = 0 /\ history' = <<>> /\ due' = RowIds
  /\ UNCHANGED <<debugNow, debugRow, usedIds, stamped, prunes, pages>>

\* ... until it is opened again.
BackToList ==
  /\ timeline.of # 0
  /\ timeline' = [of |-> 0, shown |-> {}]
  /\ FirstPage
  /\ UNCHANGED <<debugNow, debugRow, usedIds, stamped, prunes>>

DebugNext ==
  \/ \E batch \in SUBSET ClientEvents, m \in BOOLEAN : IngestBatch(batch, m)
  \/ ClockTicks \/ PruneReads \/ PruneExpired \/ UserDeleted
  \/ \E ids \in prunes : PruneDeletes(ids) \/ PruneFails(ids)
  \/ FetchPage \/ HandleNext \/ HandlePrev \/ HandleFilterChange
  \/ \E i \in RowIds : GetEvent(i)
  \/ BackToList

DebugSpec == DebugInit /\ [][DebugNext]_debugVars

-----------------------------------------------------------------------------

\* A prune that runs unattended and deletes by ids it has read earlier never
\* takes an event that is live when it is deleted, whatever was ingested
\* between the read and the deletion (developer-debug.service.ts
\* pruneExpiredBounded): expiry is never put off and ids are never reused.
PruneSparesLive ==
  [][ \A ids \in prunes :
        (prunes' = prunes \ {ids} /\ debugRow' # debugRow)
          => \A i \in ids : i \in Stored => ~LiveRow(i) ]_debugVars

\* When the desk has turned the pages to the end, every event that was listed
\* whenever a page it was shown had been fetched has been shown, although
\* events were received, changed and pruned in between, pages were fetched
\* again and some came from the cache of an earlier walk.  Not claimed: an
\* event newer than a cached page, and a walk one of whose cursor rows had gone
\* or stopped matching when its page was fetched (DeveloperDebugPage.tsx
\* handleNext, listEvents).
WalkMissesNothing ==
  (timeline.of = 0 /\ pages[cursor] # NoPage /\ pages[cursor].next = 0)
    => due = {}
=============================================================================
