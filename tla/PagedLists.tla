----------------------------- MODULE PagedLists -----------------------------
(***************************************************************************)
(* The lists the portal and the Caretaker Desk show page by page.  A page  *)
(* is asked for by its number: the server skips the rows before it, counts *)
(* the rows in a second statement and answers with both, while rows enter, *)
(* leave and move in the list.  The web application keeps the answer of    *)
(* every page, for a later walk through the list too, and offers Previous  *)
(* and Next from the one it shows.                                         *)
(*                                                                         *)
(* A filter is the set of rows that match; a list is known by the field it *)
(* is ordered by and by what may happen to its rows.                       *)
(***************************************************************************)
EXTENDS Naturals, FiniteSets

CONSTANTS ListIds,          \* rows of the table, by id
          PageSize,         \* rows on a page
          Directions,       \* sort directions asked for; the portal's is "desc"
          MaxListTime       \* bound on listClock

ASSUME ListAssumption ==
  /\ IsFiniteSet(ListIds) /\ ListIds \subseteq Nat /\ ListIds # {}
  /\ Directions \subseteq {"asc", "desc"}
  /\ PageSize \in Nat \ {0} /\ MaxListTime \in Nat \ {0}

VARIABLES list,             \* the list on show: its changes and its direction
          listClock,
          sortKey,          \* the field it is ordered by, 0: not in the list
          page,             \* the page on show
          answers,          \* the answer kept for a page, if any
          counting,         \* the reads whose count is pending
          tour              \* history: the walk since the list was last opened

listVars == <<list, listClock, sortKey, page, answers, counting, tour>>

-----------------------------------------------------------------------------
(* The lists.                                                               *)

\* Ordered by createdAt: rows enter and leave where they were created.
AssetPackList == {"enters", "leaves"}
FriendList == {"enters", "leaves"}
BlockList == {"enters", "leaves"}
AccountList == {"enters", "leaves"}
AdminAssetPackList == {"enters", "leaves"}

\* Ordered by the time of the last change, or of the last use: rows also move.
CompanionList == {"enters", "leaves", "moves"}
FriendRequestList == {"enters", "leaves", "moves"}
VisitList == {"enters", "leaves", "moves"}
DeviceList == {"enters", "leaves", "moves"}
AdminCompanionList == {"enters", "leaves", "moves"}
AdminVisitList == {"enters", "leaves", "moves"}

\* The two companions' bond is written by every moment; it goes with either
\* companion.
RelationshipList == {"enters", "leaves", "moves"}

\* The audit trail only grows.
AuditList == {"enters"}

Lists == {AssetPackList, FriendList, BlockList, AccountList, AdminAssetPackList,
          CompanionList, FriendRequestList, VisitList, DeviceList,
          AdminCompanionList, AdminVisitList, RelationshipList, AuditList}

-----------------------------------------------------------------------------
(* One answer.                                                              *)

TotalPages(total) == (total + PageSize - 1) \div PageSize

Pages == 1..TotalPages(Cardinality(ListIds))

Keys == [ListIds -> 0..MaxListTime]

InList(keys) == {i \in ListIds : keys[i] > 0}

Forward(a, b) == IF list.direction = "asc" THEN a < b ELSE b < a

TieUnbroken(i, j) == IF page = 1 THEN i < j ELSE j < i

\* Equal keys are ordered by id, in the same direction.
TieBreak(i, j) == Forward(i, j)

Ahead(keys, i, j) ==
  \/ Forward(keys[i], keys[j])
  \/ keys[i] = keys[j] /\ TieBreak(i, j)

\* How many rows of the list come before this one.
PlaceInList(keys, i) == Cardinality({j \in InList(keys) \ {i} : Ahead(keys, j, i)})

PageOf(keys, i) == PlaceInList(keys, i) \div PageSize + 1

OnPage(p) == {i \in InList(sortKey) : PageOf(sortKey, i) = p}

-----------------------------------------------------------------------------
\* A page's rows have been read, and then counted.  They are current until the
\* list changes; they are earlier when a walk that is over has read them and
\* the one under way has not shown them.
PageRead == [page : Pages, current : BOOLEAN, earlier : BOOLEAN]
PageAnswer == [total : 0..Cardinality(ListIds), current : BOOLEAN, earlier : BOOLEAN]

\* due: the rows the walk has still to show.
Tour == [began : BOOLEAN, due : SUBSET ListIds, slipped : BOOLEAN, outdated : BOOLEAN]

NoTour == [began |-> FALSE, due |-> {}, slipped |-> FALSE, outdated |-> FALSE]

NoAnswers == [p \in Pages |-> {}]

ListTypeOK ==
  /\ list \in [changes : Lists, direction : Directions]
  /\ listClock \in 1..MaxListTime
  /\ sortKey \in Keys
  /\ page \in Pages
  /\ answers \in [Pages -> SUBSET PageAnswer]
  /\ counting \subseteq PageRead
  /\ tour \in Tour

ListInit ==
  /\ list \in [changes : Lists, direction : Directions]
  /\ listClock = 1
  /\ sortKey \in [ListIds -> {0, 1}]
  /\ page = 1
  /\ answers = NoAnswers
  /\ counting = {}
  /\ tour = NoTour

-----------------------------------------------------------------------------
(* The list under way.                                                      *)

\* The walk after the list became keys: the changed rows count no more, nor
\* does a row that moved up onto an earlier page before it was seen.
TourAfter(keys, changed) ==
  LET slipping == {i \in tour.due \ changed : PageOf(keys, i) < PageOf(sortKey, i)}
  IN [tour EXCEPT !.due = @ \ (changed \cup slipping), !.slipped = @ \/ slipping # {}]

Outdated(kept) == {[a EXCEPT !.current = FALSE] : a \in kept}

Becomes(keys, changed) ==
  /\ sortKey' = keys
  /\ tour' = TourAfter(keys, changed)
  /\ answers' = [p \in Pages |-> Outdated(answers[p])]
  /\ counting' = Outdated(counting)
  /\ UNCHANGED <<list, listClock, page>>

\* A row is committed, or comes to match again, with the time it carries.
RowEnters(i) ==
  /\ "enters" \in list.changes /\ sortKey[i] = 0
  /\ \E key \in 1..listClock : Becomes([sortKey EXCEPT ![i] = key], {i})

\* A row is deleted, or no longer matches.
RowLeaves(i) ==
  /\ "leaves" \in list.changes /\ sortKey[i] > 0
  /\ Becomes([sortKey EXCEPT ![i] = 0], {i})

RowMoves(i) ==
  /\ "moves" \in list.changes /\ sortKey[i] > 0
  /\ Becomes([sortKey EXCEPT ![i] = listClock], {i})

ListTick ==
  /\ listClock < MaxListTime
  /\ listClock' = listClock + 1
  /\ UNCHANGED <<list, sortKey, page, answers, counting, tour>>

-----------------------------------------------------------------------------
(* The portal.                                                              *)

\* The walk once the rows on page p are read for it, its first page's first.
Reading(t, p) ==
  IF t.began THEN [t EXCEPT !.due = @ \ OnPage(p)]
  ELSE [NoTour EXCEPT !.began = TRUE, !.due = InList(sortKey) \ OnPage(p)]

\* The answer a comes on show: one of an earlier walk is as good as a read if
\* the list is as it was.
Showing(t, p, a) ==
  CASE ~a.earlier -> t
    [] a.earlier /\ a.current -> Reading(t, p)
    [] a.earlier /\ ~a.current -> [t EXCEPT !.began = TRUE, !.outdated = TRUE]

\* The page p comes on show with the answer kept for it, if there is one.
TurnTo(p, kept, t) ==
  /\ page' = p
  /\ answers' = [kept EXCEPT ![p] = {[a EXCEPT !.earlier = FALSE] : a \in kept[p]}]
  /\ IF kept[p] = {} THEN tour' = t ELSE \E a \in kept[p] : tour' = Showing(t, p, a)

\* findMany with skip and take.
ReadRows ==
  /\ \A read \in counting : read.page # page
  /\ counting' = counting \cup {[page |-> page, current |-> TRUE, earlier |-> FALSE]}
  /\ tour' = Reading(tour, page)
  /\ UNCHANGED <<list, listClock, sortKey, page, answers>>

\* count, and pageEnvelope: the answer is kept, and shown if it is for the page
\* on show.
CountRows ==
  \E read \in counting :
    LET answer == [total |-> TotalPages(Cardinality(InList(sortKey))),
                   current |-> read.current, earlier |-> read.earlier]
        kept == [answers EXCEPT ![read.page] = {answer}]
    IN /\ counting' = counting \ {read}
       /\ IF read.page = page THEN TurnTo(page, kept, tour)
          ELSE answers' = kept /\ UNCHANGED <<page, tour>>
       /\ UNCHANGED <<list, listClock, sortKey>>

\* The Pagination of the answer on show: no buttons on a single page.
Shown(total) == \E a \in answers[page] : a.total = total

NextPage ==
  /\ \E total \in Pages : Shown(total) /\ page < total
  /\ TurnTo(page + 1, answers, tour)
  /\ UNCHANGED <<list, listClock, sortKey, counting>>

PreviousPage ==
  /\ \E total \in Pages : Shown(total) /\ total > 1 /\ page > 1
  /\ TurnTo(page - 1, answers, tour)
  /\ UNCHANGED <<list, listClock, sortKey, counting>>

\* Another filter: the first page of rows not asked for yet.
ChangeFilter ==
  /\ page' = 1
  /\ answers' = NoAnswers
  /\ counting' = {}
  /\ tour' = NoTour
  /\ \E kept \in SUBSET ListIds :
       sortKey' = [i \in ListIds |-> IF i \in kept THEN sortKey[i] ELSE 0]
  /\ UNCHANGED <<list, listClock>>

Earlier(kept) == {[a EXCEPT !.earlier = TRUE] : a \in kept}

\* The list, or the same filter, is opened again: a new walk, over the answers
\* that are still in the cache; those under way arrive during it.
ReopenList ==
  /\ \E cached \in SUBSET Pages :
       TurnTo(1, [p \in Pages |-> IF p \in cached THEN Earlier(answers[p]) ELSE {}], NoTour)
  /\ counting' = Earlier(counting)
  /\ UNCHANGED <<list, listClock, sortKey>>

ListNext ==
  \/ \E i \in ListIds : RowEnters(i) \/ RowLeaves(i) \/ RowMoves(i)
  \/ ListTick \/ ReadRows \/ CountRows
  \/ NextPage \/ PreviousPage \/ ChangeFilter \/ ReopenList

ListSpec == ListInit /\ [][ListNext]_listVars

-----------------------------------------------------------------------------
\* A walk from the first page to the last shows every row that was in the list
\* when it began and stayed where it was, however many rows share a time and
\* however the list changes between a page's rows, its count and the next
\* page: unless the row moved up onto an earlier page before it was seen, which
\* only a row that leaves or moves can cause; the audit trail is shown whole.
\* Not claimed of a walk that was shown an answer which was read before it
\* began and which the list had changed since: main.tsx keeps answers for 20 s.
\* (stableOrderBy, boundedPage, pageEnvelope)
PagesMissNothing ==
  (~tour.outdated /\ \E total \in 0..page : Shown(total)) =>
    tour.due = {} /\ (tour.slipped => list.changes # AuditList)
=============================================================================
