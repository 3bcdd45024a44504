----------------------------- MODULE DataExport -----------------------------
(***************************************************************************)
(* The owner's data export: one JSON document streamed section by section, *)
(* each section read in batches that continue after the last row of the    *)
(* one before, the companions with their packs and their files nested in   *)
(* them.  Nothing isolates the export from the rest of the service: rows   *)
(* come and go between two batches.                                        *)
(*                                                                         *)
(* Rows are their ids; a deleted id never returns (uuid).  A generator     *)
(* that is suspended in the middle of a batch is a frame of the stack.     *)
(***************************************************************************)
EXTENDS Naturals, FiniteSets, FiniteSetsExt, Sequences

CONSTANTS ExportIds,       \* row ids: positive numbers
          Sections,        \* the tables at the top of the document, in order
          TableOf,         \* the table of each row
          ParentOf,        \* the row it is nested under, 0 at the top
          NestedIn,        \* table -> the table nested in its rows, or "none"
          BatchSize,       \* EXPORT_BATCH_SIZE
          MaxExportEdits   \* bound on inserts and deletions during the export

Tables == DOMAIN NestedIn

ASSUME ExportAssumption ==
  /\ IsFiniteSet(ExportIds) /\ ExportIds \subseteq Nat \ {0}
  /\ BatchSize \in Nat \ {0}
  \* Each table is a section of its own or nested in the rows of another one.
  /\ NestedIn \in [Tables -> Tables \cup {"none"}] /\ "none" \notin Tables
  /\ Sections \in Seq(Tables) /\ Sections # <<>>
  /\ \A m, n \in DOMAIN Sections : Sections[m] = Sections[n] => m = n
  /\ TableOf \in [ExportIds -> Tables] /\ ParentOf \in [ExportIds -> ExportIds \cup {0}]
  /\ \A i \in ExportIds :
       IF ParentOf[i] = 0 THEN \E n \in DOMAIN Sections : Sections[n] = TableOf[i]
                          ELSE NestedIn[TableOf[ParentOf[i]]] = TableOf[i]
  \* Three levels: the files of the packs of a companion.
  /\ \A i, j, k \in ExportIds : ParentOf[i] = j /\ ParentOf[j] = k => ParentOf[k] = 0

VARIABLES exportRow,       \* the rows that exist
          exportGone,      \* the rows that have existed
          exportState,     \* "idle", "streaming", "complete" or "failed"
          section,         \* the section being written
          stack,           \* generators under way, innermost last
          written,         \* the rows written so far, in order
          atStart,         \* history: the rows when the export began
          cut,             \* history: a cursor row was gone when its batch was read
          edits

exportVars == <<exportRow, exportGone, exportState, section, stack, written, atStart, cut, edits>>

Frame == [table : Tables, of : ExportIds \cup {0},
          after : ExportIds \cup {0}, todo : SUBSET ExportIds, more : BOOLEAN]

ExportTypeOK ==
  /\ exportRow \subseteq ExportIds /\ exportGone \subseteq ExportIds
  /\ exportState \in {"idle", "streaming", "complete", "failed"}
  /\ section \in 0..Len(Sections)
  /\ stack \in Seq(Frame)
  /\ written \in Seq(ExportIds)
  /\ atStart \subseteq ExportIds /\ cut \in BOOLEAN /\ edits \in 0..MaxExportEdits

NewFrame(table, of) ==
  [table |-> table, of |-> of, after |-> 0, todo |-> {}, more |-> TRUE]

ExportInit ==
  /\ exportRow = {}
  /\ exportGone = {}
  /\ exportState = "idle"
  /\ section = 0
  /\ stack = <<>>
  /\ written = <<>>
  /\ atStart = {}
  /\ cut = FALSE
  /\ edits = 0

-----------------------------------------------------------------------------
(* The rest of the service.                                                 *)

Orphans(rows) == {i \in rows : ParentOf[i] # 0 /\ ParentOf[i] \notin rows}
Cascade(rows) == LET once == rows \ Orphans(rows) IN once \ Orphans(once)

Edit ==
  /\ exportState = "streaming" => edits < MaxExportEdits
  /\ edits' = IF exportState = "streaming" THEN edits + 1 ELSE edits
  /\ exportState \in {"idle", "streaming"}
  /\ UNCHANGED <<exportState, section, stack, written, atStart, cut>>

InsertRow(i) ==
  /\ i \notin exportRow \cup exportGone
  /\ ParentOf[i] \in exportRow \cup {0}
  /\ exportRow' = exportRow \cup {i}
  /\ UNCHANGED exportGone
  /\ Edit

RemoveRows(rows) ==
  /\ rows # {}
  /\ exportRow' = Cascade(exportRow \ rows)
  /\ exportGone' = exportGone \cup (exportRow \ exportRow')
  /\ Edit

DeleteRow(i) == i \in exportRow /\ RemoveRows({i})

\* deleteNotifications, deleteSharedDiscoveries: every row of the owner's.
DeleteSection(table) == RemoveRows({i \in exportRow : TableOf[i] = table})

-----------------------------------------------------------------------------
(* The export.                                                              *)

Top == stack[Len(stack)]
ReplaceTop(frame) == [stack EXCEPT ![Len(stack)] = frame]

\* dataExport: the account is read before the stream starts.
StartExport ==
  /\ exportState = "idle"
  /\ exportState' = "streaming"
  /\ section' = 1
  /\ stack' = <<NewFrame(Sections[1], 0)>>
  /\ atStart' = exportRow
  /\ UNCHANGED <<exportRow, exportGone, written, cut, edits>>

RowsOf(frame) == {i \in exportRow : TableOf[i] = frame.table /\ ParentOf[i] = frame.of}
FirstOf(rows) == {i \in rows : Cardinality({j \in rows : j < i}) < BatchSize}

\* take, orderBy id, cursor and skip: 1.  No rows when the cursor row is gone.
ExportCursorPage(frame) ==
  FirstOf(IF frame.after = 0 THEN RowsOf(frame)
          ELSE IF frame.after \in exportRow
               THEN {i \in RowsOf(frame) : i > frame.after} ELSE {})

MoreAfterRounded(batch) == Cardinality(batch) > BatchSize

\* A batch that is not full is the last one.
MoreAfter(batch) == Cardinality(batch) = BatchSize

FetchBatch ==
  /\ exportState = "streaming"
  /\ Top.todo = {} /\ Top.more
  /\ LET batch == ExportCursorPage(Top) IN
       stack' = ReplaceTop([Top EXCEPT !.todo = batch, !.more = MoreAfter(batch),
                                       !.after = IF batch = {} THEN @ ELSE Max(batch)])
  /\ cut' = (cut \/ Top.after \notin exportRow \cup {0})
  /\ UNCHANGED <<exportRow, exportGone, exportState, section, written, atStart, edits>>

\* Writing a row; a companion goes on with its packs, a pack with its files.
WriteRow ==
  /\ exportState = "streaming"
  /\ Top.todo # {}
  /\ LET i    == Min(Top.todo)
         rest == ReplaceTop([Top EXCEPT !.todo = @ \ {i}])
         nested == NestedIn[Top.table]
     IN /\ written' = Append(written, i)
        /\ stack' = IF nested = "none" THEN rest ELSE Append(rest, NewFrame(nested, i))
  /\ UNCHANGED <<exportRow, exportGone, exportState, section, atStart, cut, edits>>

CloseArray ==
  /\ exportState = "streaming"
  /\ Top.todo = {} /\ ~Top.more
  /\ LET outer == SubSeq(stack, 1, Len(stack) - 1) IN
       \/ outer # <<>> /\ stack' = outer /\ UNCHANGED <<section, exportState>>
       \/ /\ outer = <<>> /\ section < Len(Sections)
          /\ section' = section + 1
          /\ stack' = <<NewFrame(Sections[section + 1], 0)>>
          /\ UNCHANGED exportState
       \/ /\ outer = <<>> /\ section = Len(Sections)     \* "complete": true
          /\ stack' = outer
          /\ exportState' = "complete"
          /\ UNCHANGED section
  /\ UNCHANGED <<exportRow, exportGone, written, atStart, cut, edits>>

\* A failing query, or a reader that goes away, ends the stream.
ExportFails ==
  /\ exportState = "streaming"
  /\ exportState' = "failed"
  /\ stack' = <<>>
  /\ UNCHANGED <<exportRow, exportGone, section, written, atStart, cut, edits>>

ExportNext ==
  \/ \E i \in ExportIds : InsertRow(i) \/ DeleteRow(i)
  \/ \E n \in DOMAIN Sections : NestedIn[Sections[n]] = "none" /\ DeleteSection(Sections[n])
  \/ StartExport \/ FetchBatch \/ WriteRow \/ CloseArray \/ ExportFails

ExportSpec == ExportInit /\ [][ExportNext]_exportVars

-----------------------------------------------------------------------------

\* No row is written twice, whatever is inserted or deleted between batches,
\* and a document that ends with "complete": true holds every row that existed
\* when it was begun and still does, nested rows included, unless the last row
\* of a full batch was deleted before the next batch was read: then the rest
\* of that array is missing and the document still says it is complete
\* (portal.service.ts exportRows, generateDataExport).
CompleteIsWhole ==
  /\ \A m, n \in DOMAIN written : written[m] = written[n] => m = n
  /\ exportState = "complete" /\ ~cut =>
       atStart \cap exportRow \subseteq {written[n] : n \in DOMAIN written}
=============================================================================
