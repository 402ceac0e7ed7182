---------------------------- MODULE StructureBackups ----------------------------
(***************************************************************************)
(* Changes of the structure of a workbook and their backups: the tool      *)
(* modify_structure (tools/modify-structure.ts), the states it keeps and   *)
(* the restore of one (workbook/recovery/structure-apply.ts and            *)
(* structure-capture.ts), which answers with the state that undoes it.     *)
(* How backups are stored and for how long is in RecoveryLog.              *)
(*                                                                         *)
(* The coordinator lets one tool or restore work at a time.  Each takes    *)
(* several context.sync(), between which the user types and deletes        *)
(* sheets.  A column behaves as a row does and is left out, and so are     *)
(* formulas, which are put back where a cell had one.                      *)
(***************************************************************************)
EXTENDS Naturals, Sequences, SequencesExt

CONSTANTS Names,       \* names of sheets
          Texts,       \* what the user may type into a row
          Blank,
          MaxRows,     \* rows of a sheet
          Spans,       \* what the agent inserts and deletes: first row and number of rows
          MaxCells,    \* MAX_RECOVERY_CELLS, a row being one cell
          MaxTools,    \* bound on the tools
          MaxChanges,  \* bound on the tools and restores
          MaxTyped,    \* bound on what the user does
          Starting,    \* the workbook at the start
          Gone         \* no sheet, workbook or data

ASSUME StructureAssumption ==
  /\ {MaxRows, MaxCells, MaxTools, MaxChanges, MaxTyped} \subseteq Nat
  /\ Spans \subseteq (1 .. MaxRows) \X (Nat \ {0})
  /\ Starting \in Seq([id : 1 .. Len(Starting), name : Names, visible : BOOLEAN,
                       rows : [1 .. MaxRows -> Texts \cup {Blank}]])
  /\ \A n, m \in DOMAIN Starting :
       n # m => Starting[n].id # Starting[m].id /\ Starting[n].name # Starting[m].name
  /\ \E n \in DOMAIN Starting : Starting[n].visible
  /\ Gone \notin [sheet : [id : Nat, name : Names, visible : BOOLEAN, rows : [1 .. MaxRows -> Texts \cup {Blank}]],
                  position : Nat]

VARIABLES
  workbook,  \* the sheets by position: id, name, visible, rows
  sheetIds,  \* number of ids given out: a sheet that is made again has a new one
  backups,   \* newest first: the state, the workbook it goes back to and the one
             \* its change left (Gone for one the user was in the way of)
  standing,  \* where the operation stands
  change,    \* the operation: of a tool or a restore, and the state it makes
  seen,      \* the sheet as it was loaded, and its position
  captured,  \* its data, read before the delete
  origin,    \* the workbook when the operation began; Gone once the user was in the way
  owed,      \* the workbook that a restore owes
  tools, changes, typed

structureVars == <<workbook, sheetIds, backups, standing, change, seen, captured, origin, owed, tools, changes, typed>>
bounds == <<tools, changes, typed>>

Rows == 1 .. MaxRows
NoData == [i \in {} |-> Blank]
NoStructureChange == [tool |-> FALSE, state |-> Gone]

\* RecoveryModifyStructureState.
NameState(s, name) == [kind |-> "sheet_name", id |-> s.id, name |-> name]
VisibilityState(s, visible) == [kind |-> "sheet_visibility", id |-> s.id, visible |-> visible]
SheetAbsent(s, allow) == [kind |-> "sheet_absent", id |-> s.id, name |-> s.name, allow |-> allow]
SheetPresent(s, position, data) ==
  [kind |-> "sheet_present", id |-> s.id, name |-> s.name, position |-> position, visible |-> s.visible, data |-> data]
RowsAbsent(s, first, count, allow) ==
  [kind |-> "rows_absent", id |-> s.id, first |-> first, count |-> count, allow |-> allow]
RowsPresent(s, first, count, data) ==
  [kind |-> "rows_present", id |-> s.id, first |-> first, count |-> count, data |-> data]

\* captureUsedRangeSnapshot: the rows from the first to the last with a value.
UsedRange(rows, area) ==
  LET full == {i \in area : rows[i] # Blank}
  IN  [i \in {j \in area : (\E k \in full : k <= j) /\ (\E k \in full : j <= k)} |-> rows[i]]

TooLarge(data) == \E i, j \in DOMAIN data : i + MaxCells <= j

\* The host inserts, deletes and fills rows.
Inserted(rows, first, count) ==
  [i \in Rows |-> IF i < first THEN rows[i] ELSE IF i < first + count THEN Blank ELSE rows[i - count]]
Removed(rows, first, count) ==
  [i \in Rows |-> IF i < first THEN rows[i] ELSE IF i + count <= MaxRows THEN rows[i + count] ELSE Blank]
Filled(rows, data) == [i \in Rows |-> IF i \in DOMAIN data THEN data[i] ELSE rows[i]]

\* Positions of sheets, 0 for none.
PlaceIn(sheets, id) == IF \E n \in DOMAIN sheets : sheets[n].id = id
                       THEN CHOOSE n \in DOMAIN sheets : sheets[n].id = id ELSE 0
PlaceOf(id) == PlaceIn(workbook, id)
PlaceByName(name) == IF \E n \in DOMAIN workbook : workbook[n].name = name
                     THEN CHOOSE n \in DOMAIN workbook : workbook[n].name = name ELSE 0

SomeVisible(sheets) == \E n \in DOMAIN sheets : sheets[n].visible

\* The user sees the same workbook: names, order, visibility and values.
Alike(sheets, others) ==
  /\ DOMAIN sheets = DOMAIN others
  /\ \A n \in DOMAIN sheets : [sheets[n] EXCEPT !.id = 0] = [others[n] EXCEPT !.id = 0]

StructureInit ==
  /\ workbook = Starting /\ sheetIds = Len(Starting)
  /\ backups = <<>> /\ standing = "idle" /\ change = NoStructureChange /\ seen = Gone /\ captured = Gone
  /\ origin = Gone /\ owed = Gone
  /\ tools = 0 /\ changes = 0 /\ typed = 0

-----------------------------------------------------------------------------
(* How an operation ends. *)

Idle == standing' = "idle" /\ change' = NoStructureChange /\ seen' = Gone /\ captured' = Gone /\ origin' = Gone

\* It is done, and the state that undoes it is the newest backup.  (The
\* workbook it leaves is settled before.)
DoneWith(state) ==
  /\ Idle
  /\ backups' = <<[state |-> state, goes |-> origin, from |-> IF origin = Gone THEN Gone ELSE workbook']>> \o backups
  /\ UNCHANGED <<owed, bounds>>

\* It has changed something of which there is no backup.
DoneWithout == Idle /\ UNCHANGED <<backups, owed, bounds>>

\* It throws before it has changed anything.
Refused == Idle /\ UNCHANGED <<workbook, sheetIds, backups, owed, bounds>>

-----------------------------------------------------------------------------
(* How one begins: the sheet is loaded. *)

\* What the agent may ask of modify_structure, as the state it makes; a copy of
\* a sheet is none.
OnSheet(s) ==
  {NameState(s, n) : n \in Names} \cup {VisibilityState(s, v) : v \in BOOLEAN}
  \cup {SheetAbsent(s, TRUE)}
  \cup {RowsAbsent(s, span[1], span[2], TRUE) : span \in Spans} \cup {RowsPresent(s, span[1], span[2], NoData) : span \in Spans}
  \cup {[kind |-> "copy", id |-> s.id, name |-> n] : n \in Names}

NewSheets == {SheetPresent([id |-> 0, name |-> n, visible |-> TRUE], Len(workbook) + 1, NoData) : n \in Names}

ToolStates == (UNION {OnSheet(workbook[n]) : n \in DOMAIN workbook}) \cup NewSheets

\* loadSheetById, loadSheetByIdOrName.
LoadedAt(state) ==
  IF PlaceOf(state.id) = 0 /\ (state.kind = "sheet_present" \/ (state.kind = "sheet_absent" /\ ~state.allow))
  THEN PlaceByName(state.name) ELSE PlaceOf(state.id)

LoadSheet(state, tool) ==
  LET at == LoadedAt(state) IN
  /\ standing' = "loaded" /\ change' = [tool |-> tool, state |-> state]
  /\ seen' = IF at = 0 THEN Gone ELSE [sheet |-> workbook[at], position |-> at]
  /\ origin' = workbook
  /\ UNCHANGED captured

BeginTool ==
  /\ standing = "idle" /\ tools < MaxTools /\ changes < MaxChanges
  /\ tools' = tools + 1 /\ changes' = changes + 1
  /\ \E state \in ToolStates : LoadSheet(state, TRUE)
  /\ owed' = Gone
  /\ UNCHANGED <<workbook, sheetIds, backups, typed>>

\* A restore owes the workbook its backup goes back to when it starts at the
\* one the change left and finds the sheet the change was about; it may not when
\* that one was made again by another restore and has an id the backup does not
\* know, or when the workbook looks the same but the sheets have changed places.
BeginRestore ==
  /\ standing = "idle" /\ changes < MaxChanges /\ changes' = changes + 1
  /\ \E n \in DOMAIN backups : LET b == backups[n] at == LoadedAt(b.state) IN
       /\ owed' = IF b.from # Gone /\ Alike(workbook, b.from) /\ at = PlaceIn(b.from, b.state.id)
                  THEN b.goes ELSE Gone
       \* No such sheet, or one with data in its place.
       /\ \/ /\ \/ at = 0 /\ b.state.kind \notin {"sheet_present", "sheet_absent"}
                \/ at # 0 /\ b.state.kind = "sheet_present" /\ b.state.data # NoData
             /\ UNCHANGED <<backups, standing, change, seen, captured, origin>>
          \* Nothing to delete: the state is its own opposite.
          \/ /\ at = 0 /\ b.state.kind = "sheet_absent"
             /\ backups' = <<[state |-> b.state, goes |-> workbook, from |-> workbook]>> \o backups
             /\ UNCHANGED <<standing, change, seen, captured, origin>>
          \/ /\ \/ at # 0 /\ ~(b.state.kind = "sheet_present" /\ b.state.data # NoData)
                \/ at = 0 /\ b.state.kind = "sheet_present"
             /\ LoadSheet(b.state, FALSE)
             /\ UNCHANGED backups
  /\ UNCHANGED <<workbook, sheetIds, tools, typed>>

Made == change.state
Loaded(kinds) == standing = "loaded" /\ Made.kind \in kinds
Target == PlaceOf(seen.sheet.id)

-----------------------------------------------------------------------------
(* Names and visibility.  Every step is one of a sheet that is still there;  *)
(* HostFails has the other case.                                             *)

\* The host has no name twice.
SetName ==
  /\ Loaded({"sheet_name"}) /\ Target # 0
  /\ IF PlaceByName(Made.name) \notin {0, Target} THEN Refused
     ELSE /\ workbook' = [workbook EXCEPT ![Target].name = Made.name]
          /\ DoneWith(NameState(seen.sheet, seen.sheet.name))
          /\ UNCHANGED sheetIds

\* The host shows at least one sheet.
SetVisibility ==
  /\ Loaded({"sheet_visibility"}) /\ Target # 0
  /\ LET shown == [workbook EXCEPT ![Target].visible = Made.visible] IN
     IF ~SomeVisible(shown) THEN Refused
     ELSE /\ workbook' = shown
          /\ DoneWith(VisibilityState(seen.sheet, seen.sheet.visible))
          /\ UNCHANGED sheetIds

\* A sheet that is there gets the name, position and visibility of one without
\* data, one after the other: an error in between leaves the earlier ones.
Overwrite ==
  /\ Loaded({"sheet_present"}) /\ ~change.tool /\ seen # Gone /\ Target # 0
  /\ LET named == [workbook EXCEPT ![Target].name = Made.name]
         moved == InsertAt(RemoveAt(named, Target), Made.position, named[Target])
         shown == [moved EXCEPT ![Made.position].visible = Made.visible]
     IN IF PlaceByName(Made.name) \notin {0, Target} THEN Refused
        ELSE /\ IF Made.position > Len(workbook) THEN workbook' = named /\ DoneWithout
                ELSE IF ~SomeVisible(shown) THEN workbook' = moved /\ DoneWithout
                ELSE workbook' = shown /\ DoneWith(SheetPresent(seen.sheet, seen.position, NoData))
             /\ UNCHANGED sheetIds

-----------------------------------------------------------------------------
(* Sheets and rows that appear. *)

\* worksheets.add, then the position and the visibility of the new sheet.
AddSheet ==
  /\ Loaded({"sheet_present"}) /\ (change.tool \/ seen = Gone)
  /\ LET new == [id |-> sheetIds + 1, name |-> Made.name, visible |-> Made.visible, rows |-> [i \in Rows |-> Blank]] IN
     IF PlaceByName(Made.name) # 0 THEN Refused
     ELSE /\ sheetIds' = sheetIds + 1
          /\ IF Made.position > Len(workbook) + 1
             THEN workbook' = Append(workbook, [new EXCEPT !.visible = TRUE]) /\ DoneWithout
             ELSE /\ workbook' = InsertAt(workbook, Made.position, new)
                  /\ IF Made.data = NoData THEN DoneWith(SheetAbsent(new, FALSE))
                     ELSE /\ standing' = "appeared" /\ seen' = [sheet |-> new, position |-> Made.position]
                          /\ UNCHANGED <<backups, change, captured, origin, owed, bounds>>

\* The host lets no value fall off the end of the sheet.
InsertRows ==
  /\ Loaded({"rows_present"}) /\ Target # 0
  /\ LET rows == workbook[Target].rows IN
     IF \E i \in Rows : Made.first <= i /\ i + Made.count > MaxRows /\ rows[i] # Blank THEN Refused
     ELSE /\ workbook' = [workbook EXCEPT ![Target].rows = Inserted(rows, Made.first, Made.count)]
          /\ IF Made.data = NoData THEN DoneWith(RowsAbsent(seen.sheet, Made.first, Made.count, FALSE))
             ELSE standing' = "appeared" /\ UNCHANGED <<backups, change, seen, captured, origin, owed, bounds>>
          /\ UNCHANGED sheetIds

\* Mutant of FillIn: what was filled in counts as data of the user.
FillInGuarded ==
  /\ standing = "appeared" /\ Target # 0
  /\ workbook' = [workbook EXCEPT ![Target].rows = Filled(@, Made.data)]
  /\ DoneWith(IF Made.kind = "sheet_present" THEN SheetAbsent(seen.sheet, FALSE)
              ELSE RowsAbsent(seen.sheet, Made.first, Made.count, FALSE))
  /\ UNCHANGED sheetIds

\* restoreStructureValueRange.  What appeared with data may go with data.
FillIn ==
  /\ standing = "appeared" /\ Target # 0
  /\ workbook' = [workbook EXCEPT ![Target].rows = Filled(@, Made.data)]
  /\ DoneWith(IF Made.kind = "sheet_present" THEN SheetAbsent(seen.sheet, TRUE)
              ELSE RowsAbsent(seen.sheet, Made.first, Made.count, TRUE))
  /\ UNCHANGED sheetIds

\* duplicate_sheet: the copy is the last sheet, and has a backup when it is empty.
Copy ==
  /\ Loaded({"copy"}) /\ Target # 0
  /\ LET new == [workbook[Target] EXCEPT !.id = sheetIds + 1, !.name = Made.name] IN
     IF PlaceByName(Made.name) # 0 THEN Refused
     ELSE /\ workbook' = Append(workbook, new) /\ sheetIds' = sheetIds + 1
          /\ standing' = "copied" /\ seen' = [sheet |-> new, position |-> Len(workbook) + 1]
          /\ UNCHANGED <<backups, change, captured, origin, owed, bounds>>

InspectCopy ==
  /\ standing = "copied" /\ Target # 0
  /\ UNCHANGED <<workbook, sheetIds>>
  /\ IF UsedRange(workbook[Target].rows, Rows) = NoData THEN DoneWith(SheetAbsent(seen.sheet, FALSE)) ELSE DoneWithout

-----------------------------------------------------------------------------
(* Sheets and rows that go. *)

Going == Loaded({"sheet_absent", "rows_absent"}) /\ Target # 0
Area == IF Made.kind = "sheet_absent" THEN Rows ELSE {i \in Rows : Made.first <= i /\ i < Made.first + Made.count}
DataThere == UsedRange(workbook[Target].rows, Area)

\* hasValueDataInSheet, hasValueDataInRange: a restore deletes no data but what
\* a restore has put there.
CheckData ==
  /\ Going /\ ~change.tool
  /\ IF DataThere # NoData /\ ~Made.allow THEN Refused
     ELSE /\ IF DataThere = NoData THEN standing' = "captured" /\ captured' = NoData
             ELSE standing' = "checked" /\ UNCHANGED captured
          /\ UNCHANGED <<workbook, sheetIds, backups, change, seen, origin, owed, bounds>>

\* captureSheetValueDataRange, captureValueDataRange.  A tool deletes without a
\* backup what is too large for one, a restore does not.
CaptureData ==
  /\ \/ Going /\ change.tool
     \/ standing = "checked" /\ Target # 0
  /\ IF ~change.tool /\ (TooLarge(DataThere) \/ DataThere = NoData) THEN Refused
     ELSE /\ standing' = "captured" /\ captured' = IF TooLarge(DataThere) THEN Gone ELSE DataThere
          /\ UNCHANGED <<workbook, sheetIds, backups, change, seen, origin, owed, bounds>>

DeleteNow ==
  /\ standing = "captured" /\ Target # 0
  /\ LET left == IF Made.kind = "sheet_absent" THEN RemoveAt(workbook, Target)
                 ELSE [workbook EXCEPT ![Target].rows = Removed(@, Made.first, Made.count)]
     IN IF ~SomeVisible(left) THEN Refused
        ELSE /\ workbook' = left
             /\ IF captured = Gone THEN DoneWithout
                ELSE DoneWith(IF Made.kind = "sheet_absent" THEN SheetPresent(seen.sheet, seen.position, captured)
                              ELSE RowsPresent(seen.sheet, Made.first, Made.count, captured))
             /\ UNCHANGED sheetIds

-----------------------------------------------------------------------------
(* What comes from outside. *)

\* A sync of the host fails, as while the user edits a cell or on a sheet that
\* has been deleted: the operation throws, with what it has changed.
HostFails ==
  /\ standing # "idle"
  /\ Idle /\ owed' = Gone
  /\ UNCHANGED <<workbook, sheetIds, backups, bounds>>

UserTypes ==
  /\ typed < MaxTyped /\ typed' = typed + 1
  /\ \/ \E n \in DOMAIN workbook, i \in Rows, text \in Texts \cup {Blank} :
          workbook' = [workbook EXCEPT ![n].rows[i] = text]
     \/ \E n \in DOMAIN workbook : workbook' = RemoveAt(workbook, n) /\ SomeVisible(workbook')
  /\ origin' = Gone /\ owed' = Gone
  /\ UNCHANGED <<sheetIds, backups, standing, change, seen, captured, tools, changes>>

StructureStep ==
  \/ SetName \/ SetVisibility \/ Overwrite
  \/ AddSheet \/ InsertRows \/ FillIn \/ Copy \/ InspectCopy
  \/ CheckData \/ CaptureData \/ DeleteNow

StructureNext == BeginTool \/ BeginRestore \/ StructureStep \/ HostFails \/ UserTypes

StructureSpec == StructureInit /\ [][StructureNext]_structureVars

-----------------------------------------------------------------------------
(* Properties. *)

SheetStates == [id : 1 .. sheetIds, name : Names, visible : BOOLEAN, rows : [Rows -> Texts \cup {Blank}]]
Captures == UNION {[rows -> Texts \cup {Blank}] : rows \in SUBSET Rows}

\* Who would restore a state finds in it what its kind takes.
StateKinds ==
  {"sheet_name", "sheet_visibility", "sheet_absent", "sheet_present", "rows_absent", "rows_present", "copy"}

Stated(state) ==
  /\ state.kind \in StateKinds
  /\ state.kind \in {"sheet_name", "sheet_present", "copy"} => state.name \in Names
  /\ state.kind \in {"sheet_visibility", "sheet_present"} => state.visible \in BOOLEAN
  /\ state.kind \in {"rows_absent", "rows_present"} => state.first \in Rows /\ state.count \in Nat \ {0}
  /\ state.kind = "sheet_present" => state.position \in Nat \ {0}
  /\ state.kind \in {"sheet_present", "rows_present"} => state.data \in Captures

StructureTypeOK ==
  /\ workbook \in Seq(SheetStates) /\ SomeVisible(workbook)
  /\ \A n, m \in DOMAIN workbook : n # m => workbook[n].id # workbook[m].id /\ workbook[n].name # workbook[m].name
  /\ standing \in {"idle", "loaded", "appeared", "copied", "checked", "captured"}
  /\ captured \in {Gone} \cup Captures
  /\ seen = Gone \/ seen.sheet \in SheetStates
  /\ \A n \in DOMAIN backups : Stated(backups[n].state)
  /\ Len(backups) <= changes /\ tools <= changes /\ changes <= MaxChanges /\ typed <= MaxTyped

\* A restore that starts at the workbook the change has left, whatever came and
\* was undone in between, succeeds and ends at the workbook before the change:
\* applyModifyStructureState and the state it answers with are opposites, and so
\* are the tools and the states they keep.
UndoUndoes == standing = "idle" /\ owed # Gone => Alike(workbook, owed)

=================================================================================
