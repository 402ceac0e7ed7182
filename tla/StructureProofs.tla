--------------------------- MODULE StructureProofs ----------------------------
(***************************************************************************)
(* Changes of the structure of a workbook and their backups, for any       *)
(* workbook, names, texts, spans and limits.                               *)
(*                                                                         *)
(* StructureInv: ids and names of sheets are each their own, one sheet is  *)
(* visible, an operation under way has sighted the sheet it is about, and  *)
(* whatever is kept in a backup is enough to restore it.                   *)
(*                                                                         *)
(* UndoInv: Reverses relates a state to a workbook it is restored in and   *)
(* to the one the restore gives.  Every backup relates the workbook its    *)
(* change left to the one before (BackupsReverse); Apart says how far an   *)
(* operation under way has come from the workbook it began with, and Ahead *)
(* how far a restore still is from the one it owes.                        *)
(***************************************************************************)
EXTENDS StructureBackups, ListTheorems

-----------------------------------------------------------------------------
(* StructureBackups *)

-----------------------------------------------------------------------------
(* The workbook *)

(* No two sheets have one id or one name, and one is visible.               *)
Distinct(sheets) ==
  /\ IsInjective(sheets)
  /\ \A s, t \in ToSet(sheets) : s # t => s.id # t.id /\ s.name # t.name

Visible(sheets) == \E s \in ToSet(sheets) : s.visible

WorkbookTypes ==
  /\ sheetIds \in Nat
  /\ workbook \in Seq(SheetStates) /\ Distinct(workbook) /\ Visible(workbook)

Sighted == seen.sheet \in SheetStates /\ seen.position \in Nat \ {0}

(* At each await: what the operation makes, and that its sheet was found.   *)
OperationTypes ==
  /\ standing \in {"idle", "loaded", "appeared", "copied", "checked", "captured"}
  /\ change.tool \in BOOLEAN
  /\ standing # "idle" => Stated(Made)
  /\ seen = Gone \/ Sighted
  /\ standing = "loaded" /\ Made.kind # "sheet_present" => Sighted
  /\ standing = "appeared" => Made.kind \in {"sheet_present", "rows_present"} /\ Sighted
  /\ standing = "copied" => Sighted
  /\ standing \in {"checked", "captured"} => Made.kind \in {"sheet_absent", "rows_absent"} /\ Sighted
  /\ captured \in {Gone} \cup Captures

BackupTypes ==
  /\ backups \in Seq(ToSet(backups))
  /\ \A b \in ToSet(backups) : Stated(b.state)
  /\ Len(backups) + (IF standing = "idle" THEN 0 ELSE 1) <= changes
  /\ tools \in Nat /\ changes \in Nat /\ typed \in Nat
  /\ tools <= changes /\ changes <= MaxChanges /\ typed <= MaxTyped

StructureInv == WorkbookTypes /\ OperationTypes /\ BackupTypes

-----------------------------------------------------------------------------
(* Sheets in a list of sheets *)

(* A sheet is visible at a place or as one of the list.                     *)
LEMMA VisibleIs ==
  ASSUME NEW S, NEW sheets \in Seq(S)
  PROVE  SomeVisible(sheets) <=> Visible(sheets)
<1>1. DOMAIN sheets = 1..Len(sheets)
  OBVIOUS
<1>2. ToSet(sheets) = {sheets[n] : n \in DOMAIN sheets}
  BY DEF ToSet
<1> QED BY <1>2 DEF SomeVisible, Visible

ByPlace(sheets) ==
  \A n, m \in 1..Len(sheets) : n # m => sheets[n].id # sheets[m].id /\ sheets[n].name # sheets[m].name

LEMMA DistinctIs ==
  ASSUME NEW S, NEW sheets \in Seq(S)
  PROVE  Distinct(sheets) <=> ByPlace(sheets)
<1>1. DOMAIN sheets = 1..Len(sheets)
  OBVIOUS
<1>2. ToSet(sheets) = {sheets[n] : n \in 1..Len(sheets)}
  BY <1>1 DEF ToSet
<1>3. ASSUME Distinct(sheets), NEW n \in 1..Len(sheets), NEW m \in 1..Len(sheets), n # m
      PROVE  sheets[n].id # sheets[m].id /\ sheets[n].name # sheets[m].name
  <2>1. sheets[n] # sheets[m] /\ sheets[n] \in ToSet(sheets) /\ sheets[m] \in ToSet(sheets)
    BY <1>1, <1>2, <1>3 DEF Distinct, IsInjective
  <2> QED BY <1>3, <2>1 DEF Distinct
<1>4. ASSUME \A n, m \in 1..Len(sheets) : n # m => sheets[n].id # sheets[m].id /\ sheets[n].name # sheets[m].name
      PROVE  Distinct(sheets)
  <2>1. IsInjective(sheets)
    BY <1>1, <1>4 DEF IsInjective
  <2>2. ASSUME NEW s \in ToSet(sheets), NEW t \in ToSet(sheets), s # t PROVE s.id # t.id /\ s.name # t.name
    <3>1. PICK n \in 1..Len(sheets) : s = sheets[n]
      BY <1>2
    <3>2. PICK m \in 1..Len(sheets) : t = sheets[m]
      BY <1>2
    <3> QED BY <1>4, <2>2, <3>1, <3>2
  <2> QED BY <2>1, <2>2 DEF Distinct
<1> QED BY <1>3, <1>4 DEF ByPlace

(* No sheet but the one at a place has the name.                            *)
Others(sheets, i, name) == \A n \in 1..Len(sheets) : n # i => sheets[n].name # name

(* The list with another sheet at a place.                                  *)
PutSheet(sheets, i, e) == [sheets EXCEPT ![i] = e]

(* What the list keeps when one sheet is renamed, revealed, hidden or filled.  *)
LEMMA SheetChanged ==
  ASSUME NEW S, NEW sheets \in Seq(S), Distinct(sheets), NEW i \in 1..Len(sheets), NEW e \in S,
         e.id = sheets[i].id, Others(sheets, i, e.name)
  PROVE  /\ PutSheet(sheets, i, e) \in Seq(S) /\ Distinct(PutSheet(sheets, i, e)) /\ Len(PutSheet(sheets, i, e)) = Len(sheets)
         /\ e.visible = sheets[i].visible /\ Visible(sheets) => Visible(PutSheet(sheets, i, e))
         /\ SomeVisible(PutSheet(sheets, i, e)) => Visible(PutSheet(sheets, i, e))
<1> DEFINE w == PutSheet(sheets, i, e)
<1>1. /\ w \in Seq(S) /\ Len(w) = Len(sheets) /\ w[i] = e
      /\ \A n \in 1..Len(sheets) : n # i => w[n] = sheets[n]
  BY ExceptAt DEF PutSheet
<1> HIDE DEF w
<1>2. \A n, m \in 1..Len(sheets) : n # m => sheets[n].id # sheets[m].id /\ sheets[n].name # sheets[m].name
  BY DistinctIs DEF ByPlace
<1>3. ASSUME NEW n \in 1..Len(sheets), NEW m \in 1..Len(sheets), n # m
      PROVE  w[n].id # w[m].id /\ w[n].name # w[m].name
  <2>1. CASE n = i
    BY <1>1, <1>2, <1>3, <2>1 DEF Others
  <2>2. CASE m = i
    BY <1>1, <1>2, <1>3, <2>2 DEF Others
  <2>3. CASE n # i /\ m # i
    BY <1>1, <1>2, <1>3, <2>3
  <2> QED BY <2>1, <2>2, <2>3
<1>4. Distinct(w)
  <2>1. ByPlace(w)
    BY <1>1, <1>3 DEF ByPlace
  <2> QED BY <1>1, <2>1, DistinctIs
<1>5. DOMAIN w = 1..Len(sheets) /\ DOMAIN sheets = 1..Len(sheets)
  BY <1>1
<1>6. ToSet(w) = {w[n] : n \in 1..Len(sheets)} /\ ToSet(sheets) = {sheets[n] : n \in 1..Len(sheets)}
  BY <1>5 DEF ToSet
<1>7. ASSUME e.visible = sheets[i].visible, Visible(sheets) PROVE Visible(w)
  <2>1. PICK n \in 1..Len(sheets) : sheets[n].visible
    BY <1>6, <1>7 DEF Visible
  <2>2. w[n].visible
    BY <1>1, <1>7, <2>1
  <2> QED BY <1>6, <2>2 DEF Visible
<1>9. SomeVisible(w) => Visible(w)
  BY <1>1, VisibleIs
<1> QED BY <1>1, <1>4, <1>7, <1>9 DEF w

LEMMA SheetGone ==
  ASSUME NEW S, NEW sheets \in Seq(S), Distinct(sheets), NEW i \in 1..Len(sheets)
  PROVE  LET w == RemoveAt(sheets, i) IN
         /\ w \in Seq(S) /\ Distinct(w) /\ Len(w) = Len(sheets) - 1 /\ ToSet(w) = ToSet(sheets) \ {sheets[i]}
         /\ SomeVisible(w) => Visible(w)
<1> DEFINE w == RemoveAt(sheets, i)
<1>1. /\ w \in Seq(S) /\ Len(w) = Len(sheets) - 1
      /\ IsInjective(w) /\ ToSet(w) = ToSet(sheets) \ {sheets[i]}
  BY RemoveAtLeaves DEF Distinct
<1> HIDE DEF w
<1>2. Distinct(w)
  BY <1>1 DEF Distinct
<1> QED BY <1>1, <1>2, VisibleIs DEF w

LEMMA SheetAdded ==
  ASSUME NEW S, NEW sheets \in Seq(S), Distinct(sheets), NEW i \in 1..(Len(sheets) + 1), NEW e \in S,
         \A s \in ToSet(sheets) : s.id # e.id /\ s.name # e.name
  PROVE  LET w == InsertAt(sheets, i, e) IN
         /\ w \in Seq(S) /\ Distinct(w) /\ Len(w) = Len(sheets) + 1 /\ ToSet(w) = ToSet(sheets) \cup {e}
         /\ Visible(sheets) => Visible(w)
         /\ \A n \in 1..(Len(sheets) + 1) : n = i => w[n] = e
<1> DEFINE w == InsertAt(sheets, i, e)
<1>0. e \notin ToSet(sheets)
  OBVIOUS
<1>1. /\ w \in Seq(S) /\ Len(w) = Len(sheets) + 1
      /\ IsInjective(w) /\ ToSet(w) = ToSet(sheets) \cup {e}
  BY <1>0, InsertAtAdds DEF Distinct
<1>2. \A n \in 1..(Len(sheets) + 1) : n = i => w[n] = e
  BY InsertAtIs
<1> HIDE DEF w
<1>3. Distinct(w)
  BY <1>1 DEF Distinct
<1>4. Visible(sheets) => Visible(w)
  BY <1>1 DEF Visible
<1> QED BY <1>1, <1>2, <1>3, <1>4 DEF w

LEMMA SheetAppended ==
  ASSUME NEW S, NEW sheets \in Seq(S), Distinct(sheets), NEW e \in S,
         \A s \in ToSet(sheets) : s.id # e.id /\ s.name # e.name
  PROVE  LET w == Append(sheets, e) IN
         w \in Seq(S) /\ Distinct(w) /\ (Visible(sheets) => Visible(w))
<1> DEFINE w == Append(sheets, e)
<1>0. e \notin ToSet(sheets)
  OBVIOUS
<1>1. w \in Seq(S) /\ IsInjective(w) /\ ToSet(w) = ToSet(sheets) \cup {e}
  BY <1>0, AppendAdds DEF Distinct
<1> HIDE DEF w
<1> QED BY <1>1 DEF Distinct, Visible, w
-----------------------------------------------------------------------------
(* What the host and the captures make of rows                              *)

Cells == Texts \cup {Blank}

LEMMA RowsOf ==
  /\ NoData \in Captures
  /\ \A rows \in [Rows -> Cells], area \in SUBSET Rows : UsedRange(rows, area) \in Captures
  /\ \A rows \in [Rows -> Cells], data \in Captures : Filled(rows, data) \in [Rows -> Cells]
  /\ \A rows \in [Rows -> Cells], first \in Rows, count \in Nat \ {0} :
       Inserted(rows, first, count) \in [Rows -> Cells] /\ Removed(rows, first, count) \in [Rows -> Cells]
<1>1. NoData \in Captures
  <2>1. NoData \in [{} -> Cells] /\ {} \in SUBSET Rows
    BY DEF NoData
  <2> QED BY <2>1 DEF Captures, Cells
<1>2. ASSUME NEW rows \in [Rows -> Cells], NEW area \in SUBSET Rows PROVE UsedRange(rows, area) \in Captures
  <2> DEFINE full == {i \in area : rows[i] # Blank}
             D == {j \in area : (\E k \in full : k <= j) /\ (\E k \in full : j <= k)}
  <2>1. UsedRange(rows, area) = [i \in D |-> rows[i]]
    BY DEF UsedRange
  <2>2. D \in SUBSET Rows
    OBVIOUS
  <2> HIDE DEF D, full
  <2>3. UsedRange(rows, area) \in [D -> Cells]
    BY <2>1, <2>2
  <2> QED BY <2>2, <2>3 DEF Captures, Cells
<1>3. ASSUME NEW rows \in [Rows -> Cells], NEW data \in Captures PROVE Filled(rows, data) \in [Rows -> Cells]
  <2>1. PICK D \in SUBSET Rows : data \in [D -> Cells]
    BY DEF Captures, Cells
  <2> QED BY <2>1 DEF Filled
<1>4. ASSUME NEW rows \in [Rows -> Cells], NEW first \in Rows, NEW count \in Nat \ {0}
      PROVE  Inserted(rows, first, count) \in [Rows -> Cells] /\ Removed(rows, first, count) \in [Rows -> Cells]
  <2> USE StructureAssumption DEF StructureAssumption
  <2>0. MaxRows \in Nat
    OBVIOUS
  <2>1. ASSUME NEW i \in Rows
        PROVE  (IF i < first THEN rows[i] ELSE IF i < first + count THEN Blank ELSE rows[i - count]) \in Cells
    <3>1. ~(i < first) /\ ~(i < first + count) => i - count \in Rows
      BY <2>0 DEF Rows
    <3> QED BY <3>1 DEF Cells
  <2>2. ASSUME NEW i \in Rows
        PROVE  (IF i < first THEN rows[i] ELSE IF i + count <= MaxRows THEN rows[i + count] ELSE Blank) \in Cells
    <3>1. i + count <= MaxRows => i + count \in Rows
      BY <2>0 DEF Rows
    <3> QED BY <3>1 DEF Cells
  <2> QED BY <2>1, <2>2 DEF Inserted, Removed
<1> QED BY <1>1, <1>2, <1>3, <1>4

-----------------------------------------------------------------------------
(* Places                                                                   *)

LEMMA PlaceFound ==
  ASSUME WorkbookTypes, NEW id, PlaceOf(id) # 0
  PROVE  /\ PlaceOf(id) \in 1..Len(workbook) /\ workbook[PlaceOf(id)] \in SheetStates
         /\ workbook[PlaceOf(id)].id = id
<1>1. \E n \in DOMAIN workbook : workbook[n].id = id
  BY DEF PlaceOf, PlaceIn
<1>2. PlaceOf(id) = CHOOSE n \in DOMAIN workbook : workbook[n].id = id
  BY <1>1 DEF PlaceOf, PlaceIn
<1>3. PlaceOf(id) \in DOMAIN workbook /\ workbook[PlaceOf(id)].id = id
  BY <1>1, <1>2, Zenon
<1>4. workbook \in Seq(SheetStates) /\ DOMAIN workbook = 1..Len(workbook)
  BY DEF WorkbookTypes
<1> QED BY <1>3, <1>4, ItemAt

LEMMA NamePlaced ==
  ASSUME WorkbookTypes, NEW name, PlaceByName(name) # 0
  PROVE  /\ PlaceByName(name) \in 1..Len(workbook) /\ workbook[PlaceByName(name)] \in SheetStates
         /\ workbook[PlaceByName(name)].name = name
<1>1. \E n \in DOMAIN workbook : workbook[n].name = name
  BY DEF PlaceByName
<1>2. PlaceByName(name) = CHOOSE n \in DOMAIN workbook : workbook[n].name = name
  BY <1>1 DEF PlaceByName
<1>3. PlaceByName(name) \in DOMAIN workbook /\ workbook[PlaceByName(name)].name = name
  BY <1>1, <1>2, Zenon
<1>4. workbook \in Seq(SheetStates) /\ DOMAIN workbook = 1..Len(workbook)
  BY DEF WorkbookTypes
<1> QED BY <1>3, <1>4, ItemAt

(* The host refuses a name that another sheet has.                          *)
Unused(name, t) == PlaceByName(name) = 0 \/ PlaceByName(name) = t

LEMMA NameFree ==
  ASSUME WorkbookTypes, NEW name, NEW t, Unused(name, t)
  PROVE  Others(workbook, t, name)
<1>1. DOMAIN workbook = 1..Len(workbook) /\ workbook \in Seq(SheetStates)
  BY DEF WorkbookTypes
<1> SUFFICES ASSUME NEW n \in 1..Len(workbook), n # t, workbook[n].name = name PROVE FALSE
  BY DEF Others
<1>2. PlaceByName(name) = CHOOSE m \in DOMAIN workbook : workbook[m].name = name
  BY <1>1 DEF PlaceByName
<1>3. PlaceByName(name) \in DOMAIN workbook /\ workbook[PlaceByName(name)].name = name
  BY <1>1, <1>2, Zenon
<1>4. PlaceByName(name) = t
  BY <1>1, <1>3 DEF Unused
<1>5. workbook[t].name # workbook[n].name
  BY <1>1, <1>3, <1>4, DistinctIs DEF WorkbookTypes, ByPlace
<1> QED BY <1>3, <1>4, <1>5

LEMMA TargetFound ==
  ASSUME WorkbookTypes, Target # 0
  PROVE  /\ Target \in 1..Len(workbook) /\ workbook[Target] \in SheetStates
         /\ workbook[Target].id = seen.sheet.id
BY PlaceFound DEF Target
-----------------------------------------------------------------------------
(* The workbook at each step                                                *)

LEMMA SheetsGrow ==
  ASSUME WorkbookTypes, sheetIds' \in {sheetIds, sheetIds + 1}
  PROVE  SheetStates \subseteq SheetStates' /\ (sheetIds' = sheetIds => SheetStates' = SheetStates)
<1>1. 1..sheetIds \subseteq 1..sheetIds'
  BY DEF WorkbookTypes
<1>2. SheetStates' = [id : 1..sheetIds', name : Names, visible : BOOLEAN, rows : [Rows -> Texts \cup {Blank}]]
  BY DEF SheetStates
<1> QED BY <1>1, <1>2 DEF SheetStates

LEMMA WorkbookAfter ==
  ASSUME WorkbookTypes, NEW w \in Seq(SheetStates), Distinct(w), Visible(w), workbook' = w, sheetIds' = sheetIds
  PROVE  WorkbookTypes'
BY SheetsGrow DEF WorkbookTypes

LEMMA SheetUpdates ==
  ASSUME NEW e \in SheetStates
  PROVE  /\ \A name \in Names : /\ [e EXCEPT !.name = name] \in SheetStates
                               /\ [e EXCEPT !.name = name].id = e.id /\ [e EXCEPT !.name = name].name = name
                               /\ [e EXCEPT !.name = name].visible = e.visible
         /\ \A visible \in BOOLEAN : /\ [e EXCEPT !.visible = visible] \in SheetStates
                                    /\ [e EXCEPT !.visible = visible].id = e.id
                                    /\ [e EXCEPT !.visible = visible].name = e.name
         /\ \A rows \in [Rows -> Cells] : /\ [e EXCEPT !.rows = rows] \in SheetStates
                                         /\ [e EXCEPT !.rows = rows].id = e.id
                                         /\ [e EXCEPT !.rows = rows].name = e.name
                                         /\ [e EXCEPT !.rows = rows].visible = e.visible
BY DEF SheetStates, Cells

(* Rows of one sheet change, by the tool, by a restore or under the user.   *)
LEMMA RowsChanged ==
  ASSUME WorkbookTypes, NEW i \in 1..Len(workbook), NEW rows \in [Rows -> Cells]
  PROVE  LET w == [workbook EXCEPT ![i].rows = rows] IN
         w \in Seq(SheetStates) /\ Distinct(w) /\ Visible(w)
<1> DEFINE e == [workbook[i] EXCEPT !.rows = rows]
<1>1. workbook \in Seq(SheetStates) /\ workbook[i] \in SheetStates /\ Distinct(workbook) /\ Visible(workbook)
  BY ItemAt DEF WorkbookTypes
<1>2. e \in SheetStates /\ e.id = workbook[i].id /\ e.name = workbook[i].name /\ e.visible = workbook[i].visible
  BY <1>1, SheetUpdates
<1>3. [workbook EXCEPT ![i].rows = rows] = [workbook EXCEPT ![i] = e]
  OBVIOUS
<1> HIDE DEF e
<1>4. Others(workbook, i, e.name)
  BY <1>1, <1>2, DistinctIs DEF ByPlace, Others
<1> DEFINE w == [workbook EXCEPT ![i].rows = rows]
<1>5. w = PutSheet(workbook, i, e)
  BY <1>3 DEF PutSheet
<1> HIDE DEF w
<1>6. w \in Seq(SheetStates) /\ Distinct(w) /\ Visible(w)
  BY <1>1, <1>2, <1>4, <1>5, SheetChanged
<1> QED BY <1>6 DEF w

(* A sheet is renamed: by the tool, or as a restore takes its place.        *)
LEMMA SheetRenamed ==
  ASSUME WorkbookTypes, NEW i \in 1..Len(workbook), NEW name \in Names, Unused(name, i)
  PROVE  LET e == [workbook[i] EXCEPT !.name = name]
             w == [workbook EXCEPT ![i].name = name] IN
         /\ w \in Seq(SheetStates) /\ Distinct(w) /\ Visible(w) /\ Len(w) = Len(workbook) /\ w[i] = e
         /\ e \in SheetStates
<1> DEFINE e == [workbook[i] EXCEPT !.name = name]
           w == [workbook EXCEPT ![i].name = name]
<1>1. workbook \in Seq(SheetStates) /\ workbook[i] \in SheetStates /\ Distinct(workbook) /\ Visible(workbook)
  BY ItemAt DEF WorkbookTypes
<1>2. e \in SheetStates /\ e.id = workbook[i].id /\ e.name = name /\ e.visible = workbook[i].visible
  BY <1>1, SheetUpdates
<1>3. w = PutSheet(workbook, i, e)
  BY DEF PutSheet
<1>4. w[i] = e
  BY <1>1
<1> HIDE DEF e, w
<1>5. Others(workbook, i, e.name)
  BY <1>2, NameFree
<1>6. w \in Seq(SheetStates) /\ Distinct(w) /\ Visible(w) /\ Len(w) = Len(workbook)
  <2>1. e \in SheetStates /\ e.id = workbook[i].id /\ e.visible = workbook[i].visible
    BY <1>2
  <2>2. w \in Seq(SheetStates) /\ Distinct(w) /\ Len(w) = Len(workbook) /\ (Visible(workbook) => Visible(w))
    BY <1>1, <1>3, <1>5, <2>1, SheetChanged
  <2> QED BY <1>1, <2>2
<1> QED BY <1>2, <1>4, <1>6 DEF e, w

LEMMA SetNameWorkbook ==
  ASSUME WorkbookTypes, OperationTypes, SetName PROVE WorkbookTypes'
<1>1. CASE workbook' = workbook /\ sheetIds' = sheetIds
  BY <1>1, SheetsGrow DEF WorkbookTypes
<1>2. CASE /\ PlaceByName(Made.name) \in {0, Target} /\ sheetIds' = sheetIds
           /\ workbook' = [workbook EXCEPT ![Target].name = Made.name]
  <2>1. Target # 0 /\ Made.name \in Names /\ Unused(Made.name, Target)
    BY <1>2 DEF SetName, Loaded, OperationTypes, Stated, Unused
  <2>2. Target \in 1..Len(workbook)
    BY <2>1, TargetFound
  <2>7. workbook' \in Seq(SheetStates) /\ Distinct(workbook') /\ Visible(workbook')
    BY <1>2, <2>1, <2>2, SheetRenamed
  <2> QED BY <1>2, <2>7, SheetsGrow DEF WorkbookTypes
<1> QED BY <1>1, <1>2 DEF SetName, Refused

LEMMA SetVisibilityWorkbook ==
  ASSUME WorkbookTypes, OperationTypes, SetVisibility PROVE WorkbookTypes'
<1>1. CASE workbook' = workbook /\ sheetIds' = sheetIds
  BY <1>1, SheetsGrow DEF WorkbookTypes
<1>2. CASE /\ sheetIds' = sheetIds /\ workbook' = [workbook EXCEPT ![Target].visible = Made.visible]
           /\ SomeVisible(workbook')
  <2> DEFINE e == [workbook[Target] EXCEPT !.visible = Made.visible]
  <2>1. Target # 0 /\ Made.visible \in BOOLEAN
    BY DEF SetVisibility, Loaded, OperationTypes, Stated
  <2>2. Target \in 1..Len(workbook) /\ workbook[Target] \in SheetStates
    BY <2>1, TargetFound
  <2>3. e \in SheetStates /\ e.id = workbook[Target].id /\ e.name = workbook[Target].name
    BY <2>1, <2>2, SheetUpdates
  <2>4. workbook' = [workbook EXCEPT ![Target] = e]
    BY <1>2
  <2> HIDE DEF e
  <2>6. workbook \in Seq(SheetStates) /\ Distinct(workbook) /\ Visible(workbook)
    BY DEF WorkbookTypes
  <2>5. Others(workbook, Target, e.name)
    BY <2>2, <2>3, <2>6, DistinctIs DEF ByPlace, Others
  <2> DEFINE w == workbook'
  <2>a. w = PutSheet(workbook, Target, e) /\ SomeVisible(w)
    BY <1>2, <2>4 DEF PutSheet
  <2> HIDE DEF w
  <2>b. w \in Seq(SheetStates) /\ Distinct(w) /\ Visible(w)
    BY <2>2, <2>3, <2>a, <2>5, <2>6, SheetChanged
  <2>7. workbook' \in Seq(SheetStates) /\ Distinct(workbook') /\ Visible(workbook')
    BY <2>b DEF w
  <2> QED BY <1>2, <2>7, SheetsGrow DEF WorkbookTypes
<1> QED BY <1>1, <1>2 DEF SetVisibility, Refused

(* A sheet that takes the place of a backup: renamed, moved, revealed.         *)
LEMMA OverwriteWorkbook ==
  ASSUME WorkbookTypes, OperationTypes, Overwrite PROVE WorkbookTypes'
<1> DEFINE e == [workbook[Target] EXCEPT !.name = Made.name]
           named == [workbook EXCEPT ![Target].name = Made.name]
           left == RemoveAt(named, Target)
           moved == InsertAt(left, Made.position, named[Target])
           revealed == [moved EXCEPT ![Made.position].visible = Made.visible]
<1>0. /\ Target # 0 /\ Made.name \in Names /\ Made.visible \in BOOLEAN /\ Made.position \in Nat \ {0}
      /\ Len(workbook) \in Nat
  BY DEF Overwrite, Loaded, OperationTypes, Stated, WorkbookTypes
<1>1. CASE workbook' = workbook /\ sheetIds' = sheetIds
  BY <1>1, SheetsGrow DEF WorkbookTypes
<1>2. CASE /\ PlaceByName(Made.name) \in {0, Target} /\ sheetIds' = sheetIds
           /\ \/ workbook' = named
              \/ Made.position <= Len(workbook) /\ workbook' = moved
              \/ Made.position <= Len(workbook) /\ workbook' = revealed /\ SomeVisible(revealed)
  <2>1. Target \in 1..Len(workbook) /\ workbook[Target] \in SheetStates
    BY <1>0, TargetFound
  <2>2. e \in SheetStates /\ e.name = Made.name
    BY <1>0, <2>1, SheetUpdates
  <2>4. Unused(Made.name, Target)
    BY <1>2 DEF Unused
  <2>7. named \in Seq(SheetStates) /\ Distinct(named) /\ Visible(named) /\ Len(named) = Len(workbook)
    BY <1>0, <2>1, <2>4, SheetRenamed
  <2>5. named[Target] = e
    BY <1>0, <2>1, <2>4, SheetRenamed
  <2> HIDE DEF e, named
  <2>8. /\ left \in Seq(SheetStates) /\ Distinct(left) /\ Len(left) = Len(workbook) - 1
        /\ ToSet(left) = ToSet(named) \ {e}
    BY <2>1, <2>5, <2>7, SheetGone
  <2>9. e \in ToSet(named)
    BY <2>1, <2>5, <2>7 DEF ToSet
  <2>10. \A s \in ToSet(left) : s.id # e.id /\ s.name # e.name
    BY <2>7, <2>8, <2>9 DEF Distinct
  <2>11. ASSUME Made.position <= Len(workbook)
         PROVE  /\ moved \in Seq(SheetStates) /\ Distinct(moved) /\ Len(moved) = Len(workbook)
                /\ ToSet(moved) = ToSet(named) /\ moved[Made.position] = e
    <3> HIDE DEF left
    <3>1. Made.position \in 1..(Len(left) + 1) /\ Len(left) + 1 = Len(workbook)
      BY <1>0, <2>8, <2>11
    <3>2. /\ moved \in Seq(SheetStates) /\ Distinct(moved) /\ Len(moved) = Len(left) + 1
          /\ ToSet(moved) = ToSet(left) \cup {e} /\ moved[Made.position] = e
      BY <2>2, <2>5, <2>8, <2>10, <3>1, SheetAdded
    <3> HIDE DEF moved
    <3> QED BY <2>8, <2>9, <3>1, <3>2
  <2> HIDE DEF left, moved
  <2>12. ASSUME Made.position <= Len(workbook) PROVE Visible(moved)
    BY <2>7, <2>11, <2>12 DEF Visible
  <2>13. ASSUME Made.position <= Len(workbook), SomeVisible(revealed)
         PROVE  revealed \in Seq(SheetStates) /\ Distinct(revealed) /\ Visible(revealed)
    <3> DEFINE f == [e EXCEPT !.visible = Made.visible]
               p == Made.position
    <3>1. p \in 1..Len(moved) /\ moved \in Seq(SheetStates) /\ Distinct(moved) /\ moved[p] = e
      BY <1>0, <2>11, <2>13
    <3>2. f \in SheetStates /\ f.id = moved[p].id /\ f.name = moved[p].name
      BY <1>0, <2>2, <3>1, SheetUpdates
    <3>3. revealed = PutSheet(moved, p, f)
      BY <3>1 DEF PutSheet
    <3> HIDE DEF f, p, revealed
    <3>4. Others(moved, p, f.name)
      BY <3>1, <3>2, DistinctIs DEF ByPlace, Others
    <3> QED BY <2>13, <3>1, <3>2, <3>3, <3>4, SheetChanged
  <2> HIDE DEF revealed
  <2>14. workbook' \in Seq(SheetStates) /\ Distinct(workbook') /\ Visible(workbook')
    BY <1>2, <2>7, <2>11, <2>12, <2>13
  <2> QED BY <1>2, <2>14, SheetsGrow DEF WorkbookTypes
<1>3. \/ workbook' = workbook /\ sheetIds' = sheetIds
      \/ /\ PlaceByName(Made.name) \in {0, Target} /\ sheetIds' = sheetIds
         /\ \/ workbook' = named
            \/ ~(Made.position > Len(workbook)) /\ workbook' = moved
            \/ ~(Made.position > Len(workbook)) /\ workbook' = revealed /\ SomeVisible(revealed)
  <2> HIDE DEF named
  <2> QED BY DEF Overwrite, Refused, left, moved, revealed, named
<1> HIDE DEF named, moved, revealed
<1> QED BY <1>0, <1>1, <1>2, <1>3
(* A new sheet has an id and a name of its own.                             *)
LEMMA NewSheet ==
  ASSUME WorkbookTypes, sheetIds' = sheetIds + 1, NEW e \in SheetStates', e.id = sheetIds + 1,
         PlaceByName(e.name) = 0
  PROVE  /\ workbook \in Seq(SheetStates') /\ Distinct(workbook) /\ Visible(workbook)
         /\ \A s \in ToSet(workbook) : s.id # e.id /\ s.name # e.name
<1>1. SheetStates \subseteq SheetStates' /\ workbook \in Seq(SheetStates) /\ sheetIds \in Nat
  BY SheetsGrow DEF WorkbookTypes
<1>2. workbook \in Seq(SheetStates')
  BY <1>1, ListsOfMore
<1>3. ASSUME NEW s \in ToSet(workbook) PROVE s.id # e.id /\ s.name # e.name
  <2>1. PICK n \in 1..Len(workbook) : s = workbook[n]
    BY <1>1 DEF ToSet
  <2>2. s \in SheetStates
    BY <1>1, <2>1, ItemAt
  <2>3. s.id \in 1..sheetIds
    BY <2>2 DEF SheetStates
  <2>4. Unused(e.name, 0)
    BY DEF Unused
  <2>5. Others(workbook, 0, e.name)
    BY <2>4, NameFree
  <2>6. s.name # e.name
    BY <1>1, <2>1, <2>5 DEF Others
  <2> QED BY <1>1, <2>3, <2>6
<1> QED BY <1>2, <1>3 DEF WorkbookTypes

LEMMA AddSheetWorkbook ==
  ASSUME WorkbookTypes, OperationTypes, AddSheet PROVE WorkbookTypes'
<1> DEFINE new == [id |-> sheetIds + 1, name |-> Made.name, visible |-> Made.visible, rows |-> [r \in Rows |-> Blank]]
           plain == [new EXCEPT !.visible = TRUE]
<1>0. Made.name \in Names /\ Made.visible \in BOOLEAN /\ Made.position \in Nat \ {0} /\ Len(workbook) \in Nat /\ sheetIds \in Nat
  BY DEF AddSheet, Loaded, OperationTypes, Stated, WorkbookTypes
<1>1. CASE workbook' = workbook /\ sheetIds' = sheetIds
  BY <1>1, SheetsGrow DEF WorkbookTypes
<1>2. CASE /\ PlaceByName(Made.name) = 0 /\ sheetIds' = sheetIds + 1
           /\ \/ workbook' = Append(workbook, plain)
              \/ Made.position <= Len(workbook) + 1 /\ workbook' = InsertAt(workbook, Made.position, new)
  <2>1. new \in SheetStates' /\ plain \in SheetStates'
    <3>1. sheetIds + 1 \in 1..sheetIds'
      BY <1>0, <1>2
    <3>2. SheetStates' = [id : 1..sheetIds', name : Names, visible : BOOLEAN, rows : [Rows -> Texts \cup {Blank}]]
      BY DEF SheetStates
    <3> QED BY <1>0, <3>1, <3>2
  <2>2. new.id = sheetIds + 1 /\ new.name = Made.name /\ plain.id = sheetIds + 1 /\ plain.name = Made.name
    OBVIOUS
  <2> HIDE DEF new, plain
  <2>3. /\ workbook \in Seq(SheetStates') /\ Distinct(workbook) /\ Visible(workbook)
        /\ \A s \in ToSet(workbook) : s.id # new.id /\ s.name # new.name
    BY <1>2, <2>1, <2>2, NewSheet
  <2>4. \A s \in ToSet(workbook) : s.id # plain.id /\ s.name # plain.name
    BY <2>2, <2>3
  <2>5. CASE workbook' = Append(workbook, plain)
    <3>1. workbook' \in Seq(SheetStates') /\ Distinct(workbook') /\ Visible(workbook')
      BY <2>1, <2>3, <2>4, <2>5, SheetAppended
    <3> QED BY <1>0, <1>2, <3>1 DEF WorkbookTypes
  <2>6. CASE Made.position <= Len(workbook) + 1 /\ workbook' = InsertAt(workbook, Made.position, new)
    <3>1. Made.position \in 1..(Len(workbook) + 1)
      BY <1>0, <2>6
    <3>2. workbook' \in Seq(SheetStates') /\ Distinct(workbook') /\ Visible(workbook')
      BY <2>1, <2>3, <2>6, <3>1, SheetAdded
    <3> QED BY <1>0, <1>2, <3>2 DEF WorkbookTypes
  <2> QED BY <1>2, <2>5, <2>6
<1>3. \/ workbook' = workbook /\ sheetIds' = sheetIds
      \/ /\ PlaceByName(Made.name) = 0 /\ sheetIds' = sheetIds + 1
         /\ \/ workbook' = Append(workbook, plain)
            \/ ~(Made.position > Len(workbook) + 1) /\ workbook' = InsertAt(workbook, Made.position, new)
  BY Zenon DEF AddSheet, Refused, new, plain
<1> HIDE DEF new, plain
<1>4. ~(Made.position > Len(workbook) + 1) => Made.position <= Len(workbook) + 1
  BY <1>0
<1> QED BY <1>1, <1>2, <1>3, <1>4

LEMMA CopyWorkbook ==
  ASSUME WorkbookTypes, OperationTypes, Copy PROVE WorkbookTypes'
<1> DEFINE new == [workbook[Target] EXCEPT !.id = sheetIds + 1, !.name = Made.name]
<1>0. Made.name \in Names /\ sheetIds \in Nat /\ Target # 0
  BY DEF Copy, Loaded, OperationTypes, Stated, WorkbookTypes
<1>1. CASE workbook' = workbook /\ sheetIds' = sheetIds
  BY <1>1, SheetsGrow DEF WorkbookTypes
<1>2. CASE PlaceByName(Made.name) = 0 /\ sheetIds' = sheetIds + 1 /\ workbook' = Append(workbook, new)
  <2>0. workbook[Target] \in SheetStates
    BY <1>0, TargetFound
  <2>1. new \in SheetStates' /\ new.id = sheetIds + 1 /\ new.name = Made.name
    <3>1. sheetIds + 1 \in 1..sheetIds'
      BY <1>0, <1>2
    <3>2. SheetStates' = [id : 1..sheetIds', name : Names, visible : BOOLEAN, rows : [Rows -> Texts \cup {Blank}]]
      BY DEF SheetStates
    <3> QED BY <1>0, <2>0, <3>1, <3>2 DEF SheetStates
  <2> HIDE DEF new
  <2>2. /\ workbook \in Seq(SheetStates') /\ Distinct(workbook) /\ Visible(workbook)
        /\ \A s \in ToSet(workbook) : s.id # new.id /\ s.name # new.name
    BY <1>2, <2>1, NewSheet
  <2>3. workbook' \in Seq(SheetStates') /\ Distinct(workbook') /\ Visible(workbook')
    BY <1>2, <2>1, <2>2, SheetAppended
  <2> QED BY <1>0, <1>2, <2>3 DEF WorkbookTypes
<1> QED BY <1>1, <1>2 DEF Copy, Refused

LEMMA RowsWorkbook ==
  ASSUME WorkbookTypes, OperationTypes, InsertRows \/ FillIn PROVE WorkbookTypes'
<1>1. CASE workbook' = workbook /\ sheetIds' = sheetIds
  BY <1>1, SheetsGrow DEF WorkbookTypes
<1>2. CASE sheetIds' = sheetIds /\ \E i \in 1..Len(workbook), rows \in [Rows -> Cells] :
                workbook' = [workbook EXCEPT ![i].rows = rows]
  <2>1. PICK i \in 1..Len(workbook), rows \in [Rows -> Cells] : workbook' = [workbook EXCEPT ![i].rows = rows]
    BY <1>2
  <2>2. workbook' \in Seq(SheetStates) /\ Distinct(workbook') /\ Visible(workbook')
    BY <2>1, RowsChanged
  <2> QED BY <1>2, <2>2, SheetsGrow DEF WorkbookTypes
<1>3. Target \in 1..Len(workbook) /\ workbook[Target].rows \in [Rows -> Cells]
  <2>1. Target # 0
    BY DEF InsertRows, FillIn
  <2> QED BY <2>1, TargetFound DEF SheetStates, Cells
<1>4. ASSUME InsertRows, ~(workbook' = workbook)
      PROVE  sheetIds' = sheetIds /\ workbook' = [workbook EXCEPT ![Target].rows = Inserted(workbook[Target].rows, Made.first, Made.count)]
  BY <1>4 DEF InsertRows, Refused
<1>5. ASSUME InsertRows PROVE sheetIds' = sheetIds /\ Made.first \in Rows /\ Made.count \in Nat \ {0}
  BY <1>5 DEF InsertRows, Loaded, Refused, OperationTypes, Stated
<1>6. ASSUME InsertRows PROVE Inserted(workbook[Target].rows, Made.first, Made.count) \in [Rows -> Cells]
  BY <1>3, <1>5, <1>6, RowsOf
<1>7. ASSUME FillIn
      PROVE  /\ sheetIds' = sheetIds /\ Made.data \in Captures
             /\ workbook' = [workbook EXCEPT ![Target].rows = Filled(workbook[Target].rows, Made.data)]
  BY <1>7 DEF FillIn, OperationTypes, Stated
<1>8. ASSUME FillIn PROVE Filled(workbook[Target].rows, Made.data) \in [Rows -> Cells]
  BY <1>3, <1>7, <1>8, RowsOf
<1> QED BY <1>1, <1>2, <1>3, <1>4, <1>5, <1>6, <1>7, <1>8

LEMMA DeleteWorkbook ==
  ASSUME WorkbookTypes, OperationTypes, DeleteNow PROVE WorkbookTypes'
<1> DEFINE rows == Removed(workbook[Target].rows, Made.first, Made.count)
<1>1. CASE workbook' = workbook /\ sheetIds' = sheetIds
  BY <1>1, SheetsGrow DEF WorkbookTypes
<1>2. Target \in 1..Len(workbook) /\ workbook[Target].rows \in [Rows -> Cells]
  <2>1. Target # 0
    BY DEF DeleteNow
  <2> QED BY <2>1, TargetFound DEF SheetStates, Cells
<1>3. CASE sheetIds' = sheetIds /\ workbook' = RemoveAt(workbook, Target) /\ SomeVisible(workbook')
  <2>1. workbook \in Seq(SheetStates) /\ Distinct(workbook)
    BY DEF WorkbookTypes
  <2>2. workbook' \in Seq(SheetStates) /\ Distinct(workbook') /\ Visible(workbook')
    BY <1>2, <1>3, <2>1, SheetGone
  <2> QED BY <1>3, <2>2, SheetsGrow DEF WorkbookTypes
<1>4. CASE sheetIds' = sheetIds /\ Made.kind # "sheet_absent" /\ workbook' = [workbook EXCEPT ![Target].rows = rows]
  <2>1. Made.first \in Rows /\ Made.count \in Nat \ {0}
    BY <1>4 DEF DeleteNow, OperationTypes, Stated
  <2>2. rows \in [Rows -> Cells]
    BY <1>2, <2>1, RowsOf
  <2> HIDE DEF rows
  <2>3. workbook' \in Seq(SheetStates) /\ Distinct(workbook') /\ Visible(workbook')
    BY <1>2, <1>4, <2>2, RowsChanged
  <2> QED BY <1>4, <2>3, SheetsGrow DEF WorkbookTypes
<1> QED BY <1>1, <1>3, <1>4 DEF DeleteNow, Refused

LEMMA UserWorkbook ==
  ASSUME WorkbookTypes, UserTypes PROVE WorkbookTypes'
<1>0. DOMAIN workbook = 1..Len(workbook) /\ workbook \in Seq(SheetStates) /\ Distinct(workbook) /\ sheetIds' = sheetIds
  BY DEF WorkbookTypes, UserTypes
<1>1. ASSUME NEW n \in DOMAIN workbook, NEW i \in Rows, NEW text \in Texts \cup {Blank},
             workbook' = [workbook EXCEPT ![n].rows[i] = text]
      PROVE  WorkbookTypes'
  <2> DEFINE rows == [workbook[n].rows EXCEPT ![i] = text]
  <2>1. n \in 1..Len(workbook) /\ workbook[n] \in SheetStates
    BY <1>0, ItemAt
  <2>2. rows \in [Rows -> Cells]
    BY <2>1 DEF SheetStates, Cells
  <2>3. workbook' = [workbook EXCEPT ![n].rows = rows]
    BY <1>1
  <2> HIDE DEF rows
  <2>4. workbook' \in Seq(SheetStates) /\ Distinct(workbook') /\ Visible(workbook')
    BY <2>1, <2>2, <2>3, RowsChanged
  <2> QED BY <1>0, <2>4, SheetsGrow DEF WorkbookTypes
<1>2. ASSUME NEW n \in DOMAIN workbook, workbook' = RemoveAt(workbook, n), SomeVisible(workbook')
      PROVE  WorkbookTypes'
  <2>1. workbook' \in Seq(SheetStates) /\ Distinct(workbook') /\ Visible(workbook')
    BY <1>0, <1>2, SheetGone
  <2> QED BY <1>0, <2>1, SheetsGrow DEF WorkbookTypes
<1> QED BY <1>1, <1>2 DEF UserTypes

LEMMA WorkbookStep ==
  ASSUME WorkbookTypes, OperationTypes, [StructureNext]_structureVars
  PROVE  WorkbookTypes' /\ sheetIds' \in {sheetIds, sheetIds + 1}
<1>1. CASE workbook' = workbook /\ sheetIds' = sheetIds
  BY <1>1, SheetsGrow DEF WorkbookTypes
<1>2. BeginTool \/ BeginRestore \/ CheckData \/ CaptureData \/ InspectCopy \/ HostFails \/ UNCHANGED structureVars
      => workbook' = workbook /\ sheetIds' = sheetIds
  BY DEF BeginTool, BeginRestore, CheckData, CaptureData, InspectCopy, HostFails, structureVars, Refused
<1>3. SetName \/ SetVisibility \/ Overwrite \/ InsertRows \/ FillIn \/ DeleteNow \/ UserTypes => sheetIds' = sheetIds
  BY DEF SetName, SetVisibility, Overwrite, InsertRows, FillIn, DeleteNow, UserTypes, Refused
<1>4. AddSheet \/ Copy => sheetIds' \in {sheetIds, sheetIds + 1}
  BY DEF AddSheet, Copy, Refused
<1> QED
  BY <1>1, <1>2, <1>3, <1>4, SetNameWorkbook, SetVisibilityWorkbook, OverwriteWorkbook, AddSheetWorkbook,
     CopyWorkbook, RowsWorkbook, DeleteWorkbook, UserWorkbook DEF StructureNext, StructureStep
-----------------------------------------------------------------------------
(* The operation at each step                                               *)

LEMMA StatesOf ==
  /\ \A s, name : name \in Names => Stated(NameState(s, name))
  /\ \A s, visible : visible \in BOOLEAN => Stated(VisibilityState(s, visible))
  /\ \A s, allow : Stated(SheetAbsent(s, allow))
  /\ \A s, position, data :
       s.name \in Names /\ s.visible \in BOOLEAN /\ position \in Nat \ {0} /\ data \in Captures
       => Stated(SheetPresent(s, position, data))
  /\ \A s, first, count, allow : first \in Rows /\ count \in Nat \ {0} => Stated(RowsAbsent(s, first, count, allow))
  /\ \A s, first, count, data :
       first \in Rows /\ count \in Nat \ {0} /\ data \in Captures => Stated(RowsPresent(s, first, count, data))
<1>1. ASSUME NEW s, NEW name \in Names PROVE Stated(NameState(s, name))
  BY DEF Stated, NameState, StateKinds
<1>2. ASSUME NEW s, NEW visible \in BOOLEAN PROVE Stated(VisibilityState(s, visible))
  BY DEF Stated, VisibilityState, StateKinds
<1>3. ASSUME NEW s, NEW allow PROVE Stated(SheetAbsent(s, allow))
  BY DEF Stated, SheetAbsent, StateKinds
<1>4. ASSUME NEW s, NEW position \in Nat \ {0}, NEW data \in Captures, s.name \in Names, s.visible \in BOOLEAN
      PROVE  Stated(SheetPresent(s, position, data))
  BY <1>4 DEF Stated, SheetPresent, StateKinds
<1>5. ASSUME NEW s, NEW first \in Rows, NEW count \in Nat \ {0}, NEW allow PROVE Stated(RowsAbsent(s, first, count, allow))
  BY DEF Stated, RowsAbsent, StateKinds
<1>6. ASSUME NEW s, NEW first \in Rows, NEW count \in Nat \ {0}, NEW data \in Captures
      PROVE  Stated(RowsPresent(s, first, count, data))
  BY DEF Stated, RowsPresent, StateKinds
<1> QED BY <1>1, <1>2, <1>3, <1>4, <1>5, <1>6

(* The agent asks for something of a sheet that is there, or for a new one. *)
LEMMA ToolStated ==
  ASSUME WorkbookTypes, NEW state \in ToolStates
  PROVE  Stated(state) /\ (state.kind = "sheet_present" \/ LoadedAt(state) # 0)
<1>0. DOMAIN workbook = 1..Len(workbook) /\ Len(workbook) \in Nat /\ workbook \in Seq(SheetStates)
  BY DEF WorkbookTypes
<1>1. ASSUME NEW n \in DOMAIN workbook, state.id = workbook[n].id PROVE LoadedAt(state) # 0
  <2>1. PlaceOf(state.id) = CHOOSE m \in DOMAIN workbook : workbook[m].id = state.id
    BY <1>1 DEF PlaceOf, PlaceIn
  <2>2. PlaceOf(state.id) \in DOMAIN workbook
    BY <1>1, <2>1, Zenon
  <2>3. PlaceOf(state.id) # 0
    BY <1>0, <2>2
  <2> QED BY <2>3 DEF LoadedAt
<1>2. ASSUME NEW name \in Names, state = SheetPresent([id |-> 0, name |-> name, visible |-> TRUE], Len(workbook) + 1, NoData)
      PROVE  Stated(state) /\ state.kind = "sheet_present"
  <2> DEFINE s == [id |-> 0, name |-> name, visible |-> TRUE]
  <2>1. s.name \in Names /\ s.visible \in BOOLEAN
    OBVIOUS
  <2>2. state.kind = "sheet_present"
    BY <1>2 DEF SheetPresent
  <2> HIDE DEF s
  <2>3. Stated(SheetPresent(s, Len(workbook) + 1, NoData))
    BY <1>0, <2>1, StatesOf, RowsOf
  <2> QED BY <1>2, <2>2, <2>3 DEF s
<1>3. ASSUME NEW n \in DOMAIN workbook, NEW name \in Names, state = NameState(workbook[n], name)
      PROVE  Stated(state) /\ state.id = workbook[n].id
  BY <1>3, StatesOf DEF NameState
<1>4. ASSUME NEW n \in DOMAIN workbook, NEW v \in BOOLEAN, state = VisibilityState(workbook[n], v)
      PROVE  Stated(state) /\ state.id = workbook[n].id
  BY <1>4, StatesOf DEF VisibilityState
<1>5. ASSUME NEW n \in DOMAIN workbook, state = SheetAbsent(workbook[n], TRUE)
      PROVE  Stated(state) /\ state.id = workbook[n].id
  BY <1>5, StatesOf DEF SheetAbsent
<1>6. ASSUME NEW n \in DOMAIN workbook, NEW span \in Spans, state = RowsAbsent(workbook[n], span[1], span[2], TRUE)
      PROVE  Stated(state) /\ state.id = workbook[n].id
  <2>1. span[1] \in Rows /\ span[2] \in Nat \ {0}
    BY StructureAssumption DEF StructureAssumption, Rows
  <2> QED BY <1>6, <2>1, StatesOf DEF RowsAbsent
<1>7. ASSUME NEW n \in DOMAIN workbook, NEW span \in Spans, state = RowsPresent(workbook[n], span[1], span[2], NoData)
      PROVE  Stated(state) /\ state.id = workbook[n].id
  <2>1. span[1] \in Rows /\ span[2] \in Nat \ {0}
    BY StructureAssumption DEF StructureAssumption, Rows
  <2> QED BY <1>7, <2>1, StatesOf, RowsOf DEF RowsPresent
<1>8. ASSUME NEW n \in DOMAIN workbook, NEW name \in Names, state = [kind |-> "copy", id |-> workbook[n].id, name |-> name]
      PROVE  Stated(state) /\ state.id = workbook[n].id
  BY <1>8 DEF Stated, StateKinds
<1>9. ASSUME NEW n \in DOMAIN workbook, state \in OnSheet(workbook[n])
      PROVE  Stated(state) /\ state.id = workbook[n].id
  BY <1>3, <1>4, <1>5, <1>6, <1>7, <1>8, <1>9, Zenon DEF OnSheet
<1>10. CASE state \in UNION {OnSheet(workbook[n]) : n \in DOMAIN workbook}
  <2>1. PICK n \in DOMAIN workbook : state \in OnSheet(workbook[n])
    BY <1>10
  <2>2. Stated(state) /\ state.id = workbook[n].id
    BY <1>9, <2>1, Zenon
  <2>3. LoadedAt(state) # 0
    BY <1>1, <2>2, Zenon
  <2> QED BY <2>2, <2>3
<1>11. CASE state \in NewSheets
  BY <1>2, <1>11, Zenon DEF NewSheets
<1> QED BY <1>10, <1>11 DEF ToolStates

LEMMA SheetLoaded ==
  ASSUME WorkbookTypes, NEW state, LoadedAt(state) # 0
  PROVE  LoadedAt(state) \in Nat \ {0} /\ workbook[LoadedAt(state)] \in SheetStates
<1>1. Len(workbook) \in Nat
  BY DEF WorkbookTypes
<1> QED BY <1>1, PlaceFound, NamePlaced DEF LoadedAt

LEMMA LoadTypes ==
  ASSUME WorkbookTypes, OperationTypes, sheetIds' = sheetIds, NEW state, Stated(state), NEW tool \in BOOLEAN,
         state.kind = "sheet_present" \/ LoadedAt(state) # 0, LoadSheet(state, tool)
  PROVE  OperationTypes'
<1>1. SheetStates' = SheetStates
  BY SheetsGrow
<1>2. standing' = "loaded" /\ change'.tool = tool /\ Made' = state /\ captured' = captured
  BY DEF LoadSheet, Made
<1>3. LoadedAt(state) = 0 => seen' = Gone
  BY DEF LoadSheet
<1>4. LoadedAt(state) # 0 => Sighted'
  <2>1. LoadedAt(state) # 0 => seen'.sheet = workbook[LoadedAt(state)] /\ seen'.position = LoadedAt(state)
    BY DEF LoadSheet
  <2> QED BY <1>1, <2>1, SheetLoaded DEF Sighted
<1>5. Stated(Made)'
  BY <1>2 DEF Stated
<1> QED BY <1>2, <1>3, <1>4, <1>5 DEF OperationTypes
LEMMA SightedGrows ==
  ASSUME WorkbookTypes, sheetIds' \in {sheetIds, sheetIds + 1}, Sighted, seen' = seen
  PROVE  Sighted'
BY SheetsGrow DEF Sighted

(* It ends, or it goes on to another await of the same change.              *)
LEMMA EndTypes ==
  ASSUME OperationTypes, standing' = "idle", change' = NoStructureChange, seen' = Gone, captured' = Gone
  PROVE  OperationTypes'
BY DEF OperationTypes, NoStructureChange

LEMMA StillTypes ==
  ASSUME WorkbookTypes, OperationTypes, sheetIds' \in {sheetIds, sheetIds + 1},
         UNCHANGED <<standing, change, seen, captured>>
  PROVE  OperationTypes'
<1>1. Sighted => Sighted'
  BY SightedGrows
<1>2. Made' = Made /\ (Stated(Made) => Stated(Made)')
  BY DEF Made, Stated
<1> QED BY <1>1, <1>2 DEF OperationTypes

LEMMA AwaitTypes ==
  ASSUME WorkbookTypes, OperationTypes, sheetIds' \in {sheetIds, sheetIds + 1}, UNCHANGED change, standing # "idle",
         \/ standing' = "appeared" /\ Made.kind \in {"sheet_present", "rows_present"}
         \/ standing' = "copied"
         \/ standing' \in {"checked", "captured"} /\ Made.kind \in {"sheet_absent", "rows_absent"},
         Sighted', captured' \in {Gone} \cup Captures
  PROVE  OperationTypes'
<1>1. Made' = Made /\ (Stated(Made) => Stated(Made)')
  BY DEF Made, Stated
<1> QED BY <1>1 DEF OperationTypes

LEMMA AppearedTypes ==
  ASSUME WorkbookTypes, OperationTypes, AddSheet, sheetIds' = sheetIds + 1
  PROVE  OperationTypes'
<1> DEFINE new == [id |-> sheetIds + 1, name |-> Made.name, visible |-> Made.visible, rows |-> [r \in Rows |-> Blank]]
<1>0. /\ Made.name \in Names /\ Made.visible \in BOOLEAN /\ Made.position \in Nat \ {0} /\ sheetIds \in Nat
      /\ Made.kind = "sheet_present" /\ standing # "idle" /\ captured \in {Gone} \cup Captures
  BY DEF AddSheet, Loaded, OperationTypes, Stated, WorkbookTypes
<1>1. \/ standing' = "idle" /\ change' = NoStructureChange /\ seen' = Gone /\ captured' = Gone
      \/ /\ standing' = "appeared" /\ seen' = [sheet |-> new, position |-> Made.position]
         /\ UNCHANGED <<change, captured>>
  <2>1. sheetIds' # sheetIds
    BY <1>0
  <2> QED BY <2>1, Zenon DEF AddSheet, Refused, DoneWith, DoneWithout, Idle, new
<1>2. new \in SheetStates'
  <2>1. sheetIds + 1 \in 1..sheetIds'
    BY <1>0
  <2>2. SheetStates' = [id : 1..sheetIds', name : Names, visible : BOOLEAN, rows : [Rows -> Texts \cup {Blank}]]
    BY DEF SheetStates
  <2> QED BY <1>0, <2>1, <2>2
<1> HIDE DEF new
<1>3. CASE standing' = "idle" /\ change' = NoStructureChange /\ seen' = Gone /\ captured' = Gone
  BY <1>3, EndTypes
<1>4. CASE /\ standing' = "appeared" /\ seen' = [sheet |-> new, position |-> Made.position]
           /\ UNCHANGED <<change, captured>>
  <2>1. seen'.sheet = new /\ seen'.position = Made.position
    BY <1>4
  <2>2. Sighted'
    BY <1>0, <1>2, <2>1 DEF Sighted
  <2> QED BY <1>0, <1>4, <2>2, AwaitTypes
<1> QED BY <1>1, <1>3, <1>4

LEMMA CopiedTypes ==
  ASSUME WorkbookTypes, OperationTypes, Copy, sheetIds' = sheetIds + 1
  PROVE  OperationTypes'
<1> DEFINE new == [workbook[Target] EXCEPT !.id = sheetIds + 1, !.name = Made.name]
<1>0. /\ Made.name \in Names /\ sheetIds \in Nat /\ Len(workbook) \in Nat /\ Target # 0
      /\ standing # "idle" /\ captured \in {Gone} \cup Captures
  BY DEF Copy, Loaded, OperationTypes, Stated, WorkbookTypes
<1>1. standing' = "copied" /\ seen' = [sheet |-> new, position |-> Len(workbook) + 1] /\ UNCHANGED <<change, captured>>
  <2>1. sheetIds' # sheetIds
    BY <1>0
  <2> QED BY <2>1, Zenon DEF Copy, Refused, new
<1>2. new \in SheetStates'
  <2>1. sheetIds + 1 \in 1..sheetIds'
    BY <1>0
  <2>2. SheetStates' = [id : 1..sheetIds', name : Names, visible : BOOLEAN, rows : [Rows -> Texts \cup {Blank}]]
    BY DEF SheetStates
  <2>3. workbook[Target] \in SheetStates
    BY <1>0, TargetFound
  <2> QED BY <1>0, <2>1, <2>2, <2>3 DEF SheetStates
<1> HIDE DEF new
<1>3. seen'.sheet = new /\ seen'.position = Len(workbook) + 1
  BY <1>1
<1>4. Sighted'
  BY <1>0, <1>2, <1>3 DEF Sighted
<1> QED BY <1>0, <1>1, <1>4, AwaitTypes

LEMMA DataTyped ==
  ASSUME WorkbookTypes, Target # 0
  PROVE  DataThere \in Captures
<1>1. workbook[Target].rows \in [Rows -> Cells]
  BY TargetFound DEF SheetStates, Cells
<1>2. Area \in SUBSET Rows
  BY DEF Area
<1> QED BY <1>1, <1>2, RowsOf DEF DataThere

LEMMA OperationStep ==
  ASSUME WorkbookTypes, OperationTypes, BackupTypes, [StructureNext]_structureVars
  PROVE  OperationTypes'
<1>0. sheetIds' \in {sheetIds, sheetIds + 1} /\ captured \in {Gone} \cup Captures
  BY WorkbookStep DEF OperationTypes
<1>1. CASE standing' = "idle" /\ change' = NoStructureChange /\ seen' = Gone /\ captured' = Gone
  BY <1>1, EndTypes
<1>2. CASE UNCHANGED <<standing, change, seen, captured>>
  BY <1>0, <1>2, StillTypes
<1>3. CASE BeginTool
  <2>1. PICK state \in ToolStates : LoadSheet(state, TRUE)
    BY <1>3 DEF BeginTool
  <2>2. sheetIds' = sheetIds
    BY <1>3 DEF BeginTool
  <2> QED BY <2>1, <2>2, ToolStated, LoadTypes
<1>4. CASE BeginRestore
  <2>1. sheetIds' = sheetIds
    BY <1>4 DEF BeginRestore
  <2>2. PICK n \in DOMAIN backups :
          \/ UNCHANGED <<standing, change, seen, captured>>
          \/ /\ LoadedAt(backups[n].state) # 0 \/ backups[n].state.kind = "sheet_present"
             /\ LoadSheet(backups[n].state, FALSE)
    BY <1>4, Zenon DEF BeginRestore
  <2>3. Stated(backups[n].state)
    BY <2>2 DEF BackupTypes, ToSet
  <2> QED BY <1>2, <2>1, <2>2, <2>3, LoadTypes
<1>5. CASE SetName \/ SetVisibility \/ Overwrite \/ InspectCopy \/ FillIn \/ HostFails
  BY <1>1, <1>5 DEF SetName, SetVisibility, Overwrite, InspectCopy, FillIn, HostFails, Refused, DoneWith, DoneWithout, Idle
<1>6. CASE AddSheet
  <2>1. sheetIds' # sheetIds + 1 => standing' = "idle" /\ change' = NoStructureChange /\ seen' = Gone /\ captured' = Gone
    BY <1>6, Zenon DEF AddSheet, Refused, Idle
  <2> QED BY <1>1, <1>6, <2>1, AppearedTypes
<1>7. CASE Copy
  <2>1. sheetIds' # sheetIds + 1 => standing' = "idle" /\ change' = NoStructureChange /\ seen' = Gone /\ captured' = Gone
    BY <1>7, Zenon DEF Copy, Refused, Idle
  <2> QED BY <1>1, <1>7, <2>1, CopiedTypes
<1>8. CASE InsertRows
  <2>1. \/ standing' = "idle" /\ change' = NoStructureChange /\ seen' = Gone /\ captured' = Gone
        \/ standing' = "appeared" /\ UNCHANGED <<change, seen, captured>>
    BY <1>8 DEF InsertRows, Refused, DoneWith, Idle
  <2>2. Sighted /\ Made.kind = "rows_present" /\ standing # "idle"
    BY <1>8 DEF InsertRows, Loaded, OperationTypes
  <2>3. CASE standing' = "appeared" /\ UNCHANGED <<change, seen, captured>>
    BY <1>0, <2>2, <2>3, SightedGrows, AwaitTypes
  <2> QED BY <1>1, <2>1, <2>3
<1>9. CASE CheckData
  <2>1. \/ standing' = "idle" /\ change' = NoStructureChange /\ seen' = Gone /\ captured' = Gone
        \/ standing' \in {"checked", "captured"} /\ captured' \in {NoData, captured} /\ UNCHANGED <<change, seen>>
    BY <1>9 DEF CheckData, Refused, Idle
  <2>2. Sighted /\ Made.kind \in {"sheet_absent", "rows_absent"} /\ standing # "idle"
    BY <1>9 DEF CheckData, Going, Loaded, OperationTypes
  <2>3. CASE standing' \in {"checked", "captured"} /\ captured' \in {NoData, captured} /\ UNCHANGED <<change, seen>>
    <3>1. captured' \in {Gone} \cup Captures
      BY <1>0, <2>3, RowsOf
    <3> QED BY <1>0, <2>2, <2>3, <3>1, SightedGrows, AwaitTypes
  <2> QED BY <1>1, <2>1, <2>3
<1>10. CASE CaptureData
  <2>1. \/ standing' = "idle" /\ change' = NoStructureChange /\ seen' = Gone /\ captured' = Gone
        \/ standing' = "captured" /\ captured' \in {Gone, DataThere} /\ UNCHANGED <<change, seen>>
    BY <1>10 DEF CaptureData, Refused, Idle
  <2>2. Sighted /\ Made.kind \in {"sheet_absent", "rows_absent"} /\ standing # "idle" /\ Target # 0
    BY <1>10 DEF CaptureData, Going, Loaded, OperationTypes
  <2>3. CASE standing' = "captured" /\ captured' \in {Gone, DataThere} /\ UNCHANGED <<change, seen>>
    <3>1. captured' \in {Gone} \cup Captures
      BY <2>2, <2>3, DataTyped
    <3> QED BY <1>0, <2>2, <2>3, <3>1, SightedGrows, AwaitTypes
  <2> QED BY <1>1, <2>1, <2>3
<1>11. CASE DeleteNow
  BY <1>1, <1>11 DEF DeleteNow, Refused, DoneWith, DoneWithout, Idle
<1>12. CASE UserTypes
  BY <1>2, <1>12 DEF UserTypes
<1>13. CASE UNCHANGED structureVars
  BY <1>2, <1>13 DEF structureVars
<1> QED
  BY <1>3, <1>4, <1>5, <1>6, <1>7, <1>8, <1>9, <1>10, <1>11, <1>12, <1>13 DEF StructureNext, StructureStep
-----------------------------------------------------------------------------
(* The backups at each step                                                 *)

LEMMA BackupAdded ==
  ASSUME BackupTypes, NEW b, Stated(b.state), backups' = <<b>> \o backups
  PROVE  /\ backups' \in Seq(ToSet(backups')) /\ Len(backups') = Len(backups) + 1 /\ Len(backups) \in Nat
         /\ \A c \in ToSet(backups') : Stated(c.state)
<1>1. backups \in Seq(ToSet(backups)) /\ Len(backups) \in Nat
  BY DEF BackupTypes
<1>2. backups' \in Seq(ToSet(backups) \cup {b}) /\ Len(backups') = Len(backups) + 1 /\ ToSet(backups') = ToSet(backups) \cup {b}
  BY <1>1, PrependAdds
<1> QED BY <1>1, <1>2 DEF BackupTypes

LEMMA DoneBackups ==
  ASSUME BackupTypes, standing # "idle", NEW state, Stated(state), DoneWith(state)
  PROVE  BackupTypes'
<1> DEFINE b == [state |-> state, goes |-> origin, from |-> IF origin = Gone THEN Gone ELSE workbook']
<1>1. backups' = <<b>> \o backups /\ standing' = "idle" /\ UNCHANGED <<tools, changes, typed>>
  BY DEF DoneWith, Idle, bounds
<1>2. b.state = state
  OBVIOUS
<1> HIDE DEF b
<1>3. /\ backups' \in Seq(ToSet(backups')) /\ Len(backups') = Len(backups) + 1 /\ Len(backups) \in Nat
      /\ \A c \in ToSet(backups') : Stated(c.state)
  BY <1>1, <1>2, BackupAdded
<1> QED BY <1>1, <1>3 DEF BackupTypes

(* Nothing is added to the backups, and no operation begins.                *)
LEMMA KeptBackups ==
  ASSUME BackupTypes, UNCHANGED <<backups, tools, changes>>, typed' \in Nat, typed' <= MaxTyped,
         standing # "idle" \/ standing' = "idle"
  PROVE  BackupTypes'
<1>1. Len(backups) \in Nat /\ Len(backups') = Len(backups) /\ ToSet(backups') = ToSet(backups)
  BY DEF BackupTypes
<1> QED BY <1>1 DEF BackupTypes

LEMMA SightedStates ==
  ASSUME WorkbookTypes, Sighted
  PROVE  seen.sheet.name \in Names /\ seen.sheet.visible \in BOOLEAN /\ seen.position \in Nat \ {0}
BY DEF Sighted, SheetStates

LEMMA BackupStep ==
  ASSUME WorkbookTypes, OperationTypes, BackupTypes, [StructureNext]_structureVars
  PROVE  BackupTypes'
<1> USE DEF bounds
<1>0. typed \in Nat /\ typed <= MaxTyped /\ changes \in Nat /\ tools \in Nat /\ tools <= changes /\ Len(backups) \in Nat
  BY DEF BackupTypes
<1>1. CASE UNCHANGED <<backups, tools, changes, typed>> /\ (standing # "idle" \/ standing' = "idle")
  BY <1>0, <1>1, KeptBackups
<1>2. ASSUME standing # "idle", NEW state, Stated(state), DoneWith(state) PROVE BackupTypes'
  BY <1>2, DoneBackups
<1>3. CASE BeginTool
  <2>1. /\ standing = "idle" /\ backups' = backups /\ tools' = tools + 1 /\ changes' = changes + 1
        /\ tools < MaxTools /\ changes < MaxChanges /\ UNCHANGED typed
    BY <1>3 DEF BeginTool
  <2>2. Len(backups') = Len(backups) /\ ToSet(backups') = ToSet(backups) /\ Len(backups) <= changes
    BY <2>1 DEF BackupTypes
  <2>3. MaxChanges \in Nat
    BY StructureAssumption DEF StructureAssumption
  <2> QED BY <1>0, <2>1, <2>2, <2>3 DEF BackupTypes
<1>4. CASE BeginRestore
  <2>0. MaxChanges \in Nat
    BY StructureAssumption DEF StructureAssumption
  <2>1. standing = "idle" /\ changes < MaxChanges /\ changes' = changes + 1 /\ UNCHANGED <<tools, typed>>
    BY <1>4 DEF BeginRestore
  <2>2. PICK n \in DOMAIN backups :
          \/ UNCHANGED backups
          \/ /\ backups' = <<[state |-> backups[n].state, goes |-> workbook, from |-> workbook]>> \o backups
             /\ UNCHANGED standing
    BY <1>4, Zenon DEF BeginRestore
  <2>3. Stated(backups[n].state) /\ Len(backups) <= changes
    BY <2>1, <2>2 DEF BackupTypes, ToSet
  <2>4. CASE UNCHANGED backups
    <3>1. Len(backups') = Len(backups) /\ ToSet(backups') = ToSet(backups)
      BY <2>4
    <3> QED BY <1>0, <2>0, <2>1, <2>3, <2>4, <3>1 DEF BackupTypes
  <2>5. CASE /\ backups' = <<[state |-> backups[n].state, goes |-> workbook, from |-> workbook]>> \o backups
             /\ UNCHANGED standing
    <3> DEFINE b == [state |-> backups[n].state, goes |-> workbook, from |-> workbook]
    <3>1. Stated(b.state) /\ backups' = <<b>> \o backups
      BY <2>3, <2>5
    <3> HIDE DEF b
    <3>2. /\ backups' \in Seq(ToSet(backups')) /\ Len(backups') = Len(backups) + 1
          /\ \A c \in ToSet(backups') : Stated(c.state)
      BY <3>1, BackupAdded
    <3>3. standing' = "idle" /\ typed' = typed /\ tools' = tools /\ changes' = changes + 1
      BY <2>1, <2>5
    <3>4. typed <= MaxTyped /\ tools <= changes + 1 /\ changes + 1 <= MaxChanges
      BY <1>0, <2>0, <2>1
    <3>5. Len(backups') + 0 <= changes + 1
      BY <1>0, <2>3, <3>2
    <3> QED BY <1>0, <3>2, <3>3, <3>4, <3>5 DEF BackupTypes
  <2> QED BY <2>2, <2>4, <2>5
<1>5. CASE SetName
  <2>1. Sighted /\ standing # "idle"
    BY <1>5 DEF SetName, Loaded, OperationTypes
  <2>2. Stated(NameState(seen.sheet, seen.sheet.name))
    BY <2>1, SightedStates, StatesOf
  <2> QED BY <1>1, <1>2, <1>5, <2>1, <2>2 DEF SetName, Refused
<1>6. CASE SetVisibility
  <2>1. Sighted /\ standing # "idle"
    BY <1>6 DEF SetVisibility, Loaded, OperationTypes
  <2>2. Stated(VisibilityState(seen.sheet, seen.sheet.visible))
    BY <2>1, SightedStates, StatesOf
  <2> QED BY <1>1, <1>2, <1>6, <2>1, <2>2 DEF SetVisibility, Refused
<1>7. CASE Overwrite
  <2>1. Sighted /\ standing # "idle"
    BY <1>7 DEF Overwrite, Loaded, OperationTypes
  <2>2. Stated(SheetPresent(seen.sheet, seen.position, NoData))
    BY <2>1, SightedStates, StatesOf, RowsOf
  <2>3. \/ UNCHANGED <<backups, tools, changes, typed>>
        \/ DoneWith(SheetPresent(seen.sheet, seen.position, NoData))
    BY <1>7, Zenon DEF Overwrite, Refused, DoneWithout
  <2> QED BY <1>1, <1>2, <2>1, <2>2, <2>3
<1>8. CASE AddSheet
  <2> DEFINE new == [id |-> sheetIds + 1, name |-> Made.name, visible |-> Made.visible, rows |-> [r \in Rows |-> Blank]]
  <2>1. standing # "idle"
    BY <1>8 DEF AddSheet, Loaded
  <2>2. Stated(SheetAbsent(new, FALSE))
    BY StatesOf
  <2>3. UNCHANGED <<backups, tools, changes, typed>> \/ DoneWith(SheetAbsent(new, FALSE))
    BY <1>8, Zenon DEF AddSheet, Refused, DoneWithout
  <2> HIDE DEF new
  <2> QED BY <1>1, <1>2, <2>1, <2>2, <2>3
<1>9. CASE InsertRows
  <2>1. standing # "idle" /\ Made.first \in Rows /\ Made.count \in Nat \ {0}
    BY <1>9 DEF InsertRows, Loaded, OperationTypes, Stated
  <2>2. Stated(RowsAbsent(seen.sheet, Made.first, Made.count, FALSE))
    BY <2>1, StatesOf
  <2>3. UNCHANGED <<backups, tools, changes, typed>> \/ DoneWith(RowsAbsent(seen.sheet, Made.first, Made.count, FALSE))
    BY <1>9, Zenon DEF InsertRows, Refused
  <2> QED BY <1>1, <1>2, <2>1, <2>2, <2>3
<1>10. CASE FillIn
  <2>1. standing # "idle" /\ (Made.kind # "sheet_present" => Made.first \in Rows /\ Made.count \in Nat \ {0})
    BY <1>10 DEF FillIn, OperationTypes, Stated
  <2>2. CASE Made.kind = "sheet_present"
    <3>1. Stated(SheetAbsent(seen.sheet, TRUE))
      BY StatesOf
    <3>2. DoneWith(SheetAbsent(seen.sheet, TRUE))
      BY <1>10, <2>2 DEF FillIn
    <3> QED BY <1>2, <2>1, <3>1, <3>2
  <2>3. CASE Made.kind # "sheet_present"
    <3>1. Stated(RowsAbsent(seen.sheet, Made.first, Made.count, TRUE))
      BY <2>1, <2>3, StatesOf
    <3>2. DoneWith(RowsAbsent(seen.sheet, Made.first, Made.count, TRUE))
      BY <1>10, <2>3 DEF FillIn
    <3> QED BY <1>2, <2>1, <3>1, <3>2
  <2> QED BY <2>2, <2>3
<1>11. CASE InspectCopy
  <2>1. standing # "idle" /\ Stated(SheetAbsent(seen.sheet, FALSE))
    BY <1>11, StatesOf DEF InspectCopy
  <2> QED BY <1>1, <1>2, <1>11, <2>1 DEF InspectCopy, DoneWithout
<1>12. CASE DeleteNow
  <2>1. standing # "idle" /\ Sighted /\ Made.kind \in {"sheet_absent", "rows_absent"} /\ captured \in {Gone} \cup Captures
    BY <1>12 DEF DeleteNow, OperationTypes
  <2>2. \/ UNCHANGED <<backups, tools, changes, typed>>
        \/ captured # Gone /\ Made.kind = "sheet_absent" /\ DoneWith(SheetPresent(seen.sheet, seen.position, captured))
        \/ captured # Gone /\ Made.kind # "sheet_absent" /\ DoneWith(RowsPresent(seen.sheet, Made.first, Made.count, captured))
    BY <1>12 DEF DeleteNow, Refused, DoneWithout
  <2>3. CASE captured # Gone /\ Made.kind = "sheet_absent" /\ DoneWith(SheetPresent(seen.sheet, seen.position, captured))
    <3>1. Stated(SheetPresent(seen.sheet, seen.position, captured))
      BY <2>1, <2>3, SightedStates, StatesOf
    <3> QED BY <1>2, <2>1, <2>3, <3>1
  <2>4. CASE captured # Gone /\ Made.kind # "sheet_absent" /\ DoneWith(RowsPresent(seen.sheet, Made.first, Made.count, captured))
    <3>1. Made.first \in Rows /\ Made.count \in Nat \ {0}
      BY <2>1, <2>4 DEF OperationTypes, Stated
    <3>2. Stated(RowsPresent(seen.sheet, Made.first, Made.count, captured))
      BY <2>1, <2>4, <3>1, StatesOf
    <3> QED BY <1>2, <2>1, <2>4, <3>2
  <2> QED BY <1>1, <2>1, <2>2, <2>3, <2>4
<1>13. CASE Copy \/ CheckData \/ CaptureData \/ HostFails
  BY <1>1, <1>13 DEF Copy, CheckData, CaptureData, HostFails, Going, Loaded, Refused
<1>14. CASE UserTypes
  <2>1. typed' = typed + 1 /\ typed < MaxTyped /\ MaxTyped \in Nat /\ UNCHANGED <<backups, tools, changes, standing>>
    BY <1>14, StructureAssumption DEF UserTypes, StructureAssumption
  <2>2. typed' \in Nat /\ typed' <= MaxTyped
    BY <1>0, <2>1
  <2> QED BY <2>1, <2>2, KeptBackups
<1>15. CASE UNCHANGED structureVars
  <2>1. UNCHANGED <<backups, tools, changes, typed, standing>>
    BY <1>15 DEF structureVars
  <2> QED BY <1>0, <2>1, KeptBackups
<1> QED
  BY <1>3, <1>4, <1>5, <1>6, <1>7, <1>8, <1>9, <1>10, <1>11, <1>12, <1>13, <1>14, <1>15 DEF StructureNext, StructureStep

LEMMA StructureInitial == StructureInit => StructureInv
<1> SUFFICES ASSUME StructureInit PROVE StructureInv
  OBVIOUS
<1> USE DEF StructureInit
<1>1. WorkbookTypes
  <2> DEFINE Sheets == [id : 1 .. Len(Starting), name : Names, visible : BOOLEAN, rows : [1 .. MaxRows -> Texts \cup {Blank}]]
  <2>1. Starting \in Seq(Sheets) /\ SheetStates = Sheets /\ Len(Starting) \in Nat /\ DOMAIN Starting = 1..Len(Starting)
    BY StructureAssumption DEF StructureAssumption, SheetStates, Rows
  <2> HIDE DEF Sheets
  <2>2. ByPlace(Starting) /\ SomeVisible(Starting)
    BY <2>1, StructureAssumption DEF StructureAssumption, ByPlace, SomeVisible
  <2>3. Distinct(Starting) /\ Visible(Starting)
    BY <2>1, <2>2, DistinctIs, VisibleIs
  <2> QED BY <2>1, <2>3 DEF WorkbookTypes
<1>2. OperationTypes
  BY DEF OperationTypes, NoStructureChange
<1>3. BackupTypes
  <2>1. ToSet(<<>>) = {}
    BY DEF ToSet
  <2> QED BY <2>1, StructureAssumption DEF BackupTypes, StructureAssumption
<1> QED BY <1>1, <1>2, <1>3 DEF StructureInv

(* Every variable of the structure changes keeps its type, whatever comes   *)
(* between their awaits: sheets have ids and names of their own, one sheet  *)
(* is visible, and a backup says all that its restore needs                 *)
(* (modify-structure.ts, structure-apply.ts).                               *)
THEOREM StructureTypesHold == StructureSpec => []StructureTypeOK
<1>1. StructureInv /\ [StructureNext]_structureVars => StructureInv'
  BY WorkbookStep, OperationStep, BackupStep DEF StructureInv
<1>2. StructureInv => StructureTypeOK
  <2> SUFFICES ASSUME StructureInv PROVE StructureTypeOK
    OBVIOUS
  <2> USE DEF StructureInv
  <2>1. workbook \in Seq(SheetStates) /\ ByPlace(workbook) /\ SomeVisible(workbook) /\ DOMAIN workbook = 1..Len(workbook)
    BY DistinctIs, VisibleIs DEF WorkbookTypes
  <2>2. \A n, m \in DOMAIN workbook : n # m => workbook[n].id # workbook[m].id /\ workbook[n].name # workbook[m].name
    BY <2>1 DEF ByPlace
  <2>3. Len(backups) <= changes
    <3>1. Len(backups) \in Nat
      BY DEF BackupTypes
    <3> QED BY <3>1 DEF BackupTypes
  <2>4. \A n \in DOMAIN backups : Stated(backups[n].state)
    <3>1. \A n \in DOMAIN backups : backups[n] \in ToSet(backups)
      BY DEF ToSet
    <3> QED BY <3>1 DEF BackupTypes
  <2> QED BY <2>1, <2>2, <2>3, <2>4 DEF StructureTypeOK, OperationTypes, BackupTypes, Sighted
<1> QED BY <1>1, <1>2, StructureInitial, PTL DEF StructureSpec

-----------------------------------------------------------------------------
(* StructureBackups *)

-----------------------------------------------------------------------------
(* What a restore gives                                                     *)

(* The workbook as the user sees it: the sheets without their ids.          *)
Bare(s) == [s EXCEPT !.id = 0]
Plain(sheets) == [n \in DOMAIN sheets |-> Bare(sheets[n])]
Look(name, visible, rows) == [id |-> 0, name |-> name, visible |-> visible, rows |-> rows]

(* The rows a state is about, and whether what is in them may be deleted.   *)
Reach(state) == IF state.kind \in {"sheet_absent", "sheet_present"} THEN Rows
                ELSE {i \in Rows : state.first <= i /\ i < state.first + state.count}
MayGo(state, rows) ==
  LET data == UsedRange(rows, Reach(state)) IN data = NoData \/ (state.allow /\ ~TooLarge(data))
NoneFalls(rows, first, count) == \A i \in Rows : first <= i /\ i + count > MaxRows => rows[i] = Blank
NoValues == [i \in Rows |-> Blank]

(* A restore of the state makes the second workbook of the first one, when  *)
(* its sheet is at place p (0 for none).                                    *)
GivesName(state, p, w, g) ==
  /\ p \in 1..Len(w) /\ Others(w, p, state.name)
  /\ g = PutSheet(w, p, Look(state.name, w[p].visible, w[p].rows))

GivesVisible(state, p, w, g) ==
  /\ p \in 1..Len(w) /\ SomeVisible(g)
  /\ g = PutSheet(w, p, Look(w[p].name, state.visible, w[p].rows))

GivesRows(state, p, w, g) ==
  /\ p \in 1..Len(w) /\ NoneFalls(w[p].rows, state.first, state.count)
  /\ g = PutSheet(w, p, Look(w[p].name, w[p].visible, Filled(Inserted(w[p].rows, state.first, state.count), state.data)))

TakesRows(state, p, w, g) ==
  /\ p \in 1..Len(w) /\ MayGo(state, w[p].rows)
  /\ g = PutSheet(w, p, Look(w[p].name, w[p].visible, Removed(w[p].rows, state.first, state.count)))

GivesSheet(state, p, w, g) ==
  \/ /\ p = 0 /\ Others(w, 0, state.name) /\ state.position <= Len(w) + 1
     /\ g = InsertAt(w, state.position, Look(state.name, state.visible, Filled(NoValues, state.data)))
  \/ /\ p \in 1..Len(w) /\ Others(w, p, state.name) /\ state.position <= Len(w) /\ state.data = NoData
     /\ g = InsertAt(RemoveAt(w, p), state.position, Look(state.name, state.visible, w[p].rows))
     /\ SomeVisible(g)

TakesSheet(state, p, w, g) ==
  \/ p = 0 /\ g = w
  \/ p \in 1..Len(w) /\ MayGo(state, w[p].rows) /\ g = RemoveAt(w, p) /\ SomeVisible(g)

Reverses(state, p, w, g) ==
  \/ state.kind = "sheet_name" /\ GivesName(state, p, w, g)
  \/ state.kind = "sheet_visibility" /\ GivesVisible(state, p, w, g)
  \/ state.kind = "rows_present" /\ GivesRows(state, p, w, g)
  \/ state.kind = "rows_absent" /\ TakesRows(state, p, w, g)
  \/ state.kind = "sheet_present" /\ GivesSheet(state, p, w, g)
  \/ state.kind = "sheet_absent" /\ TakesSheet(state, p, w, g)

(* Data that is put back fits into a backup again, and into its rows.       *)
Fits(state) == state.kind \in {"sheet_present", "rows_present"}
               => ~TooLarge(state.data) /\ DOMAIN state.data \subseteq Reach(state)

(* So is what was read before a delete.                                     *)
Caught == standing = "captured" /\ captured # Gone => ~TooLarge(captured) /\ DOMAIN captured \subseteq Reach(Made)

(* Every backup undoes its change.                                          *)
BackupsReverse ==
  \A b \in ToSet(backups) :
    /\ Fits(b.state)
    /\ b.from # Gone => Reverses(b.state, PlaceIn(b.from, b.state.id), Plain(b.from), Plain(b.goes))

(* How far the operation has come from the workbook it began with.          *)
Apart ==
  /\ standing \in {"loaded", "checked", "captured"} =>
       /\ workbook = origin
       /\ seen # Gone \/ Made.kind # "sheet_present"
          => Target # 0 /\ seen.position = Target /\ seen.sheet = workbook[Target]
  /\ standing = "captured" /\ captured # Gone => captured = DataThere
  /\ standing = "appeared" =>
       /\ Target # 0
       /\ Made.kind = "sheet_present" => TakesSheet(SheetAbsent(seen.sheet, FALSE), Target, Plain(workbook), Plain(origin))
       /\ Made.kind = "rows_present"
          => TakesRows(RowsAbsent(seen.sheet, Made.first, Made.count, FALSE), Target, Plain(workbook), Plain(origin))
  /\ standing = "copied" =>
       Target # 0 /\ Plain(origin) = RemoveAt(Plain(workbook), Target) /\ SomeVisible(Plain(origin))

(* How far a restore is from the workbook it owes.                          *)
Ahead ==
  /\ ~change.tool
  /\ standing \in {"loaded", "checked", "captured"} =>
       /\ Made.kind # "sheet_present" => seen # Gone
       /\ seen # Gone => Target # 0
       /\ Reverses(Made, IF seen = Gone THEN 0 ELSE Target, Plain(workbook), Plain(owed))
  /\ standing = "checked" => DataThere # NoData
  /\ standing = "appeared" =>
       /\ Target # 0
       /\ Plain(owed) = PutSheet(Plain(workbook), Target,
            Look(workbook[Target].name, workbook[Target].visible, Filled(workbook[Target].rows, Made.data)))
  /\ standing # "copied"

UndoInv ==
  /\ BackupsReverse /\ Caught
  /\ standing # "idle" => Fits(Made)
  /\ standing # "idle" /\ origin # Gone => Apart
  /\ standing # "idle" /\ owed # Gone => Ahead
  /\ standing = "idle" /\ owed # Gone => Alike(workbook, owed)
-----------------------------------------------------------------------------
(* Lists that are changed and changed back                                  *)

LEMMA SameItems ==
  ASSUME NEW S, NEW s \in Seq(S), NEW t \in Seq(S), Len(s) = Len(t), \A n \in 1..Len(s) : s[n] = t[n]
  PROVE  s = t
OBVIOUS

InsertedIn(S, t, s, i, e) ==
  /\ t \in Seq(S) /\ Len(t) = Len(s) + 1
  /\ \A n \in 1..(Len(s) + 1) : t[n] = IF n < i THEN s[n] ELSE IF n = i THEN e ELSE s[n - 1]

LEMMA InsertAtHas ==
  ASSUME NEW S, NEW s \in Seq(S), NEW i \in 1..(Len(s) + 1), NEW e \in S
  PROVE  InsertedIn(S, InsertAt(s, i, e), s, i, e)
BY InsertAtIs DEF InsertedIn

LEMMA InsertedRemoved ==
  ASSUME NEW S, NEW s \in Seq(S), NEW i \in 1..(Len(s) + 1), NEW e \in S
  PROVE  RemoveAt(InsertAt(s, i, e), i) = s
<1> DEFINE t == InsertAt(s, i, e)
           u == RemoveAt(t, i)
<1>0. Len(s) \in Nat
  OBVIOUS
<1>1. /\ t \in Seq(S) /\ Len(t) = Len(s) + 1
      /\ \A n \in 1..(Len(s) + 1) : t[n] = IF n < i THEN s[n] ELSE IF n = i THEN e ELSE s[n - 1]
  <2>1. InsertedIn(S, t, s, i, e)
    BY InsertAtHas
  <2> QED BY <2>1 DEF InsertedIn
<1> HIDE DEF t
<1>2. i \in 1..Len(t)
  BY <1>1
<1>3. /\ u \in Seq(S) /\ Len(u) = Len(t) - 1
      /\ \A n \in 1..(Len(t) - 1) : u[n] = IF n < i THEN t[n] ELSE t[n + 1]
  BY <1>1, <1>2, RemoveAtIs
<1> HIDE DEF u
<1>4. Len(u) = Len(s) /\ \A n \in 1..Len(s) : u[n] = s[n]
  <2>1. ASSUME NEW n \in 1..Len(s) PROVE u[n] = s[n]
    <3>1. CASE n < i
      BY <1>0, <1>1, <1>3, <3>1
    <3>2. CASE ~(n < i)
      <4>1. n + 1 \in 1..(Len(s) + 1) /\ ~(n + 1 < i) /\ n + 1 # i /\ (n + 1) - 1 = n
        BY <1>0, <3>2
      <4>2. t[n + 1] = s[n]
        BY <1>1, <4>1
      <4> QED BY <1>0, <1>1, <1>3, <3>2, <4>2
    <3> QED BY <3>1, <3>2
  <2> QED BY <1>0, <1>1, <1>3, <2>1
<1>5. u = s
  BY <1>0, <1>3, <1>4, SameItems
<1> QED BY <1>5 DEF u, t

LEMMA RemovedInserted ==
  ASSUME NEW S, NEW s \in Seq(S), NEW i \in 1..Len(s)
  PROVE  InsertAt(RemoveAt(s, i), i, s[i]) = s
<1> DEFINE t == RemoveAt(s, i)
           u == InsertAt(t, i, s[i])
<1>0. Len(s) \in Nat /\ s[i] \in S
  OBVIOUS
<1>1. /\ t \in Seq(S) /\ Len(t) = Len(s) - 1
      /\ \A n \in 1..(Len(s) - 1) : t[n] = IF n < i THEN s[n] ELSE s[n + 1]
  BY RemoveAtIs
<1> HIDE DEF t
<1>2. i \in 1..(Len(t) + 1)
  BY <1>0, <1>1
<1>3. /\ u \in Seq(S) /\ Len(u) = Len(t) + 1
      /\ \A n \in 1..(Len(t) + 1) : u[n] = IF n < i THEN t[n] ELSE IF n = i THEN s[i] ELSE t[n - 1]
  <2>1. InsertedIn(S, u, t, i, s[i])
    BY <1>0, <1>1, <1>2, InsertAtHas
  <2> QED BY <2>1 DEF InsertedIn
<1> HIDE DEF u
<1>4. Len(u) = Len(s) /\ \A n \in 1..Len(s) : u[n] = s[n]
  <2>1. ASSUME NEW n \in 1..Len(s) PROVE u[n] = s[n]
    <3>1. CASE n < i
      BY <1>0, <1>1, <1>3, <3>1
    <3>2. CASE n = i
      BY <1>0, <1>1, <1>3, <3>2
    <3>3. CASE i < n
      <4>1. n - 1 \in 1..(Len(s) - 1) /\ ~(n - 1 < i) /\ (n - 1) + 1 = n
        BY <1>0, <3>3
      <4>2. t[n - 1] = s[n]
        BY <1>1, <4>1
      <4> QED BY <1>0, <1>1, <1>3, <3>3, <4>2
    <3> QED BY <1>0, <3>1, <3>2, <3>3
  <2> QED BY <1>0, <1>1, <1>3, <2>1
<1>5. u = s
  BY <1>0, <1>3, <1>4, SameItems
<1> QED BY <1>5 DEF u, t

(* An item that goes is the same as another in its place that goes.         *)
LEMMA RemovedPut ==
  ASSUME NEW S, NEW s \in Seq(S), NEW i \in 1..Len(s), NEW e \in S
  PROVE  RemoveAt(PutSheet(s, i, e), i) = RemoveAt(s, i)
<1> DEFINE t == PutSheet(s, i, e)
<1>0. Len(s) \in Nat
  OBVIOUS
<1>1. t \in Seq(S) /\ Len(t) = Len(s) /\ \A n \in 1..Len(s) : n # i => t[n] = s[n]
  BY ExceptAt DEF PutSheet
<1> HIDE DEF t
<1>2. /\ RemoveAt(t, i) \in Seq(S) /\ Len(RemoveAt(t, i)) = Len(s) - 1
      /\ \A n \in 1..(Len(s) - 1) : RemoveAt(t, i)[n] = IF n < i THEN t[n] ELSE t[n + 1]
  BY <1>1, RemoveAtIs
<1>3. /\ RemoveAt(s, i) \in Seq(S) /\ Len(RemoveAt(s, i)) = Len(s) - 1
      /\ \A n \in 1..(Len(s) - 1) : RemoveAt(s, i)[n] = IF n < i THEN s[n] ELSE s[n + 1]
  BY RemoveAtIs
<1>4. ASSUME NEW n \in 1..(Len(s) - 1) PROVE RemoveAt(t, i)[n] = RemoveAt(s, i)[n]
  <2>1. n \in 1..Len(s) /\ n + 1 \in 1..Len(s)
    BY <1>0
  <2>2. CASE n < i
    BY <1>1, <1>2, <1>3, <2>1, <2>2
  <2>3. CASE ~(n < i)
    <3>1. n + 1 # i
      BY <1>0, <2>3
    <3> QED BY <1>1, <1>2, <1>3, <2>1, <2>3, <3>1
  <2> QED BY <2>2, <2>3
<1> QED BY <1>0, <1>2, <1>3, <1>4, SameItems DEF t

(* The item inserted is exchanged.                                          *)
LEMMA PutInserted ==
  ASSUME NEW S, NEW s \in Seq(S), NEW i \in 1..(Len(s) + 1), NEW e \in S, NEW f \in S
  PROVE  PutSheet(InsertAt(s, i, e), i, f) = InsertAt(s, i, f)
<1> DEFINE t == InsertAt(s, i, e)
           u == InsertAt(s, i, f)
<1>0. Len(s) \in Nat
  OBVIOUS
<1>1. /\ t \in Seq(S) /\ Len(t) = Len(s) + 1
      /\ \A n \in 1..(Len(s) + 1) : t[n] = IF n < i THEN s[n] ELSE IF n = i THEN e ELSE s[n - 1]
  <2>1. InsertedIn(S, t, s, i, e)
    BY InsertAtHas
  <2> QED BY <2>1 DEF InsertedIn
<1>2. /\ u \in Seq(S) /\ Len(u) = Len(s) + 1
      /\ \A n \in 1..(Len(s) + 1) : u[n] = IF n < i THEN s[n] ELSE IF n = i THEN f ELSE s[n - 1]
  <2>1. InsertedIn(S, u, s, i, f)
    BY InsertAtHas
  <2> QED BY <2>1 DEF InsertedIn
<1> HIDE DEF t, u
<1>3. /\ PutSheet(t, i, f) \in Seq(S) /\ Len(PutSheet(t, i, f)) = Len(t) /\ PutSheet(t, i, f)[i] = f
      /\ \A n \in 1..Len(t) : n # i => PutSheet(t, i, f)[n] = t[n]
  BY <1>1, ExceptAt DEF PutSheet
<1>4. ASSUME NEW n \in 1..(Len(s) + 1) PROVE PutSheet(t, i, f)[n] = u[n]
  <2>1. CASE n = i
    BY <1>2, <1>3, <2>1
  <2>2. CASE n # i
    BY <1>1, <1>2, <1>3, <2>2
  <2> QED BY <2>1, <2>2
<1>5. PutSheet(t, i, f) = u
  BY <1>0, <1>1, <1>2, <1>3, <1>4, SameItems
<1> QED BY <1>5 DEF t, u

LEMMA PutBack ==
  ASSUME NEW S, NEW s \in Seq(S), NEW i \in 1..Len(s), NEW e \in S
  PROVE  PutSheet(PutSheet(s, i, e), i, s[i]) = s
<1> DEFINE t == PutSheet(s, i, e)
<1>1. t \in Seq(S) /\ Len(t) = Len(s) /\ \A n \in 1..Len(s) : n # i => t[n] = s[n]
  BY ExceptAt DEF PutSheet
<1> HIDE DEF t
<1>2. /\ PutSheet(t, i, s[i]) \in Seq(S) /\ Len(PutSheet(t, i, s[i])) = Len(t) /\ PutSheet(t, i, s[i])[i] = s[i]
      /\ \A n \in 1..Len(t) : n # i => PutSheet(t, i, s[i])[n] = t[n]
  BY <1>1, ExceptAt DEF PutSheet
<1>3. ASSUME NEW n \in 1..Len(s) PROVE PutSheet(t, i, s[i])[n] = s[n]
  BY <1>1, <1>2
<1>4. PutSheet(t, i, s[i]) = s
  BY <1>1, <1>2, <1>3, SameItems
<1> QED BY <1>4 DEF t

LEMMA AppendInserts ==
  ASSUME NEW S, NEW s \in Seq(S), NEW e \in S
  PROVE  Append(s, e) = InsertAt(s, Len(s) + 1, e)
<1> DEFINE t == InsertAt(s, Len(s) + 1, e)
<1>0. Len(s) \in Nat /\ Len(s) + 1 \in 1..(Len(s) + 1)
  OBVIOUS
<1>1. /\ t \in Seq(S) /\ Len(t) = Len(s) + 1
      /\ \A n \in 1..(Len(s) + 1) : t[n] = IF n < Len(s) + 1 THEN s[n] ELSE IF n = Len(s) + 1 THEN e ELSE s[n - 1]
  <2>1. InsertedIn(S, t, s, Len(s) + 1, e)
    BY <1>0, InsertAtHas
  <2> QED BY <2>1 DEF InsertedIn
<1> HIDE DEF t
<1>2. /\ Append(s, e) \in Seq(S) /\ Len(Append(s, e)) = Len(s) + 1 /\ Append(s, e)[Len(s) + 1] = e
      /\ \A n \in 1..Len(s) : Append(s, e)[n] = s[n]
  OBVIOUS
<1>3. ASSUME NEW n \in 1..(Len(s) + 1) PROVE Append(s, e)[n] = t[n]
  <2>1. CASE n = Len(s) + 1
    BY <1>0, <1>1, <1>2, <2>1
  <2>2. CASE n \in 1..Len(s)
    BY <1>0, <1>1, <1>2, <2>2
  <2> QED BY <1>0, <2>1, <2>2
<1>4. Append(s, e) = t
  BY <1>1, <1>2, <1>3, SameItems
<1> QED BY <1>4 DEF t

-----------------------------------------------------------------------------
(* Rows that are changed and changed back                                   *)

RowLists == [Rows -> Cells]
Span(first, count) == {i \in Rows : first <= i /\ i < first + count}

LEMMA RowsAre == MaxRows \in Nat /\ MaxCells \in Nat /\ Rows = 1..MaxRows
BY StructureAssumption DEF StructureAssumption, Rows

(* Nothing is captured of rows without values.                              *)
LEMMA NothingThere ==
  ASSUME NEW rows \in RowLists, NEW area \in SUBSET Rows
  PROVE  UsedRange(rows, area) = NoData <=> \A i \in area : rows[i] = Blank
<1> DEFINE full == {i \in area : rows[i] # Blank}
           D == {j \in area : (\E k \in full : k <= j) /\ (\E k \in full : j <= k)}
<1>1. UsedRange(rows, area) = [i \in D |-> rows[i]]
  BY DEF UsedRange
<1>2. ASSUME UsedRange(rows, area) = NoData, NEW i \in area, rows[i] # Blank PROVE FALSE
  <2>1. DOMAIN UsedRange(rows, area) = D /\ DOMAIN NoData = {}
    BY <1>1 DEF NoData
  <2>2. i \in full /\ i <= i
    BY <1>2, RowsAre
  <2>3. i \in D
    BY <2>2
  <2> QED BY <1>2, <2>1, <2>3
<1>3. ASSUME \A i \in area : rows[i] = Blank PROVE UsedRange(rows, area) = NoData
  <2>1. D = {}
    BY <1>3
  <2> HIDE DEF D
  <2>2. [i \in D |-> rows[i]] = [i \in {} |-> Blank]
    BY <2>1
  <2> QED BY <1>1, <2>2 DEF NoData
<1> QED BY <1>2, <1>3

(* What is captured, put back where it was, is all there was.               *)
LEMMA PutBackThere ==
  ASSUME NEW rows \in RowLists, NEW area \in SUBSET Rows, NEW other \in RowLists,
         \A i \in area : other[i] = Blank, NEW i \in Rows
  PROVE  Filled(other, UsedRange(rows, area))[i] = IF i \in area THEN rows[i] ELSE other[i]
<1> DEFINE full == {k \in area : rows[k] # Blank}
           D == {j \in area : (\E k \in full : k <= j) /\ (\E k \in full : j <= k)}
           data == UsedRange(rows, area)
<1>1. data = [j \in D |-> rows[j]]
  BY DEF UsedRange
<1>2. i \notin D /\ i \in area => rows[i] = Blank
  <2>1. i <= i
    BY RowsAre
  <2> QED BY <2>1
<1>3. D \subseteq area
  OBVIOUS
<1> HIDE DEF D, full
<1>4. DOMAIN data = D /\ \A j \in D : data[j] = rows[j]
  BY <1>1
<1> HIDE DEF data
<1>5. Filled(other, data)[i] = IF i \in D THEN data[i] ELSE other[i]
  BY <1>4 DEF Filled
<1> QED BY <1>2, <1>3, <1>4, <1>5 DEF data

LEMMA SameRows ==
  ASSUME NEW r \in RowLists, NEW s \in RowLists, \A i \in Rows : r[i] = s[i]
  PROVE  r = s
BY DEF RowLists

LEMMA SpanIs == \A first, count : Span(first, count) \in SUBSET Rows
BY DEF Span

LEMMA RowListsOf ==
  ASSUME NEW rows \in RowLists, NEW first \in Rows, NEW count \in Nat \ {0}
  PROVE  Inserted(rows, first, count) \in RowLists /\ Removed(rows, first, count) \in RowLists
BY RowsOf DEF RowLists

(* Rows inserted and removed again.                                         *)
LEMMA RowsInAndOut ==
  ASSUME NEW rows \in RowLists, NEW first \in Rows, NEW count \in Nat \ {0}, NoneFalls(rows, first, count)
  PROVE  /\ Removed(Inserted(rows, first, count), first, count) = rows
         /\ \A i \in Span(first, count) : Inserted(rows, first, count)[i] = Blank
<1> DEFINE s == Inserted(rows, first, count)
           t == Removed(s, first, count)
<1>0. s \in RowLists /\ first \in Nat /\ MaxRows \in Nat /\ Rows = 1..MaxRows
  BY RowListsOf, RowsAre
<1>1. \A i \in Rows : s[i] = IF i < first THEN rows[i] ELSE IF i < first + count THEN Blank ELSE rows[i - count]
  BY DEF Inserted
<1> HIDE DEF s
<1>2. t \in RowLists /\ \A i \in Rows : t[i] = IF i < first THEN s[i] ELSE IF i + count <= MaxRows THEN s[i + count] ELSE Blank
  BY <1>0, RowListsOf DEF Removed
<1> HIDE DEF t
<1>3. ASSUME NEW i \in Rows PROVE t[i] = rows[i]
  <2>1. CASE i < first
    BY <1>1, <1>2, <2>1
  <2>2. CASE ~(i < first) /\ i + count <= MaxRows
    <3>1. i + count \in Rows /\ ~(i + count < first) /\ ~(i + count < first + count) /\ (i + count) - count = i
      BY <1>0, <2>2
    <3>2. s[i + count] = rows[i]
      BY <1>1, <3>1
    <3> QED BY <1>2, <2>2, <3>2
  <2>3. CASE ~(i < first) /\ ~(i + count <= MaxRows)
    <3>1. first <= i /\ i + count > MaxRows
      BY <1>0, <2>3
    <3> QED BY <1>2, <2>3, <3>1 DEF NoneFalls
  <2> QED BY <2>1, <2>2, <2>3
<1>4. t = rows
  BY <1>2, <1>3, SameRows
<1>5. ASSUME NEW i \in Span(first, count) PROVE s[i] = Blank
  BY <1>0, <1>1, <1>5 DEF Span
<1> QED BY <1>4, <1>5 DEF t, s

(* Rows removed, inserted again and filled with what was captured of them.  *)
LEMMA RowsOutAndIn ==
  ASSUME NEW rows \in RowLists, NEW first \in Rows, NEW count \in Nat \ {0}
  PROVE  /\ Filled(Inserted(Removed(rows, first, count), first, count), UsedRange(rows, Span(first, count))) = rows
         /\ NoneFalls(Removed(rows, first, count), first, count)
<1> DEFINE t == Removed(rows, first, count)
           s == Inserted(t, first, count)
           data == UsedRange(rows, Span(first, count))
           r == Filled(s, data)
<1>0. t \in RowLists /\ first \in Nat /\ MaxRows \in Nat /\ Rows = 1..MaxRows
  BY RowListsOf, RowsAre
<1>1. \A i \in Rows : t[i] = IF i < first THEN rows[i] ELSE IF i + count <= MaxRows THEN rows[i + count] ELSE Blank
  BY DEF Removed
<1> HIDE DEF t
<1>2. /\ s \in RowLists
      /\ \A i \in Rows : s[i] = IF i < first THEN t[i] ELSE IF i < first + count THEN Blank ELSE t[i - count]
  BY <1>0, RowListsOf DEF Inserted
<1> HIDE DEF s
<1>3. \A i \in Span(first, count) : s[i] = Blank
  BY <1>0, <1>2 DEF Span
<1>4. \A i \in Rows : r[i] = IF i \in Span(first, count) THEN rows[i] ELSE s[i]
  BY <1>2, <1>3, SpanIs, PutBackThere
<1>5. r \in RowLists
  <2>1. data \in Captures
    BY SpanIs, RowsOf DEF RowLists
  <2> HIDE DEF data
  <2> QED BY <1>2, <2>1, RowsOf DEF RowLists
<1> HIDE DEF r
<1>6. ASSUME NEW i \in Rows PROVE r[i] = rows[i]
  <2>1. CASE i < first
    BY <1>0, <1>1, <1>2, <1>4, <2>1
  <2>2. CASE i \in Span(first, count)
    BY <1>4, <2>2
  <2>3. CASE first + count <= i
    <3>1. /\ i - count \in Rows /\ ~(i - count < first) /\ (i - count) + count = i /\ i <= MaxRows
          /\ ~(i < first) /\ ~(i < first + count) /\ i \notin Span(first, count)
      BY <1>0, <2>3 DEF Span
    <3>2. t[i - count] = rows[i]
      BY <1>1, <3>1
    <3> QED BY <1>2, <1>4, <3>1, <3>2
  <2> QED BY <1>0, <2>1, <2>2, <2>3 DEF Span
<1>7. r = rows
  BY <1>5, <1>6, SameRows
<1>8. NoneFalls(t, first, count)
  <2> SUFFICES ASSUME NEW i \in Rows, first <= i, i + count > MaxRows PROVE t[i] = Blank
    BY DEF NoneFalls
  <2> QED BY <1>0, <1>1
<1> QED BY <1>7, <1>8 DEF r, s, t, data

LEMMA FilledIs ==
  ASSUME NEW rows \in RowLists, NEW data \in Captures
  PROVE  /\ Filled(rows, data) \in RowLists
         /\ \A i \in Rows : Filled(rows, data)[i] = IF i \in DOMAIN data THEN data[i] ELSE rows[i]
BY RowsOf DEF RowLists, Filled

(* What was filled in can be captured again, and goes with its rows.        *)
LEMMA FilledFits ==
  ASSUME NEW rows \in RowLists, NEW area \in SUBSET Rows, \A i \in area : rows[i] = Blank,
         NEW data \in Captures, ~TooLarge(data), DOMAIN data \subseteq area
  PROVE  ~TooLarge(UsedRange(Filled(rows, data), area))
<1> DEFINE f == Filled(rows, data)
           full == {i \in area : f[i] # Blank}
           D == {j \in area : (\E k \in full : k <= j) /\ (\E k \in full : j <= k)}
<1>0. MaxRows \in Nat /\ MaxCells \in Nat /\ Rows = 1..MaxRows
  BY RowsAre
<1>1. \A i \in Rows : f[i] = IF i \in DOMAIN data THEN data[i] ELSE rows[i]
  BY FilledIs
<1>2. full \subseteq DOMAIN data
  BY <1>1
<1>3. DOMAIN UsedRange(f, area) = D
  BY DEF UsedRange
<1> SUFFICES ASSUME NEW i \in D, NEW j \in D, i + MaxCells <= j PROVE FALSE
  BY <1>3 DEF TooLarge
<1>4. PICK k \in full : k <= i
  OBVIOUS
<1>5. PICK l \in full : j <= l
  OBVIOUS
<1>6. k \in Nat /\ l \in Nat /\ i \in Nat /\ j \in Nat
  BY <1>0
<1>7. k + MaxCells <= l
  BY <1>0, <1>4, <1>5, <1>6
<1> QED BY <1>2, <1>7 DEF TooLarge

LEMMA RemovedFilled ==
  ASSUME NEW rows \in RowLists, NEW first \in Rows, NEW count \in Nat \ {0},
         NEW data \in Captures, DOMAIN data \subseteq Span(first, count)
  PROVE  Removed(Filled(rows, data), first, count) = Removed(rows, first, count)
<1> DEFINE f == Filled(rows, data)
           s == Removed(f, first, count)
           t == Removed(rows, first, count)
<1>0. f \in RowLists /\ first \in Nat /\ MaxRows \in Nat /\ Rows = 1..MaxRows
  BY FilledIs, RowsAre
<1>1. \A i \in Rows : f[i] = IF i \in DOMAIN data THEN data[i] ELSE rows[i]
  BY FilledIs
<1> HIDE DEF f
<1>2. s \in RowLists /\ \A i \in Rows : s[i] = IF i < first THEN f[i] ELSE IF i + count <= MaxRows THEN f[i + count] ELSE Blank
  BY <1>0, RowListsOf DEF Removed
<1>3. t \in RowLists /\ \A i \in Rows : t[i] = IF i < first THEN rows[i] ELSE IF i + count <= MaxRows THEN rows[i + count] ELSE Blank
  BY <1>0, RowListsOf DEF Removed
<1> HIDE DEF s, t
<1>4. ASSUME NEW i \in Rows PROVE s[i] = t[i]
  <2>1. CASE i < first
    <3>1. i \notin DOMAIN data
      BY <1>0, <2>1 DEF Span
    <3> QED BY <1>1, <1>2, <1>3, <2>1, <3>1
  <2>2. CASE ~(i < first) /\ i + count <= MaxRows
    <3>1. i + count \in Rows /\ i + count \notin DOMAIN data
      BY <1>0, <2>2 DEF Span
    <3> QED BY <1>1, <1>2, <1>3, <2>2, <3>1
  <2>3. CASE ~(i < first) /\ ~(i + count <= MaxRows)
    BY <1>2, <1>3, <2>3
  <2> QED BY <2>1, <2>2, <2>3
<1>5. s = t
  BY <1>2, <1>3, <1>4, SameRows
<1> QED BY <1>5 DEF s, t, f

LEMMA NoDataFills == \A rows \in RowLists : Filled(rows, NoData) = rows
<1> SUFFICES ASSUME NEW rows \in RowLists PROVE Filled(rows, NoData) = rows
  OBVIOUS
<1>1. NoData \in Captures /\ DOMAIN NoData = {}
  BY RowsOf DEF NoData
<1>2. Filled(rows, NoData) \in RowLists /\ \A i \in Rows : Filled(rows, NoData)[i] = rows[i]
  BY <1>1, FilledIs
<1> QED BY <1>2, SameRows

-----------------------------------------------------------------------------
(* The workbook as the user sees it                                         *)

AnySheet == [id : Nat, name : Names, visible : BOOLEAN, rows : RowLists]

LEMMA BareIs == \A e \in AnySheet : Bare(e) = Look(e.name, e.visible, e.rows) /\ Bare(e) \in AnySheet
<1> SUFFICES ASSUME NEW e \in AnySheet PROVE Bare(e) = Look(e.name, e.visible, e.rows) /\ Bare(e) \in AnySheet
  OBVIOUS
<1>1. e = [id |-> e.id, name |-> e.name, visible |-> e.visible, rows |-> e.rows]
  BY DEF AnySheet
<1>2. /\ e.name \in Names /\ e.visible \in BOOLEAN /\ e.rows \in RowLists /\ DOMAIN e = {"id", "name", "visible", "rows"}
  BY DEF AnySheet
<1>3. Bare(e) = [id |-> 0, name |-> e.name, visible |-> e.visible, rows |-> e.rows]
  BY <1>1 DEF Bare
<1> QED BY <1>2, <1>3 DEF Look, AnySheet

LEMMA LookIs ==
  ASSUME NEW name \in Names, NEW visible \in BOOLEAN, NEW rows \in RowLists
  PROVE  /\ Look(name, visible, rows) \in AnySheet /\ Look(name, visible, rows).name = name
         /\ Look(name, visible, rows).visible = visible /\ Look(name, visible, rows).rows = rows
BY DEF Look, AnySheet

LEMMA AnySheetHas ==
  ASSUME NEW e \in AnySheet PROVE e.name \in Names /\ e.visible \in BOOLEAN /\ e.rows \in RowLists /\ e.id \in Nat
BY DEF AnySheet

LEMMA PlainIs ==
  ASSUME NEW w \in Seq(AnySheet)
  PROVE  /\ Plain(w) \in Seq(AnySheet) /\ Len(Plain(w)) = Len(w) /\ Len(w) \in Nat
         /\ \A n \in 1..Len(w) : /\ Plain(w)[n] = Bare(w[n]) /\ w[n] \in AnySheet
                                /\ Plain(w)[n].name = w[n].name /\ Plain(w)[n].visible = w[n].visible
                                /\ Plain(w)[n].rows = w[n].rows
<1>1. DOMAIN w = 1..Len(w) /\ Len(w) \in Nat /\ \A n \in 1..Len(w) : w[n] \in AnySheet
  OBVIOUS
<1>2. Plain(w) = [n \in 1..Len(w) |-> Bare(w[n])]
  BY <1>1 DEF Plain
<1>3. \A n \in 1..Len(w) : Bare(w[n]) \in AnySheet
  BY <1>1, BareIs
<1>4. Plain(w) \in [1..Len(w) -> AnySheet]
  BY <1>2, <1>3
<1>5. Plain(w) \in Seq(AnySheet) /\ Len(Plain(w)) = Len(w)
  BY <1>1, <1>4
<1>6. ASSUME NEW n \in 1..Len(w)
      PROVE  /\ Plain(w)[n] = Bare(w[n]) /\ w[n] \in AnySheet
             /\ Plain(w)[n].name = w[n].name /\ Plain(w)[n].visible = w[n].visible
             /\ Plain(w)[n].rows = w[n].rows
  <2>1. Plain(w)[n] = Bare(w[n]) /\ w[n] \in AnySheet
    BY <1>1, <1>2
  <2>2. Bare(w[n]) = Look(w[n].name, w[n].visible, w[n].rows)
    BY <2>1, BareIs
  <2> QED BY <2>1, <2>2, AnySheetHas, LookIs
<1> QED BY <1>1, <1>5, <1>6

LEMMA PlainSame ==
  ASSUME NEW w \in Seq(AnySheet)
  PROVE  /\ SomeVisible(Plain(w)) <=> SomeVisible(w)
         /\ \A p, name : Others(Plain(w), p, name) <=> Others(w, p, name)
<1>1. /\ DOMAIN w = 1..Len(w) /\ DOMAIN Plain(w) = 1..Len(w) /\ Len(Plain(w)) = Len(w)
      /\ \A n \in 1..Len(w) : Plain(w)[n].name = w[n].name /\ Plain(w)[n].visible = w[n].visible
  BY PlainIs
<1> QED BY <1>1 DEF SomeVisible, Others

LEMMA AlikePlain == \A w, g : Alike(w, g) <=> Plain(w) = Plain(g)
<1> SUFFICES ASSUME NEW w, NEW g PROVE Alike(w, g) <=> Plain(w) = Plain(g)
  OBVIOUS
<1>1. /\ Plain(w) = [n \in DOMAIN w |-> Bare(w[n])] /\ Plain(g) = [n \in DOMAIN g |-> Bare(g[n])]
  BY DEF Plain
<1>2. Alike(w, g) <=> DOMAIN w = DOMAIN g /\ \A n \in DOMAIN w : Bare(w[n]) = Bare(g[n])
  BY DEF Alike, Bare
<1>3. ASSUME Plain(w) = Plain(g) PROVE Alike(w, g)
  <2>1. DOMAIN Plain(w) = DOMAIN w /\ DOMAIN Plain(g) = DOMAIN g
    BY <1>1
  <2>2. DOMAIN w = DOMAIN g
    BY <1>3, <2>1
  <2>3. ASSUME NEW n \in DOMAIN w PROVE Bare(w[n]) = Bare(g[n])
    <3>1. Plain(w)[n] = Bare(w[n]) /\ Plain(g)[n] = Bare(g[n])
      BY <1>1, <2>2
    <3> QED BY <1>3, <3>1
  <2> QED BY <1>2, <2>2, <2>3
<1>4. ASSUME Alike(w, g) PROVE Plain(w) = Plain(g)
  BY <1>1, <1>2, <1>4
<1> QED BY <1>3, <1>4

LEMMA PlainPut ==
  ASSUME NEW w \in Seq(AnySheet), NEW i \in 1..Len(w), NEW e \in AnySheet
  PROVE  Plain(PutSheet(w, i, e)) = PutSheet(Plain(w), i, Bare(e))
<1>1. /\ PutSheet(w, i, e) \in Seq(AnySheet) /\ Len(PutSheet(w, i, e)) = Len(w) /\ PutSheet(w, i, e)[i] = e
      /\ \A n \in 1..Len(w) : n # i => PutSheet(w, i, e)[n] = w[n]
  BY ExceptAt DEF PutSheet
<1>2. Bare(e) \in AnySheet /\ Plain(w) \in Seq(AnySheet) /\ Len(Plain(w)) = Len(w)
  BY BareIs, PlainIs
<1>3. /\ PutSheet(Plain(w), i, Bare(e)) \in Seq(AnySheet) /\ Len(PutSheet(Plain(w), i, Bare(e))) = Len(w)
      /\ PutSheet(Plain(w), i, Bare(e))[i] = Bare(e)
      /\ \A n \in 1..Len(w) : n # i => PutSheet(Plain(w), i, Bare(e))[n] = Plain(w)[n]
  BY <1>2, ExceptAt DEF PutSheet
<1>4. Plain(PutSheet(w, i, e)) \in Seq(AnySheet) /\ Len(Plain(PutSheet(w, i, e))) = Len(w)
  BY <1>1, PlainIs
<1>5. ASSUME NEW n \in 1..Len(w) PROVE Plain(PutSheet(w, i, e))[n] = PutSheet(Plain(w), i, Bare(e))[n]
  <2>1. Plain(PutSheet(w, i, e))[n] = Bare(PutSheet(w, i, e)[n]) /\ Plain(w)[n] = Bare(w[n])
    BY <1>1, PlainIs
  <2> QED BY <1>1, <1>3, <2>1
<1> QED BY <1>3, <1>4, <1>5, SameItems

LEMMA PlainRemoved ==
  ASSUME NEW w \in Seq(AnySheet), NEW i \in 1..Len(w)
  PROVE  Plain(RemoveAt(w, i)) = RemoveAt(Plain(w), i)
<1> DEFINE u == RemoveAt(w, i)
           v == RemoveAt(Plain(w), i)
<1>0. Plain(w) \in Seq(AnySheet) /\ Len(Plain(w)) = Len(w) /\ Len(w) \in Nat
  BY PlainIs
<1>1. /\ u \in Seq(AnySheet) /\ Len(u) = Len(w) - 1
      /\ \A n \in 1..(Len(w) - 1) : u[n] = IF n < i THEN w[n] ELSE w[n + 1]
  BY RemoveAtIs
<1>2. /\ v \in Seq(AnySheet) /\ Len(v) = Len(w) - 1
      /\ \A n \in 1..(Len(w) - 1) : v[n] = IF n < i THEN Plain(w)[n] ELSE Plain(w)[n + 1]
  BY <1>0, RemoveAtIs
<1> HIDE DEF u, v
<1>3. Plain(u) \in Seq(AnySheet) /\ Len(Plain(u)) = Len(w) - 1
  BY <1>1, PlainIs
<1>4. ASSUME NEW n \in 1..(Len(w) - 1) PROVE Plain(u)[n] = v[n]
  <2>1. Plain(u)[n] = Bare(u[n])
    BY <1>1, PlainIs
  <2>2. n \in 1..Len(w) /\ n + 1 \in 1..Len(w)
    BY <1>0
  <2>3. Plain(w)[n] = Bare(w[n]) /\ Plain(w)[n + 1] = Bare(w[n + 1])
    BY <2>2, PlainIs
  <2> QED BY <1>1, <1>2, <2>1, <2>3
<1>5. Plain(u) = v
  BY <1>2, <1>3, <1>4, SameItems
<1> QED BY <1>5 DEF u, v

LEMMA PlainInserted ==
  ASSUME NEW w \in Seq(AnySheet), NEW i \in 1..(Len(w) + 1), NEW e \in AnySheet
  PROVE  Plain(InsertAt(w, i, e)) = InsertAt(Plain(w), i, Bare(e))
<1> DEFINE u == InsertAt(w, i, e)
           v == InsertAt(Plain(w), i, Bare(e))
<1>0. Plain(w) \in Seq(AnySheet) /\ Len(Plain(w)) = Len(w) /\ Len(w) \in Nat /\ Bare(e) \in AnySheet
  BY PlainIs, BareIs
<1>1. /\ u \in Seq(AnySheet) /\ Len(u) = Len(w) + 1
      /\ \A n \in 1..(Len(w) + 1) : u[n] = IF n < i THEN w[n] ELSE IF n = i THEN e ELSE w[n - 1]
  <2>1. InsertedIn(AnySheet, u, w, i, e)
    BY InsertAtHas
  <2> QED BY <2>1 DEF InsertedIn
<1>2. i \in 1..(Len(Plain(w)) + 1)
  BY <1>0
<1>3. /\ v \in Seq(AnySheet) /\ Len(v) = Len(Plain(w)) + 1
      /\ \A n \in 1..(Len(Plain(w)) + 1) :
           v[n] = IF n < i THEN Plain(w)[n] ELSE IF n = i THEN Bare(e) ELSE Plain(w)[n - 1]
  <2>1. InsertedIn(AnySheet, v, Plain(w), i, Bare(e))
    BY <1>0, <1>2, InsertAtHas
  <2> QED BY <2>1 DEF InsertedIn
<1> HIDE DEF u, v
<1>4. Plain(u) \in Seq(AnySheet) /\ Len(Plain(u)) = Len(w) + 1
  BY <1>1, PlainIs
<1>5. ASSUME NEW n \in 1..(Len(w) + 1) PROVE Plain(u)[n] = v[n]
  <2>1. Plain(u)[n] = Bare(u[n])
    BY <1>1, PlainIs
  <2>2. v[n] = IF n < i THEN Plain(w)[n] ELSE IF n = i THEN Bare(e) ELSE Plain(w)[n - 1]
    BY <1>0, <1>3
  <2>3. CASE n < i
    <3>1. n \in 1..Len(w)
      BY <1>0, <2>3
    <3> QED BY <1>1, <2>1, <2>2, <2>3, <3>1, PlainIs
  <2>4. CASE n = i
    BY <1>0, <1>1, <2>1, <2>2, <2>4
  <2>5. CASE i < n
    <3>1. n - 1 \in 1..Len(w) /\ ~(n < i) /\ n # i
      BY <1>0, <2>5
    <3>2. Plain(w)[n - 1] = Bare(w[n - 1])
      BY <3>1, PlainIs
    <3> QED BY <1>1, <2>1, <2>2, <3>1, <3>2
  <2> QED BY <1>0, <2>3, <2>4, <2>5
<1>6. Plain(u) = v
  BY <1>0, <1>3, <1>4, <1>5, SameItems
<1> QED BY <1>6 DEF u, v

-----------------------------------------------------------------------------
(* Workbooks and places                                                     *)

Legible(w) == w \in Seq(AnySheet) /\ ByPlace(w) /\ SomeVisible(w)

LEMMA LegibleIs ==
  ASSUME NEW k \in Nat, NEW w \in Seq([id : 1..k, name : Names, visible : BOOLEAN, rows : [Rows -> Texts \cup {Blank}]]),
         Distinct(w), Visible(w)
  PROVE  Legible(w)
<1> DEFINE S == [id : 1..k, name : Names, visible : BOOLEAN, rows : [Rows -> Texts \cup {Blank}]]
<1>1. S \subseteq AnySheet
  BY DEF AnySheet, RowLists, Cells
<1> HIDE DEF S
<1>2. w \in Seq(S)
  BY DEF S
<1>3. w \in Seq(AnySheet)
  BY <1>1, <1>2, ListsOfMore
<1>4. ByPlace(w) /\ SomeVisible(w)
  BY <1>2, DistinctIs, VisibleIs
<1> QED BY <1>3, <1>4 DEF Legible

LEMMA NowLegible == WorkbookTypes => Legible(workbook)
BY LegibleIs DEF WorkbookTypes, SheetStates

LEMMA ThenLegible == WorkbookTypes' => Legible(workbook')
<1> SUFFICES ASSUME WorkbookTypes' PROVE Legible(workbook')
  OBVIOUS
<1>1. /\ sheetIds' \in Nat /\ Distinct(workbook') /\ Visible(workbook')
      /\ workbook' \in Seq([id : 1..sheetIds', name : Names, visible : BOOLEAN, rows : [Rows -> Texts \cup {Blank}]])
  BY DEF WorkbookTypes, SheetStates
<1> QED BY <1>1, LegibleIs

LEMMA LegibleHas ==
  ASSUME NEW w, Legible(w)
  PROVE  /\ w \in Seq(AnySheet) /\ Len(w) \in Nat /\ DOMAIN w = 1..Len(w) /\ SomeVisible(w) /\ SomeVisible(Plain(w))
         /\ Plain(w) \in Seq(AnySheet) /\ Len(Plain(w)) = Len(w)
         /\ \A n \in 1..Len(w) : /\ w[n] \in AnySheet /\ Plain(w)[n] = Look(w[n].name, w[n].visible, w[n].rows)
                                /\ Others(w, n, w[n].name) /\ Others(Plain(w), n, w[n].name)
                                /\ \A m \in 1..Len(w) : n # m => w[n].id # w[m].id
<1>1. w \in Seq(AnySheet) /\ DOMAIN w = 1..Len(w) /\ SomeVisible(w)
  BY DEF Legible
<1>2. ASSUME NEW n \in 1..Len(w)
      PROVE  /\ w[n] \in AnySheet /\ Plain(w)[n] = Look(w[n].name, w[n].visible, w[n].rows)
             /\ Others(w, n, w[n].name) /\ Others(Plain(w), n, w[n].name)
             /\ \A m \in 1..Len(w) : n # m => w[n].id # w[m].id
  <2>1. Others(w, n, w[n].name) /\ \A m \in 1..Len(w) : n # m => w[n].id # w[m].id
    BY DEF Legible, ByPlace, Others
  <2> QED BY <1>1, <2>1, PlainIs, PlainSame, BareIs
<1> QED BY <1>1, <1>2, PlainIs, PlainSame

LEMMA PlaceIs ==
  ASSUME NEW w, Legible(w), NEW n \in 1..Len(w)
  PROVE  PlaceIn(w, w[n].id) = n
<1> DEFINE id == w[n].id
<1>1. DOMAIN w = 1..Len(w) /\ \A m \in 1..Len(w) : w[m].id = id => m = n
  BY LegibleHas
<1>2. \E m \in DOMAIN w : w[m].id = id
  BY <1>1
<1>3. PlaceIn(w, id) = CHOOSE m \in DOMAIN w : w[m].id = id
  BY <1>2 DEF PlaceIn
<1>4. PlaceIn(w, id) \in DOMAIN w /\ w[PlaceIn(w, id)].id = id
  BY <1>2, <1>3, Zenon
<1> QED BY <1>1, <1>4

LEMMA NoPlace ==
  ASSUME NEW w, Legible(w), NEW id, \A n \in 1..Len(w) : w[n].id # id
  PROVE  PlaceIn(w, id) = 0
<1>1. DOMAIN w = 1..Len(w)
  BY LegibleHas
<1> QED BY <1>1 DEF PlaceIn

(* The host takes a name no other sheet has.                                *)
LEMMA FreeName ==
  ASSUME WorkbookTypes, NEW name, NEW t, Others(workbook, t, name)
  PROVE  PlaceByName(name) \in {0, t}
<1> SUFFICES ASSUME PlaceByName(name) # 0 PROVE PlaceByName(name) = t
  OBVIOUS
<1> QED BY NamePlaced DEF Others

LEMMA AnyUpdates ==
  ASSUME NEW e \in AnySheet
  PROVE  /\ \A name \in Names : LET f == [e EXCEPT !.name = name] IN
              f \in AnySheet /\ f.id = e.id /\ f.name = name /\ f.visible = e.visible /\ f.rows = e.rows
         /\ \A visible \in BOOLEAN : LET f == [e EXCEPT !.visible = visible] IN
              f \in AnySheet /\ f.id = e.id /\ f.name = e.name /\ f.visible = visible /\ f.rows = e.rows
         /\ \A rows \in RowLists : LET f == [e EXCEPT !.rows = rows] IN
              f \in AnySheet /\ f.id = e.id /\ f.name = e.name /\ f.visible = e.visible /\ f.rows = rows
<1>1. e = [id |-> e.id, name |-> e.name, visible |-> e.visible, rows |-> e.rows]
  BY DEF AnySheet
<1> QED BY <1>1, AnySheetHas DEF AnySheet

(* One sheet changes where it is.                                           *)
LEMMA PutWay ==
  ASSUME NEW w, Legible(w), NEW t \in 1..Len(w), NEW e \in AnySheet, e.id = w[t].id, NEW v, v = PutSheet(w, t, e), Legible(v)
  PROVE  /\ Plain(v) = PutSheet(Plain(w), t, Look(e.name, e.visible, e.rows))
         /\ PlaceIn(v, w[t].id) = t /\ Len(v) = Len(w) /\ v[t] = e
         /\ PutSheet(Plain(v), t, Look(w[t].name, w[t].visible, w[t].rows)) = Plain(w)
         /\ Others(Plain(v), t, w[t].name)
<1>1. w \in Seq(AnySheet) /\ w[t] \in AnySheet /\ Plain(w) \in Seq(AnySheet) /\ Len(Plain(w)) = Len(w)
  BY LegibleHas
<1>2. /\ v \in Seq(AnySheet) /\ Len(v) = Len(w) /\ v[t] = e
      /\ \A n \in 1..Len(w) : n # t => v[n] = w[n]
  BY <1>1, ExceptAt DEF PutSheet
<1>3. Bare(e) = Look(e.name, e.visible, e.rows) /\ Bare(e) \in AnySheet
  BY BareIs
<1>4. Plain(v) = PutSheet(Plain(w), t, Look(e.name, e.visible, e.rows))
  BY <1>1, <1>3, PlainPut
<1>5. PlaceIn(v, v[t].id) = t
  BY <1>2, PlaceIs
<1>6. PutSheet(PutSheet(Plain(w), t, Bare(e)), t, Plain(w)[t]) = Plain(w)
  BY <1>1, <1>3, PutBack
<1>7. Plain(w)[t] = Look(w[t].name, w[t].visible, w[t].rows) /\ Others(w, t, w[t].name)
  BY LegibleHas
<1>8. Others(v, t, w[t].name)
  BY <1>2, <1>7 DEF Others
<1>9. Others(Plain(v), t, w[t].name)
  BY <1>2, <1>8, PlainSame
<1> QED BY <1>2, <1>3, <1>4, <1>5, <1>6, <1>7, <1>9

-----------------------------------------------------------------------------
(* How a step keeps the invariant                                           *)

LEMMA DoneUndoes ==
  ASSUME StructureInv, UndoInv, NEW state, DoneWith(state), Fits(state),
         origin # Gone => Reverses(state, PlaceIn(workbook', state.id), Plain(workbook'), Plain(origin)),
         owed # Gone => Plain(workbook') = Plain(owed)
  PROVE  UndoInv'
<1> DEFINE b == [state |-> state, goes |-> origin, from |-> IF origin = Gone THEN Gone ELSE workbook']
<1>1. backups' = <<b>> \o backups /\ standing' = "idle" /\ owed' = owed
  BY DEF DoneWith, Idle
<1>2. b.state = state /\ b.goes = origin /\ b.from = IF origin = Gone THEN Gone ELSE workbook'
  OBVIOUS
<1> HIDE DEF b
<1>3. backups \in Seq(ToSet(backups))
  BY DEF StructureInv, BackupTypes
<1>4. ToSet(backups') = ToSet(backups) \cup {b}
  BY <1>1, <1>3, PrependAdds
<1>5. b.from # Gone => Reverses(b.state, PlaceIn(b.from, b.state.id), Plain(b.from), Plain(b.goes))
  BY <1>2
<1>6. BackupsReverse'
  BY <1>2, <1>4, <1>5 DEF UndoInv, BackupsReverse
<1>7. owed' # Gone => Alike(workbook', owed')
  BY <1>1, AlikePlain
<1> QED BY <1>1, <1>6, <1>7 DEF UndoInv, Caught

LEMMA EndUndoes ==
  ASSUME UndoInv, standing' = "idle", backups' = backups, owed' = owed, owed # Gone => Plain(workbook') = Plain(owed)
  PROVE  UndoInv'
<1>1. BackupsReverse'
  BY DEF UndoInv, BackupsReverse
<1>2. owed' # Gone => Alike(workbook', owed')
  BY AlikePlain
<1> QED BY <1>1, <1>2 DEF UndoInv, Caught

LEMMA AwaitUndoes ==
  ASSUME UndoInv, UNCHANGED <<backups, change, origin, owed>>, standing # "idle", standing' # "idle",
         origin # Gone => Apart', owed # Gone => Ahead', Caught'
  PROVE  UndoInv'
<1>1. BackupsReverse'
  BY DEF UndoInv, BackupsReverse
<1>2. Fits(Made)'
  BY DEF UndoInv, Made, Fits, Reach
<1> QED BY <1>1, <1>2 DEF UndoInv

LEMMA KindsApart ==
  ASSUME NEW state, NEW p, NEW w, NEW g, Reverses(state, p, w, g)
  PROVE  /\ state.kind # "copy"
         /\ state.kind = "sheet_name" => GivesName(state, p, w, g)
         /\ state.kind = "sheet_visibility" => GivesVisible(state, p, w, g)
         /\ state.kind = "rows_present" => GivesRows(state, p, w, g)
         /\ state.kind = "rows_absent" => TakesRows(state, p, w, g)
         /\ state.kind = "sheet_present" => GivesSheet(state, p, w, g)
         /\ state.kind = "sheet_absent" => TakesSheet(state, p, w, g)
BY DEF Reverses

-----------------------------------------------------------------------------
(* One sheet changes where it is                                            *)

LEMMA ApartAt ==
  ASSUME UndoInv, origin # Gone, standing \in {"loaded", "checked", "captured"}, seen # Gone \/ Made.kind # "sheet_present"
  PROVE  workbook = origin /\ Target # 0 /\ seen.position = Target /\ seen.sheet = workbook[Target]
BY DEF UndoInv, Apart

LEMMA AheadAt ==
  ASSUME UndoInv, owed # Gone, standing \in {"loaded", "checked", "captured"}, seen # Gone \/ Made.kind # "sheet_present"
  PROVE  Reverses(Made, Target, Plain(workbook), Plain(owed)) /\ ~change.tool
BY DEF UndoInv, Ahead

LEMMA TargetIs ==
  ASSUME StructureInv, Target # 0
  PROVE  /\ Target \in 1..Len(workbook) /\ Target \in Nat /\ workbook[Target].id = seen.sheet.id /\ Legible(workbook)
         /\ workbook[Target] \in AnySheet
         /\ workbook[Target].name \in Names /\ workbook[Target].visible \in BOOLEAN /\ workbook[Target].rows \in RowLists
<1>1. Legible(workbook) /\ Target \in 1..Len(workbook) /\ workbook[Target].id = seen.sheet.id
  BY NowLegible, TargetFound DEF StructureInv
<1> QED BY <1>1, LegibleHas, AnySheetHas

LEMMA SetNameUndoes ==
  ASSUME StructureInv, StructureInv', UndoInv, SetName
  PROVE  UndoInv'
<1> DEFINE t == Target
           s == workbook[t]
           e == [s EXCEPT !.name = Made.name]
<1>0. /\ standing = "loaded" /\ Made.kind = "sheet_name" /\ t # 0 /\ Made.name \in Names
  BY DEF SetName, Loaded, StructureInv, OperationTypes, Stated
<1>1. /\ t \in 1..Len(workbook) /\ Legible(workbook) /\ Legible(workbook') /\ s \in AnySheet /\ s.id = seen.sheet.id
  BY <1>0, TargetIs, ThenLegible DEF StructureInv
<1>2. ASSUME owed # Gone PROVE GivesName(Made, t, Plain(workbook), Plain(owed))
  BY <1>0, <1>2, AheadAt, KindsApart
<1>3. CASE PlaceByName(Made.name) \notin {0, t}
  <2>1. owed = Gone
    <3> SUFFICES ASSUME owed # Gone PROVE FALSE
      OBVIOUS
    <3>1. Others(Plain(workbook), t, Made.name)
      BY <1>2 DEF GivesName
    <3>2. Others(workbook, t, Made.name)
      BY <1>1, <3>1, LegibleHas, PlainSame
    <3> QED BY <1>3, <3>2, FreeName DEF StructureInv
  <2>2. Refused
    BY <1>3 DEF SetName
  <2> QED BY <2>1, <2>2, EndUndoes DEF Refused, Idle
<1>4. CASE PlaceByName(Made.name) \in {0, t}
  <2>1. workbook' = [workbook EXCEPT ![t].name = Made.name] /\ DoneWith(NameState(seen.sheet, seen.sheet.name))
    BY <1>4 DEF SetName
  <2>2. /\ e \in AnySheet /\ e.id = s.id /\ e.name = Made.name /\ e.visible = s.visible /\ e.rows = s.rows
    BY <1>0, <1>1, AnyUpdates
  <2>3. workbook' = PutSheet(workbook, t, e)
    BY <2>1 DEF PutSheet
  <2> HIDE DEF e
  <2>4. /\ Plain(workbook') = PutSheet(Plain(workbook), t, Look(Made.name, s.visible, s.rows))
        /\ PlaceIn(workbook', s.id) = t /\ Len(workbook') = Len(workbook) /\ workbook'[t] = e
        /\ PutSheet(Plain(workbook'), t, Look(s.name, s.visible, s.rows)) = Plain(workbook)
        /\ Others(Plain(workbook'), t, s.name)
    BY <1>1, <2>2, <2>3, PutWay
  <2>5. /\ Len(Plain(workbook)) = Len(workbook) /\ Plain(workbook)[t].visible = s.visible /\ Plain(workbook)[t].rows = s.rows
        /\ Len(Plain(workbook')) = Len(workbook) /\ Plain(workbook')[t].visible = s.visible /\ Plain(workbook')[t].rows = s.rows
    BY <1>1, <2>2, <2>4, LegibleHas, PlainIs
  <2>6. ASSUME owed # Gone PROVE Plain(workbook') = Plain(owed)
    BY <1>2, <2>4, <2>5, <2>6 DEF GivesName
  <2> DEFINE state == NameState(seen.sheet, seen.sheet.name)
  <2>7. state.kind = "sheet_name" /\ state.id = seen.sheet.id /\ state.name = seen.sheet.name
    BY DEF NameState
  <2> HIDE DEF state
  <2>8. Fits(state)
    BY <2>7 DEF Fits
  <2>9. ASSUME origin # Gone PROVE Reverses(state, PlaceIn(workbook', state.id), Plain(workbook'), Plain(origin))
    <3>1. workbook = origin /\ seen.sheet = s
      BY <1>0, <2>9, ApartAt
    <3>2. GivesName(state, t, Plain(workbook'), Plain(origin))
      BY <1>1, <2>4, <2>5, <2>7, <3>1 DEF GivesName
    <3> QED BY <2>4, <2>7, <3>1, <3>2 DEF Reverses
  <2> QED BY <2>1, <2>6, <2>8, <2>9, DoneUndoes DEF state
<1> QED BY <1>3, <1>4

LEMMA SetVisibilityUndoes ==
  ASSUME StructureInv, StructureInv', UndoInv, SetVisibility
  PROVE  UndoInv'
<1> DEFINE t == Target
           s == workbook[t]
           e == [s EXCEPT !.visible = Made.visible]
           revealed == [workbook EXCEPT ![t].visible = Made.visible]
<1>0. /\ standing = "loaded" /\ Made.kind = "sheet_visibility" /\ t # 0 /\ Made.visible \in BOOLEAN
  BY DEF SetVisibility, Loaded, StructureInv, OperationTypes, Stated
<1>1. /\ t \in 1..Len(workbook) /\ Legible(workbook) /\ Legible(workbook') /\ s \in AnySheet /\ s.id = seen.sheet.id
  BY <1>0, TargetIs, ThenLegible DEF StructureInv
<1>2. ASSUME owed # Gone PROVE GivesVisible(Made, t, Plain(workbook), Plain(owed))
  BY <1>0, <1>2, AheadAt, KindsApart
<1>3. /\ e \in AnySheet /\ e.id = s.id /\ e.name = s.name /\ e.visible = Made.visible /\ e.rows = s.rows
  BY <1>0, <1>1, AnyUpdates
<1>4. revealed = PutSheet(workbook, t, e)
  BY DEF PutSheet
<1> HIDE DEF e
<1>5. /\ Len(Plain(workbook)) = Len(workbook) /\ Plain(workbook)[t].name = s.name /\ Plain(workbook)[t].rows = s.rows
      /\ workbook \in Seq(AnySheet)
  BY <1>1, LegibleHas, PlainIs
<1>6. Plain(revealed) = PutSheet(Plain(workbook), t, Look(s.name, Made.visible, s.rows)) /\ revealed \in Seq(AnySheet)
  <2>1. Bare(e) = Look(e.name, e.visible, e.rows)
    BY <1>3, BareIs
  <2>2. PutSheet(workbook, t, e) \in Seq(AnySheet)
    BY <1>1, <1>3, <1>5, ExceptAt DEF PutSheet
  <2> QED BY <1>1, <1>3, <1>4, <1>5, <2>1, <2>2, PlainPut
<1>7. ASSUME owed # Gone PROVE Plain(revealed) = Plain(owed) /\ SomeVisible(revealed)
  <2>1. Plain(owed) = PutSheet(Plain(workbook), t, Look(s.name, Made.visible, s.rows)) /\ SomeVisible(Plain(owed))
    BY <1>2, <1>5, <1>7 DEF GivesVisible
  <2>2. Plain(owed) = Plain(revealed)
    BY <1>6, <2>1
  <2> QED BY <1>6, <2>1, <2>2, PlainSame
<1>8. CASE ~SomeVisible(revealed)
  <2>1. Refused
    BY <1>8 DEF SetVisibility
  <2> QED BY <1>7, <1>8, <2>1, EndUndoes DEF Refused, Idle
<1>9. CASE SomeVisible(revealed)
  <2>1. workbook' = revealed /\ DoneWith(VisibilityState(seen.sheet, seen.sheet.visible))
    BY <1>9 DEF SetVisibility
  <2> HIDE DEF revealed
  <2>4. /\ PlaceIn(workbook', s.id) = t /\ Len(workbook') = Len(workbook) /\ workbook'[t] = e
        /\ PutSheet(Plain(workbook'), t, Look(s.name, s.visible, s.rows)) = Plain(workbook)
    BY <1>1, <1>3, <1>4, <2>1, PutWay
  <2>5. /\ Len(Plain(workbook')) = Len(workbook) /\ Plain(workbook')[t].name = s.name /\ Plain(workbook')[t].rows = s.rows
        /\ SomeVisible(Plain(workbook))
    BY <1>1, <1>3, <2>4, LegibleHas, PlainIs
  <2> DEFINE state == VisibilityState(seen.sheet, seen.sheet.visible)
  <2>7. state.kind = "sheet_visibility" /\ state.id = seen.sheet.id /\ state.visible = seen.sheet.visible
    BY DEF VisibilityState
  <2> HIDE DEF state
  <2>8. Fits(state)
    BY <2>7 DEF Fits
  <2>9. ASSUME origin # Gone PROVE Reverses(state, PlaceIn(workbook', state.id), Plain(workbook'), Plain(origin))
    <3>1. workbook = origin /\ seen.sheet = s
      BY <1>0, <2>9, ApartAt
    <3>2. GivesVisible(state, t, Plain(workbook'), Plain(origin))
      BY <1>1, <2>4, <2>5, <2>7, <3>1 DEF GivesVisible
    <3> QED BY <2>4, <2>7, <3>1, <3>2 DEF Reverses
  <2> QED BY <1>7, <2>1, <2>8, <2>9, DoneUndoes DEF state
<1> QED BY <1>8, <1>9

-----------------------------------------------------------------------------
(* Rows that appear                                                         *)

LEMMA PutPut ==
  ASSUME NEW w, NEW i, NEW e, NEW f
  PROVE  PutSheet(PutSheet(w, i, e), i, f) = PutSheet(w, i, f)
BY DEF PutSheet

LEMMA ReachRows ==
  ASSUME NEW state, state.kind \in {"rows_absent", "rows_present"}
  PROVE  Reach(state) = Span(state.first, state.count)
BY DEF Reach, Span

LEMMA NothingInSpan ==
  ASSUME NEW rows \in RowLists, NEW first, NEW count
  PROVE  UsedRange(rows, Span(first, count)) = NoData <=> \A i \in Span(first, count) : rows[i] = Blank
<1>1. Span(first, count) \in SUBSET Rows
  BY SpanIs
<1> QED BY <1>1, NothingThere

LEMMA ReachSheet ==
  ASSUME NEW state, state.kind \in {"sheet_absent", "sheet_present"} PROVE Reach(state) = Rows
BY DEF Reach

LEMMA PlainAt ==
  ASSUME NEW w, Legible(w), NEW t \in 1..Len(w)
  PROVE  /\ Len(Plain(w)) = Len(w) /\ Plain(w)[t].name = w[t].name /\ Plain(w)[t].visible = w[t].visible
         /\ Plain(w)[t].rows = w[t].rows
BY LegibleHas, PlainIs

(* The rows of one sheet become others.                                     *)
RowsSet(w, t, rows, v) ==
  LET s == w[t] IN
  /\ Plain(v) = PutSheet(Plain(w), t, Look(s.name, s.visible, rows))
  /\ PlaceIn(v, s.id) = t /\ Len(v) = Len(w) /\ Len(Plain(v)) = Len(w)
  /\ v[t].name = s.name /\ v[t].visible = s.visible /\ v[t].rows = rows
  /\ PutSheet(Plain(v), t, Look(s.name, s.visible, s.rows)) = Plain(w)
  /\ Plain(v)[t].name = s.name /\ Plain(v)[t].visible = s.visible /\ Plain(v)[t].rows = rows
  /\ \A r : PutSheet(Plain(v), t, Look(s.name, s.visible, r)) = PutSheet(Plain(w), t, Look(s.name, s.visible, r))

LEMMA RowsWay ==
  ASSUME NEW w, Legible(w), NEW t \in 1..Len(w), NEW rows \in RowLists, NEW v, v = [w EXCEPT ![t].rows = rows], Legible(v)
  PROVE  RowsSet(w, t, rows, v)
<1> DEFINE s == w[t]
<1>1. s \in AnySheet
  BY LegibleHas
<1>2. PICK e \in AnySheet : e.id = s.id /\ e.name = s.name /\ e.visible = s.visible /\ e.rows = rows /\ v = PutSheet(w, t, e)
  <2> DEFINE e == [s EXCEPT !.rows = rows]
  <2>1. e \in AnySheet /\ e.id = s.id /\ e.name = s.name /\ e.visible = s.visible /\ e.rows = rows
    BY <1>1, AnyUpdates
  <2>2. v = PutSheet(w, t, e)
    BY DEF PutSheet
  <2> HIDE DEF e
  <2> QED BY <2>1, <2>2
<1>3. Legible(w) /\ Legible(v) /\ t \in 1..Len(w)
  OBVIOUS
<1>4. /\ Plain(v) = PutSheet(Plain(w), t, Look(e.name, e.visible, e.rows))
      /\ PlaceIn(v, w[t].id) = t /\ Len(v) = Len(w) /\ v[t] = e
      /\ PutSheet(Plain(v), t, Look(w[t].name, w[t].visible, w[t].rows)) = Plain(w)
  BY ONLY <1>2, <1>3, PutWay
<1>5. /\ Plain(v)[t].name = v[t].name /\ Plain(v)[t].visible = v[t].visible /\ Plain(v)[t].rows = v[t].rows
      /\ Len(Plain(v)) = Len(v)
  BY ONLY <1>3, <1>4, PlainAt
<1>6. ASSUME NEW r
      PROVE  PutSheet(Plain(v), t, Look(s.name, s.visible, r)) = PutSheet(Plain(w), t, Look(s.name, s.visible, r))
  BY <1>2, <1>4, PutPut
<1> QED BY <1>2, <1>4, <1>5, <1>6 DEF RowsSet

LEMMA InsertRowsUndoes ==
  ASSUME StructureInv, StructureInv', UndoInv, InsertRows
  PROVE  UndoInv'
<1> DEFINE t == Target
           s == workbook[t]
           first == Made.first
           count == Made.count
           rows == Inserted(s.rows, first, count)
           back == RowsAbsent(seen.sheet, first, count, FALSE)
<1>0. /\ standing = "loaded" /\ Made.kind = "rows_present" /\ t # 0 /\ first \in Rows /\ count \in Nat \ {0}
      /\ Made.data \in Captures
  BY DEF InsertRows, Loaded, StructureInv, OperationTypes, Stated
<1>1. /\ t \in 1..Len(workbook) /\ Legible(workbook) /\ Legible(workbook') /\ s \in AnySheet /\ s.id = seen.sheet.id
      /\ s.rows \in RowLists /\ s.name \in Names /\ s.visible \in BOOLEAN
  BY <1>0, TargetIs, ThenLegible DEF StructureInv
<1>2. ASSUME owed # Gone
      PROVE  /\ NoneFalls(s.rows, first, count) /\ ~change.tool
             /\ Plain(owed) = PutSheet(Plain(workbook), t, Look(s.name, s.visible, Filled(rows, Made.data)))
  <2>1. GivesRows(Made, t, Plain(workbook), Plain(owed)) /\ ~change.tool
    BY <1>0, <1>2, AheadAt, KindsApart
  <2> QED BY <1>1, <2>1, PlainAt DEF GivesRows
<1>3. CASE ~NoneFalls(s.rows, first, count)
  <2>1. Refused
    BY <1>3 DEF InsertRows, NoneFalls
  <2> QED BY <1>2, <1>3, <2>1, EndUndoes DEF Refused, Idle
<1>4. CASE NoneFalls(s.rows, first, count)
  <2>1. /\ workbook' = [workbook EXCEPT ![t].rows = rows]
        /\ IF Made.data = NoData THEN DoneWith(back)
           ELSE standing' = "appeared" /\ UNCHANGED <<backups, change, seen, captured, origin, owed, bounds>>
    BY <1>4 DEF InsertRows, NoneFalls
  <2>2. /\ rows \in RowLists /\ Removed(rows, first, count) = s.rows /\ \A i \in Span(first, count) : rows[i] = Blank
    BY <1>0, <1>1, <1>4, RowListsOf, RowsInAndOut
  <2> HIDE DEF rows
  <2>3. RowsSet(workbook, t, rows, workbook')
    BY <1>1, <2>1, <2>2, RowsWay
  <2>5. /\ back.kind = "rows_absent" /\ back.id = seen.sheet.id /\ back.first = first /\ back.count = count
        /\ Fits(back) /\ Reach(back) = Span(first, count)
    BY ReachRows DEF RowsAbsent, Fits
  <2>6. ASSUME origin # Gone PROVE TakesRows(back, t, Plain(workbook'), Plain(origin))
    <3>1. workbook = origin
      BY <1>0, <2>6, ApartAt
    <3>2. MayGo(back, rows)
      <4>1. UsedRange(rows, Span(first, count)) = NoData
        BY <2>2, NothingInSpan
      <4> QED BY <2>5, <4>1 DEF MayGo
    <3> HIDE DEF back
    <3> QED BY <1>1, <2>2, <2>3, <2>5, <3>1, <3>2 DEF TakesRows, RowsSet
  <2>7. CASE Made.data = NoData
    <3>1. ASSUME owed # Gone PROVE Plain(workbook') = Plain(owed)
      <4>1. Filled(rows, NoData) = rows
        BY <2>2, NoDataFills
      <4> QED BY <1>2, <2>3, <2>7, <3>1, <4>1 DEF rows, RowsSet
    <3>2. DoneWith(back)
      BY <2>1, <2>7
    <3>3. ASSUME origin # Gone PROVE Reverses(back, PlaceIn(workbook', back.id), Plain(workbook'), Plain(origin))
      BY <1>1, <2>3, <2>5, <2>6, <3>3 DEF Reverses, RowsSet
    <3> HIDE DEF back
    <3> QED BY <2>5, <3>1, <3>2, <3>3, DoneUndoes
  <2>8. CASE Made.data # NoData
    <3>1. standing' = "appeared" /\ UNCHANGED <<backups, change, seen, captured, origin, owed>>
      BY <2>1, <2>8
    <3>2. Target' = t /\ Made' = Made
      BY <1>1, <2>3, <3>1 DEF Target, PlaceOf, Made, RowsSet
    <3>3. ASSUME origin # Gone PROVE Apart'
      <4>1. TakesRows(back, t, Plain(workbook'), Plain(origin))
        BY <2>6, <3>3
      <4> QED BY <1>0, <3>1, <3>2, <4>1 DEF Apart
    <3>4. ASSUME owed # Gone PROVE Ahead'
      <4>2. Plain(owed) = PutSheet(Plain(workbook'), t, Look(s.name, s.visible, Filled(rows, Made.data)))
        BY <1>2, <2>3, <3>4 DEF rows, RowsSet
      <4> QED BY <1>0, <1>2, <2>3, <3>1, <3>2, <3>4, <4>2 DEF Ahead, RowsSet
    <3> QED BY <1>0, <3>1, <3>3, <3>4, AwaitUndoes DEF Caught
  <2> QED BY <2>7, <2>8
<1> QED BY <1>3, <1>4

(* What is filled in may go again.                                          *)
LEMMA FillInUndoes ==
  ASSUME StructureInv, StructureInv', UndoInv, FillIn
  PROVE  UndoInv'
<1> DEFINE t == Target
           s == workbook[t]
           data == Made.data
           rows == Filled(s.rows, data)
<1>0. /\ standing = "appeared" /\ Made.kind \in {"sheet_present", "rows_present"} /\ t # 0 /\ data \in Captures
      /\ Made.kind = "rows_present" => Made.first \in Rows /\ Made.count \in Nat \ {0}
      /\ Fits(Made) /\ workbook' = [workbook EXCEPT ![t].rows = rows]
  BY DEF FillIn, StructureInv, OperationTypes, Stated, UndoInv
<1>1. /\ t \in 1..Len(workbook) /\ Legible(workbook) /\ Legible(workbook') /\ s \in AnySheet /\ s.id = seen.sheet.id
      /\ s.rows \in RowLists /\ s.name \in Names /\ s.visible \in BOOLEAN
  BY <1>0, TargetIs, ThenLegible DEF StructureInv
<1>2. ~TooLarge(data) /\ DOMAIN data \subseteq Reach(Made)
  BY <1>0 DEF Fits
<1>3. rows \in RowLists
  BY <1>0, <1>1, FilledIs
<1>4. RowsSet(workbook, t, rows, workbook')
  BY <1>0, <1>1, <1>3, RowsWay
<1>5. ASSUME owed # Gone PROVE Plain(workbook') = Plain(owed)
  BY <1>0, <1>4, <1>5 DEF UndoInv, Ahead, RowsSet
<1>6. CASE Made.kind = "sheet_present"
  <2> DEFINE back == SheetAbsent(seen.sheet, TRUE)
             before == SheetAbsent(seen.sheet, FALSE)
  <2>1. DoneWith(back)
    BY <1>6 DEF FillIn
  <2>2. back.kind = "sheet_absent" /\ back.id = seen.sheet.id /\ back.allow = TRUE /\ Fits(back) /\ Reach(back) = Rows
    BY ReachSheet DEF SheetAbsent, Fits
  <2>3. ASSUME origin # Gone PROVE Reverses(back, PlaceIn(workbook', back.id), Plain(workbook'), Plain(origin))
    <3>1. TakesSheet(before, t, Plain(workbook), Plain(origin))
      BY <1>0, <1>6, <2>3 DEF UndoInv, Apart
    <3>2. before.kind = "sheet_absent" /\ before.allow = FALSE /\ Reach(before) = Rows
      BY ReachSheet DEF SheetAbsent
    <3> HIDE DEF before
    <3>3. MayGo(before, s.rows) /\ Plain(origin) = RemoveAt(Plain(workbook), t) /\ SomeVisible(Plain(origin))
      BY <1>0, <1>1, <3>1, PlainAt DEF TakesSheet
    <3>4. UsedRange(s.rows, Rows) = NoData
      BY <3>2, <3>3 DEF MayGo
    <3>5. \A i \in Rows : s.rows[i] = Blank
      BY <1>1, <3>4, NothingThere
    <3>6. Reach(Made) = Rows
      BY <1>6, ReachSheet
    <3>7. ~TooLarge(UsedRange(rows, Rows))
      BY <1>0, <1>1, <1>2, <3>5, <3>6, FilledFits
    <3>8. MayGo(back, rows)
      BY <2>2, <3>7 DEF MayGo
    <3>9. RemoveAt(Plain(workbook'), t) = RemoveAt(Plain(workbook), t)
      <4>1. Look(s.name, s.visible, rows) \in AnySheet
        BY <1>1, <1>3, LookIs
      <4>2. Plain(workbook) \in Seq(AnySheet) /\ t \in 1..Len(Plain(workbook))
        BY <1>1, LegibleHas
      <4> HIDE DEF rows
      <4> QED BY <1>4, <4>1, <4>2, RemovedPut DEF RowsSet
    <3> HIDE DEF back, rows
    <3>10. TakesSheet(back, t, Plain(workbook'), Plain(origin))
      BY <1>1, <1>4, <3>3, <3>8, <3>9 DEF TakesSheet, RowsSet
    <3> QED BY <1>1, <1>4, <2>2, <3>10 DEF Reverses, RowsSet
  <2> HIDE DEF back
  <2> QED BY <1>5, <2>1, <2>2, <2>3, DoneUndoes
<1>7. CASE Made.kind = "rows_present"
  <2> DEFINE first == Made.first
             count == Made.count
             back == RowsAbsent(seen.sheet, first, count, TRUE)
             before == RowsAbsent(seen.sheet, first, count, FALSE)
  <2>0. first \in Rows /\ count \in Nat \ {0}
    BY <1>0, <1>7
  <2>1. DoneWith(back)
    BY <1>7 DEF FillIn
  <2>2. /\ back.kind = "rows_absent" /\ back.id = seen.sheet.id /\ back.allow = TRUE /\ back.first = first /\ back.count = count
        /\ Fits(back) /\ Reach(back) = Span(first, count)
    BY ReachRows DEF RowsAbsent, Fits
  <2>3. ASSUME origin # Gone PROVE Reverses(back, PlaceIn(workbook', back.id), Plain(workbook'), Plain(origin))
    <3>1. TakesRows(before, t, Plain(workbook), Plain(origin))
      BY <1>0, <1>7, <2>3 DEF UndoInv, Apart
    <3>2. /\ before.allow = FALSE /\ before.first = first /\ before.count = count /\ Reach(before) = Span(first, count)
      BY ReachRows DEF RowsAbsent
    <3> HIDE DEF before
    <3>3. /\ MayGo(before, s.rows)
          /\ Plain(origin) = PutSheet(Plain(workbook), t, Look(s.name, s.visible, Removed(s.rows, first, count)))
      BY <1>0, <1>1, <3>1, <3>2, PlainAt DEF TakesRows
    <3>4. UsedRange(s.rows, Span(first, count)) = NoData
      BY <3>2, <3>3 DEF MayGo
    <3>5. \A i \in Span(first, count) : s.rows[i] = Blank
      BY <1>1, <3>4, NothingInSpan
    <3>6. DOMAIN data \subseteq Span(first, count) /\ Span(first, count) \in SUBSET Rows
      BY <1>2, <1>7, ReachRows, SpanIs
    <3>7. ~TooLarge(UsedRange(rows, Span(first, count)))
      BY <1>0, <1>1, <1>2, <3>5, <3>6, FilledFits
    <3>8. MayGo(back, rows)
      BY <2>2, <3>7 DEF MayGo
    <3>9. Removed(rows, first, count) = Removed(s.rows, first, count)
      BY <1>0, <1>1, <2>0, <3>6, RemovedFilled
    <3> HIDE DEF back, rows
    <3>10. TakesRows(back, t, Plain(workbook'), Plain(origin))
      BY <1>1, <1>4, <2>2, <3>3, <3>8, <3>9 DEF TakesRows, RowsSet
    <3> QED BY <1>1, <1>4, <2>2, <3>10 DEF Reverses, RowsSet
  <2> HIDE DEF back
  <2> QED BY <1>5, <2>1, <2>2, <2>3, DoneUndoes
<1> QED BY <1>0, <1>6, <1>7

-----------------------------------------------------------------------------
(* What goes is read before                                                 *)

LEMMA AreaIs ==
  ASSUME Made.kind \in {"sheet_absent", "rows_absent"}
  PROVE  Area = Reach(Made) /\ DataThere = UsedRange(workbook[Target].rows, Reach(Made))
BY DEF Area, Reach, DataThere

LEMMA NoDataSmall == ~TooLarge(NoData) /\ DOMAIN NoData = {}
BY DEF TooLarge, NoData

LEMMA UsedIn ==
  ASSUME NEW rows, NEW area PROVE DOMAIN UsedRange(rows, area) \subseteq area
BY DEF UsedRange

LEMMA CheckDataUndoes ==
  ASSUME StructureInv, StructureInv', UndoInv, CheckData
  PROVE  UndoInv'
<1> DEFINE t == Target
           s == workbook[t]
<1>0. /\ standing = "loaded" /\ Made.kind \in {"sheet_absent", "rows_absent"} /\ t # 0 /\ ~change.tool
  BY DEF CheckData, Going, Loaded
<1>1. t \in 1..Len(workbook) /\ Legible(workbook)
  BY <1>0, TargetIs
<1>2. ASSUME owed # Gone PROVE MayGo(Made, s.rows)
  <2>1. Reverses(Made, t, Plain(workbook), Plain(owed))
    BY <1>0, <1>2, AheadAt
  <2>2. Made.kind = "rows_absent" => TakesRows(Made, t, Plain(workbook), Plain(owed))
    BY <2>1, KindsApart
  <2>3. Made.kind = "sheet_absent" => TakesSheet(Made, t, Plain(workbook), Plain(owed))
    BY <2>1, KindsApart
  <2> QED BY <1>0, <1>1, <2>2, <2>3, PlainAt DEF TakesRows, TakesSheet
<1>3. DataThere = UsedRange(s.rows, Reach(Made))
  BY <1>0, AreaIs
<1>4. CASE DataThere # NoData /\ ~Made.allow
  <2>1. owed = Gone
    BY <1>2, <1>3, <1>4 DEF MayGo
  <2>2. Refused
    BY <1>4 DEF CheckData
  <2> QED BY <2>1, <2>2, EndUndoes DEF Refused, Idle
<1>5. CASE ~(DataThere # NoData /\ ~Made.allow)
  <2>1. /\ workbook' = workbook /\ UNCHANGED <<backups, change, seen, origin, owed>>
        /\ \/ DataThere = NoData /\ standing' = "captured" /\ captured' = NoData
           \/ DataThere # NoData /\ standing' = "checked"
    BY <1>5 DEF CheckData
  <2>2. Target' = t /\ Made' = Made /\ DataThere' = DataThere /\ Reach(Made)' = Reach(Made)
    BY <2>1 DEF Target, PlaceOf, Made, DataThere, Area, Reach
  <2>3. ASSUME origin # Gone PROVE Apart'
    BY <1>0, <2>1, <2>2, <2>3, ApartAt DEF Apart
  <2>4. ASSUME owed # Gone PROVE Ahead'
    BY <1>0, <2>1, <2>2, <2>4 DEF UndoInv, Ahead
  <2>5. Caught'
    BY <2>1, <2>2, NoDataSmall DEF Caught
  <2> QED BY <1>0, <2>1, <2>3, <2>4, <2>5, AwaitUndoes
<1> QED BY <1>4, <1>5

LEMMA CaptureDataUndoes ==
  ASSUME StructureInv, StructureInv', UndoInv, CaptureData
  PROVE  UndoInv'
<1> DEFINE t == Target
           s == workbook[t]
<1>0. /\ standing \in {"loaded", "checked"} /\ Made.kind \in {"sheet_absent", "rows_absent"} /\ t # 0
      /\ standing = "checked" \/ change.tool
  BY DEF CaptureData, Going, Loaded, StructureInv, OperationTypes
<1>1. t \in 1..Len(workbook) /\ Legible(workbook)
  BY <1>0, TargetIs
<1>2. ASSUME owed # Gone PROVE MayGo(Made, s.rows) /\ DataThere # NoData /\ ~change.tool
  <2>1. Reverses(Made, t, Plain(workbook), Plain(owed)) /\ ~change.tool
    BY <1>0, <1>2, AheadAt
  <2>2. Made.kind = "rows_absent" => TakesRows(Made, t, Plain(workbook), Plain(owed))
    BY <2>1, KindsApart
  <2>3. Made.kind = "sheet_absent" => TakesSheet(Made, t, Plain(workbook), Plain(owed))
    BY <2>1, KindsApart
  <2>4. DataThere # NoData
    BY <1>0, <1>2, <2>1 DEF UndoInv, Ahead
  <2> QED BY <1>0, <1>1, <2>1, <2>2, <2>3, <2>4, PlainAt DEF TakesRows, TakesSheet
<1>3. DataThere = UsedRange(s.rows, Reach(Made)) /\ DOMAIN DataThere \subseteq Reach(Made)
  BY <1>0, AreaIs, UsedIn
<1>4. CASE ~change.tool /\ (TooLarge(DataThere) \/ DataThere = NoData)
  <2>1. owed = Gone
    BY <1>2, <1>3, <1>4 DEF MayGo
  <2>2. Refused
    BY <1>4 DEF CaptureData
  <2> QED BY <2>1, <2>2, EndUndoes DEF Refused, Idle
<1>5. CASE ~(~change.tool /\ (TooLarge(DataThere) \/ DataThere = NoData))
  <2>1. /\ workbook' = workbook /\ UNCHANGED <<backups, change, seen, origin, owed>> /\ standing' = "captured"
        /\ captured' = IF TooLarge(DataThere) THEN Gone ELSE DataThere
    BY <1>5 DEF CaptureData
  <2>2. Target' = t /\ Made' = Made /\ DataThere' = DataThere /\ Reach(Made)' = Reach(Made)
    BY <2>1 DEF Target, PlaceOf, Made, DataThere, Area, Reach
  <2>3. ASSUME origin # Gone PROVE Apart'
    BY <1>0, <2>1, <2>2, <2>3, ApartAt DEF Apart
  <2>4. ASSUME owed # Gone PROVE Ahead'
    BY <1>0, <2>1, <2>2, <2>4 DEF UndoInv, Ahead
  <2>5. Caught'
    BY <1>3, <2>1, <2>2 DEF Caught
  <2> QED BY <1>0, <2>1, <2>3, <2>4, <2>5, AwaitUndoes
<1> QED BY <1>4, <1>5

LEMMA DeleteRowsUndoes ==
  ASSUME StructureInv, StructureInv', UndoInv, DeleteNow, Made.kind = "rows_absent"
  PROVE  UndoInv'
<1> DEFINE t == Target
           s == workbook[t]
           first == Made.first
           count == Made.count
           rows == Removed(s.rows, first, count)
           left == [workbook EXCEPT ![t].rows = rows]
           back == RowsPresent(seen.sheet, first, count, captured)
<1>0. /\ standing = "captured" /\ t # 0 /\ first \in Rows /\ count \in Nat \ {0} /\ captured \in {Gone} \cup Captures
  BY DEF DeleteNow, StructureInv, OperationTypes, Stated
<1>1. /\ t \in 1..Len(workbook) /\ Legible(workbook) /\ Legible(workbook') /\ s \in AnySheet /\ s.id = seen.sheet.id
      /\ s.rows \in RowLists /\ s.name \in Names /\ s.visible \in BOOLEAN
  BY <1>0, TargetIs, ThenLegible DEF StructureInv
<1>2. rows \in RowLists
  BY <1>0, <1>1, RowListsOf
<1>3. SomeVisible(left)
  <2>1. rows \in [Rows -> Cells]
    BY <1>2 DEF RowLists
  <2> HIDE DEF rows
  <2>2. left \in Seq(SheetStates) /\ Visible(left)
    BY <1>1, <2>1, RowsChanged DEF StructureInv
  <2> HIDE DEF left
  <2> QED BY <2>2, VisibleIs
<1>4. workbook' = left /\ IF captured = Gone THEN DoneWithout ELSE DoneWith(back)
  BY <1>3 DEF DeleteNow
<1>5. RowsSet(workbook, t, rows, workbook')
  BY <1>1, <1>2, <1>4, RowsWay
<1>6. ASSUME owed # Gone PROVE Plain(workbook') = Plain(owed)
  <2>1. TakesRows(Made, t, Plain(workbook), Plain(owed))
    BY <1>0, <1>6, AheadAt, KindsApart
  <2> QED BY <1>1, <1>5, <2>1, PlainAt DEF TakesRows, RowsSet
<1>7. CASE captured = Gone
  <2>1. DoneWithout
    BY <1>4, <1>7
  <2> QED BY <1>6, <2>1, EndUndoes DEF DoneWithout, Idle
<1>8. CASE captured # Gone
  <2>1. DoneWith(back)
    BY <1>4, <1>8
  <2>2. /\ back.kind = "rows_present" /\ back.id = seen.sheet.id /\ back.first = first /\ back.count = count
        /\ back.data = captured /\ Reach(back) = Span(first, count)
    BY ReachRows DEF RowsPresent
  <2> HIDE DEF back
  <2>3. Fits(back)
    <3>1. ~TooLarge(captured) /\ DOMAIN captured \subseteq Reach(Made)
      BY <1>0, <1>8 DEF UndoInv, Caught
    <3> QED BY <2>2, <3>1, ReachRows DEF Fits
  <2>4. ASSUME origin # Gone PROVE Reverses(back, PlaceIn(workbook', back.id), Plain(workbook'), Plain(origin))
    <3>1. workbook = origin
      BY <1>0, <2>4, ApartAt
    <3>2. captured = UsedRange(s.rows, Span(first, count))
      <4>1. captured = DataThere
        BY <1>0, <1>8, <2>4 DEF UndoInv, Apart
      <4> QED BY <4>1, AreaIs, ReachRows
    <3>3. Filled(Inserted(rows, first, count), captured) = s.rows /\ NoneFalls(rows, first, count)
      BY <1>0, <1>1, <3>2, RowsOutAndIn
    <3> HIDE DEF rows
    <3>4. GivesRows(back, t, Plain(workbook'), Plain(origin))
      BY <1>1, <1>5, <2>2, <3>1, <3>3 DEF GivesRows, RowsSet
    <3> QED BY <1>1, <1>5, <2>2, <3>4 DEF Reverses, RowsSet
  <2> QED BY <1>6, <2>1, <2>3, <2>4, DoneUndoes
<1> QED BY <1>7, <1>8

LEMMA NoValuesIs ==
  /\ NoValues \in RowLists /\ UsedRange(NoValues, Rows) = NoData
  /\ \A rows \in RowLists : Filled(NoValues, UsedRange(rows, Rows)) = rows
<1>1. NoValues \in RowLists /\ \A i \in Rows : NoValues[i] = Blank
  BY DEF NoValues, RowLists, Cells
<1>2. UsedRange(NoValues, Rows) = NoData
  BY <1>1, NothingThere
<1>3. ASSUME NEW rows \in RowLists PROVE Filled(NoValues, UsedRange(rows, Rows)) = rows
  <2>1. UsedRange(rows, Rows) \in Captures
    BY RowsOf DEF RowLists
  <2>2. Filled(NoValues, UsedRange(rows, Rows)) \in RowLists
    BY <1>1, <2>1, FilledIs
  <2>3. \A i \in Rows : Filled(NoValues, UsedRange(rows, Rows))[i] = rows[i]
    BY <1>1, PutBackThere
  <2> QED BY <2>2, <2>3, SameRows
<1> QED BY <1>1, <1>2, <1>3

LEMMA DeleteSheetUndoes ==
  ASSUME StructureInv, StructureInv', UndoInv, DeleteNow, Made.kind = "sheet_absent"
  PROVE  UndoInv'
<1> DEFINE t == Target
           s == workbook[t]
           left == RemoveAt(workbook, t)
           back == SheetPresent(seen.sheet, seen.position, captured)
<1>0. /\ standing = "captured" /\ t # 0 /\ captured \in {Gone} \cup Captures
  BY DEF DeleteNow, StructureInv, OperationTypes
<1>1. /\ t \in 1..Len(workbook) /\ Legible(workbook) /\ Legible(workbook') /\ s \in AnySheet /\ s.id = seen.sheet.id
      /\ s.rows \in RowLists /\ s.name \in Names /\ s.visible \in BOOLEAN
  BY <1>0, TargetIs, ThenLegible DEF StructureInv
<1>2. /\ workbook \in Seq(AnySheet) /\ Plain(workbook) \in Seq(AnySheet) /\ Len(Plain(workbook)) = Len(workbook)
      /\ Len(workbook) \in Nat /\ Plain(workbook)[t] = Look(s.name, s.visible, s.rows)
  BY <1>1, LegibleHas
<1>3. /\ left \in Seq(AnySheet) /\ Len(left) = Len(workbook) - 1
      /\ \A n \in 1..(Len(workbook) - 1) : left[n] = IF n < t THEN workbook[n] ELSE workbook[n + 1]
      /\ Plain(left) = RemoveAt(Plain(workbook), t)
  BY <1>1, <1>2, RemoveAtIs, PlainRemoved
<1>4. ASSUME owed # Gone PROVE Plain(left) = Plain(owed) /\ SomeVisible(left)
  <2>1. TakesSheet(Made, t, Plain(workbook), Plain(owed))
    BY <1>0, <1>4, AheadAt, KindsApart
  <2>2. Plain(owed) = RemoveAt(Plain(workbook), t) /\ SomeVisible(Plain(owed))
    BY <1>1, <2>1 DEF TakesSheet
  <2>3. SomeVisible(Plain(left))
    BY <1>3, <2>2
  <2> HIDE DEF left
  <2> QED BY <1>3, <2>2, <2>3, PlainSame
<1>5. CASE ~SomeVisible(left)
  <2>1. Refused
    BY <1>5 DEF DeleteNow
  <2> QED BY <1>4, <1>5, <2>1, EndUndoes DEF Refused, Idle
<1>6. CASE SomeVisible(left) /\ captured = Gone
  <2>1. workbook' = left /\ DoneWithout
    BY <1>6 DEF DeleteNow
  <2> QED BY <1>4, <2>1, EndUndoes DEF DoneWithout, Idle
<1>7. CASE SomeVisible(left) /\ captured # Gone
  <2>1. workbook' = left /\ DoneWith(back)
    BY <1>7 DEF DeleteNow
  <2> HIDE DEF left
  <2>2. /\ back.kind = "sheet_present" /\ back.id = seen.sheet.id /\ back.name = seen.sheet.name
        /\ back.visible = seen.sheet.visible /\ back.position = seen.position
        /\ back.data = captured /\ Reach(back) = Rows
    BY ReachSheet DEF SheetPresent
  <2> HIDE DEF back
  <2>3. Fits(back)
    <3>1. ~TooLarge(captured) /\ DOMAIN captured \subseteq Reach(Made)
      BY <1>0, <1>7 DEF UndoInv, Caught
    <3> QED BY <2>2, <3>1, ReachSheet DEF Fits
  <2>4. ASSUME NEW n \in 1..Len(left) PROVE left[n].id # s.id /\ left[n].name # s.name
    <3>1. PICK m \in 1..Len(workbook) : m # t /\ left[n] = workbook[m]
      <4>1. CASE n < t
        <5>1. n \in 1..Len(workbook) /\ n # t /\ left[n] = workbook[n]
          BY <1>2, <1>3, <4>1
        <5> QED BY <5>1
      <4>2. CASE ~(n < t)
        <5>1. n + 1 \in 1..Len(workbook) /\ n + 1 # t /\ left[n] = workbook[n + 1]
          BY <1>1, <1>2, <1>3, <4>2
        <5> QED BY <5>1
      <4> QED BY <4>1, <4>2
    <3>2. workbook[t].id # workbook[m].id /\ Others(workbook, t, workbook[t].name)
      BY <1>1, <3>1, LegibleHas
    <3> QED BY <3>1, <3>2 DEF Others
  <2>5. PlaceIn(workbook', s.id) = 0
    BY <1>1, <2>1, <2>4, NoPlace
  <2>6. Others(Plain(workbook'), 0, s.name) /\ Len(Plain(workbook')) = Len(workbook) - 1
    <3>1. Others(left, 0, s.name)
      BY <2>4 DEF Others
    <3> QED BY <1>3, <2>1, <3>1, PlainSame, PlainIs
  <2>7. ASSUME origin # Gone PROVE Reverses(back, PlaceIn(workbook', back.id), Plain(workbook'), Plain(origin))
    <3>1. workbook = origin /\ seen.position = t /\ seen.sheet = s
      BY <1>0, <2>7, ApartAt
    <3>2. captured = UsedRange(s.rows, Rows)
      <4>1. captured = DataThere
        BY <1>0, <1>7, <2>7 DEF UndoInv, Apart
      <4> QED BY <4>1, AreaIs, ReachSheet
    <3>3. Filled(NoValues, captured) = s.rows
      BY <1>1, <3>2, NoValuesIs
    <3>4. InsertAt(Plain(workbook'), t, Look(s.name, s.visible, s.rows)) = Plain(workbook)
      BY <1>1, <1>2, <1>3, <2>1, RemovedInserted
    <3>5. GivesSheet(back, 0, Plain(workbook'), Plain(origin))
      BY <1>1, <1>2, <2>2, <2>6, <3>1, <3>3, <3>4 DEF GivesSheet
    <3> QED BY <1>1, <2>2, <2>5, <3>5 DEF Reverses
  <2> QED BY <1>4, <2>1, <2>3, <2>7, DoneUndoes
<1> QED BY <1>5, <1>6, <1>7

-----------------------------------------------------------------------------
(* Sheets that appear                                                       *)

SheetSet(w, i, e, v) ==
  /\ Plain(v) = InsertAt(Plain(w), i, Look(e.name, e.visible, e.rows))
  /\ Len(v) = Len(w) + 1 /\ Len(Plain(v)) = Len(v) /\ v[i] = e /\ Plain(v)[i].rows = e.rows
  /\ PlaceIn(v, e.id) = i /\ RemoveAt(Plain(v), i) = Plain(w)
  /\ \A f \in AnySheet : PutSheet(Plain(v), i, f) = InsertAt(Plain(w), i, f)

LEMMA InsertWay ==
  ASSUME NEW w, Legible(w), NEW i \in 1..(Len(w) + 1), NEW e \in AnySheet, NEW v, v = InsertAt(w, i, e), Legible(v)
  PROVE  SheetSet(w, i, e, v)
<1>1. /\ w \in Seq(AnySheet) /\ Plain(w) \in Seq(AnySheet) /\ Len(Plain(w)) = Len(w) /\ Len(w) \in Nat
      /\ i \in 1..(Len(Plain(w)) + 1) /\ i \in 1..(Len(w) + 1) /\ Legible(v)
  BY LegibleHas
<1>2. Bare(e) = Look(e.name, e.visible, e.rows) /\ Bare(e) \in AnySheet
  BY BareIs
<1>3. Plain(v) = InsertAt(Plain(w), i, Bare(e))
  BY <1>1, PlainInserted
<1>4. /\ Len(v) = Len(w) + 1
      /\ \A n \in 1..(Len(w) + 1) : v[n] = IF n < i THEN w[n] ELSE IF n = i THEN e ELSE w[n - 1]
  <2>1. InsertedIn(AnySheet, v, w, i, e)
    BY <1>1, InsertAtHas
  <2> QED BY <2>1 DEF InsertedIn
<1>5. v[i] = e /\ i \in 1..Len(v)
  BY <1>1, <1>4
<1>6. PlaceIn(v, e.id) = i /\ Plain(v)[i].rows = e.rows /\ Len(Plain(v)) = Len(v)
  BY ONLY <1>1, <1>5, PlaceIs, PlainAt
<1>7. RemoveAt(Plain(v), i) = Plain(w)
  BY ONLY <1>1, <1>2, <1>3, InsertedRemoved
<1>8. ASSUME NEW f \in AnySheet PROVE PutSheet(Plain(v), i, f) = InsertAt(Plain(w), i, f)
  BY ONLY <1>1, <1>2, <1>3, PutInserted, f \in AnySheet
<1> QED BY ONLY <1>2, <1>3, <1>4, <1>5, <1>6, <1>7, <1>8 DEF SheetSet

LEMMA SheetOf ==
  ASSUME NEW id \in Nat, NEW name \in Names, NEW visible \in BOOLEAN, NEW rows \in RowLists
  PROVE  [id |-> id, name |-> name, visible |-> visible, rows |-> rows] \in AnySheet
BY DEF AnySheet

LEMMA AddSheetUndoes ==
  ASSUME StructureInv, StructureInv', UndoInv, AddSheet
  PROVE  UndoInv'
<1> DEFINE new == [id |-> sheetIds + 1, name |-> Made.name, visible |-> Made.visible, rows |-> [r \in Rows |-> Blank]]
           at == Made.position
           back == SheetAbsent(new, FALSE)
           data == Made.data
<1>0. /\ standing = "loaded" /\ Made.kind = "sheet_present" /\ at \in Nat \ {0} /\ Made.name \in Names
      /\ Made.visible \in BOOLEAN /\ data \in Captures /\ sheetIds \in Nat /\ (change.tool \/ seen = Gone)
  BY DEF AddSheet, Loaded, StructureInv, OperationTypes, Stated, WorkbookTypes
<1>1. /\ Legible(workbook) /\ Legible(workbook') /\ Len(workbook) \in Nat /\ Len(Plain(workbook)) = Len(workbook)
  BY NowLegible, ThenLegible, LegibleHas DEF StructureInv
<1>2. /\ new \in AnySheet /\ new.id = sheetIds + 1 /\ new.name = Made.name /\ new.visible = Made.visible /\ new.rows = NoValues
  <2>1. [r \in Rows |-> Blank] = NoValues /\ NoValues \in RowLists
    BY NoValuesIs DEF NoValues
  <2>2. sheetIds + 1 \in Nat
    BY <1>0
  <2> QED BY <1>0, <2>1, <2>2, SheetOf
<1>3. ASSUME owed # Gone
      PROVE  /\ PlaceByName(Made.name) = 0 /\ at <= Len(workbook) + 1 /\ ~change.tool
             /\ Plain(owed) = InsertAt(Plain(workbook), at, Look(Made.name, Made.visible, Filled(NoValues, data)))
  <2>1. ~change.tool /\ seen = Gone
    BY <1>0, <1>3 DEF UndoInv, Ahead
  <2>2. GivesSheet(Made, 0, Plain(workbook), Plain(owed))
    <3>1. Reverses(Made, 0, Plain(workbook), Plain(owed))
      BY <1>0, <1>3, <2>1 DEF UndoInv, Ahead
    <3> QED BY <1>0, <3>1, KindsApart
  <2>3. /\ Others(Plain(workbook), 0, Made.name) /\ at <= Len(workbook) + 1
        /\ Plain(owed) = InsertAt(Plain(workbook), at, Look(Made.name, Made.visible, Filled(NoValues, data)))
    BY <1>1, <2>2 DEF GivesSheet
  <2>4. Others(workbook, 0, Made.name)
    BY <1>1, <2>3, LegibleHas, PlainSame
  <2> QED BY <2>1, <2>3, <2>4, FreeName DEF StructureInv
<1>4. CASE PlaceByName(Made.name) # 0
  <2>1. Refused
    BY <1>4 DEF AddSheet
  <2> QED BY <1>3, <1>4, <2>1, EndUndoes DEF Refused, Idle
<1>5. CASE PlaceByName(Made.name) = 0 /\ at > Len(workbook) + 1
  <2>1. DoneWithout
    BY <1>5 DEF AddSheet
  <2>2. owed = Gone
    BY <1>0, <1>1, <1>3, <1>5
  <2> QED BY <2>1, <2>2, EndUndoes DEF DoneWithout, Idle
<1>6. CASE PlaceByName(Made.name) = 0 /\ ~(at > Len(workbook) + 1)
  <2>0. at \in 1..(Len(workbook) + 1)
    BY <1>0, <1>1, <1>6
  <2>1. /\ workbook' = InsertAt(workbook, at, new)
        /\ IF data = NoData THEN DoneWith(back)
           ELSE /\ standing' = "appeared" /\ seen' = [sheet |-> new, position |-> at]
                /\ UNCHANGED <<backups, change, captured, origin, owed, bounds>>
    BY <1>6 DEF AddSheet
  <2>2. SheetSet(workbook, at, new, workbook')
    <3> HIDE DEF new
    <3> QED BY <1>1, <1>2, <2>0, <2>1, InsertWay
  <2>3. /\ back.kind = "sheet_absent" /\ back.id = new.id /\ Fits(back) /\ Reach(back) = Rows
    BY ReachSheet DEF SheetAbsent, Fits
  <2>4. ASSUME origin # Gone PROVE TakesSheet(back, at, Plain(workbook'), Plain(origin))
    <3>1. workbook = origin
      BY <1>0, <2>4 DEF UndoInv, Apart
    <3> HIDE DEF back, new
    <3>2. MayGo(back, NoValues)
      BY <2>3, NoValuesIs DEF MayGo
    <3>3. SomeVisible(Plain(workbook))
      BY <1>1, LegibleHas
    <3> QED BY <1>1, <1>2, <2>0, <2>2, <3>1, <3>2, <3>3 DEF TakesSheet, SheetSet
  <2>5. CASE data = NoData
    <3>1. DoneWith(back)
      BY <2>1, <2>5
    <3> HIDE DEF back, new
    <3>2. ASSUME owed # Gone PROVE Plain(workbook') = Plain(owed)
      <4>1. Filled(NoValues, NoData) = NoValues
        BY NoValuesIs, NoDataFills
      <4> QED BY <1>2, <1>3, <2>2, <2>5, <3>2, <4>1 DEF SheetSet
    <3>3. ASSUME origin # Gone PROVE Reverses(back, PlaceIn(workbook', back.id), Plain(workbook'), Plain(origin))
      BY <2>2, <2>3, <2>4, <3>3 DEF Reverses, SheetSet
    <3> QED BY <2>3, <3>1, <3>2, <3>3, DoneUndoes
  <2>6. CASE data # NoData
    <3>1. /\ standing' = "appeared" /\ seen' = [sheet |-> new, position |-> at]
          /\ UNCHANGED <<backups, change, captured, origin, owed>>
      BY <2>1, <2>6
    <3>2. seen'.sheet = new
      BY <3>1
    <3> HIDE DEF new
    <3>3. Target' = at /\ Made' = Made /\ at # 0
      BY <1>0, <2>2, <3>1, <3>2 DEF Target, PlaceOf, Made, SheetSet
    <3>4. ASSUME origin # Gone PROVE Apart'
      <4>1. TakesSheet(back, at, Plain(workbook'), Plain(origin))
        BY <2>4, <3>4
      <4>2. TakesSheet(SheetAbsent(seen'.sheet, FALSE), Target', Plain(workbook'), Plain(origin'))
        BY <3>1, <3>2, <3>3, <4>1
      <4> QED BY <1>0, <3>1, <3>3, <4>2 DEF Apart
    <3>5. ASSUME owed # Gone PROVE Ahead'
      <4>0. data \in Captures /\ NoValues \in RowLists
        BY <1>0, NoValuesIs
      <4>1. Filled(NoValues, data) \in RowLists
        <5> HIDE DEF data
        <5> QED BY ONLY <4>0, FilledIs
      <4>2. Look(Made.name, Made.visible, Filled(NoValues, data)) \in AnySheet
        <5>1. Made.name \in Names /\ Made.visible \in BOOLEAN
          BY <1>0
        <5> HIDE DEF data
        <5> QED BY ONLY <4>1, <5>1, LookIs
      <4>3. Plain(owed) = PutSheet(Plain(workbook'), at, Look(Made.name, Made.visible, Filled(NoValues, data)))
        BY <1>3, <2>2, <3>5, <4>2 DEF SheetSet
      <4>4. workbook'[at] = new
        BY <2>2 DEF SheetSet
      <4> QED BY <1>0, <1>2, <1>3, <3>1, <3>3, <3>5, <4>3, <4>4 DEF Ahead
    <3> QED BY <1>0, <3>1, <3>4, <3>5, AwaitUndoes DEF Caught
  <2> QED BY <2>5, <2>6
<1> QED BY <1>4, <1>5, <1>6

LEMMA CopyUndoes ==
  ASSUME StructureInv, StructureInv', UndoInv, Copy
  PROVE  UndoInv'
<1> DEFINE t == Target
           new == [workbook[t] EXCEPT !.id = sheetIds + 1, !.name = Made.name]
           last == Len(workbook) + 1
<1>0. standing = "loaded" /\ Made.kind = "copy" /\ t # 0 /\ Made.name \in Names /\ sheetIds \in Nat
  BY DEF Copy, Loaded, StructureInv, OperationTypes, Stated, WorkbookTypes
<1>1. /\ Legible(workbook) /\ Legible(workbook') /\ Len(workbook) \in Nat /\ workbook[t] \in AnySheet
      /\ last \in 1..(Len(workbook) + 1) /\ SomeVisible(Plain(workbook)) /\ workbook \in Seq(AnySheet)
  BY <1>0, TargetIs, ThenLegible, LegibleHas DEF StructureInv
<1>2. owed = Gone
  BY <1>0, AheadAt, KindsApart
<1>3. CASE PlaceByName(Made.name) # 0
  <2>1. Refused
    BY <1>3 DEF Copy
  <2> QED BY <1>2, <2>1, EndUndoes DEF Refused, Idle
<1>4. CASE PlaceByName(Made.name) = 0
  <2>1. /\ workbook' = Append(workbook, new) /\ standing' = "copied" /\ seen' = [sheet |-> new, position |-> last]
        /\ UNCHANGED <<backups, change, captured, origin, owed>>
    BY <1>4 DEF Copy
  <2>2. new \in AnySheet
    <3>1. new = [id |-> sheetIds + 1, name |-> Made.name, visible |-> workbook[t].visible, rows |-> workbook[t].rows]
      <4>1. workbook[t] = [id |-> workbook[t].id, name |-> workbook[t].name, visible |-> workbook[t].visible, rows |-> workbook[t].rows]
        BY <1>1 DEF AnySheet
      <4> DEFINE s == workbook[t]
      <4>2. s = [id |-> s.id, name |-> s.name, visible |-> s.visible, rows |-> s.rows]
        BY <4>1
      <4>3. new = [s EXCEPT !.id = sheetIds + 1, !.name = Made.name]
        OBVIOUS
      <4> HIDE DEF s, new
      <4>4. new = [id |-> sheetIds + 1, name |-> Made.name, visible |-> s.visible, rows |-> s.rows]
        BY <4>2, <4>3
      <4> QED BY <4>4 DEF s
    <3>2. sheetIds + 1 \in Nat /\ workbook[t].visible \in BOOLEAN /\ workbook[t].rows \in RowLists
      BY <1>0, <1>1, AnySheetHas
    <3> QED BY <1>0, <3>1, <3>2, SheetOf
  <2>3. seen'.sheet = new
    BY <2>1
  <2> HIDE DEF new
  <2>4. workbook' = InsertAt(workbook, last, new)
    BY <1>1, <2>1, <2>2, AppendInserts
  <2> HIDE DEF last
  <2>5. SheetSet(workbook, last, new, workbook')
    BY <1>1, <2>2, <2>4, InsertWay
  <2>6. Target' = last /\ last # 0 /\ Made' = Made
    BY <1>1, <2>1, <2>3, <2>5 DEF Target, PlaceOf, Made, SheetSet
  <2>7. ASSUME origin # Gone PROVE Apart'
    <3>1. workbook = origin
      BY <1>0, <2>7 DEF UndoInv, Apart
    <3>2. Plain(origin') = RemoveAt(Plain(workbook'), Target') /\ SomeVisible(Plain(origin'))
      BY <1>1, <2>1, <2>5, <2>6, <3>1 DEF SheetSet
    <3> QED BY <2>1, <2>6, <3>2 DEF Apart
  <2> QED BY <1>0, <1>2, <2>1, <2>7, AwaitUndoes DEF Caught
<1> QED BY <1>3, <1>4

LEMMA InspectCopyUndoes ==
  ASSUME StructureInv, StructureInv', UndoInv, InspectCopy
  PROVE  UndoInv'
<1> DEFINE t == Target
           s == workbook[t]
           back == SheetAbsent(seen.sheet, FALSE)
<1>0. standing = "copied" /\ t # 0 /\ workbook' = workbook
  BY DEF InspectCopy
<1>1. /\ t \in 1..Len(workbook) /\ Legible(workbook) /\ s.id = seen.sheet.id
  BY <1>0, TargetIs
<1>2. owed = Gone
  BY <1>0 DEF UndoInv, Ahead
<1>3. CASE UsedRange(s.rows, Rows) # NoData
  <2>1. DoneWithout
    BY <1>3 DEF InspectCopy
  <2> QED BY <1>2, <2>1, EndUndoes DEF DoneWithout, Idle
<1>4. CASE UsedRange(s.rows, Rows) = NoData
  <2>1. DoneWith(back)
    BY <1>4 DEF InspectCopy
  <2>2. back.kind = "sheet_absent" /\ back.id = seen.sheet.id /\ Fits(back) /\ Reach(back) = Rows
    BY ReachSheet DEF SheetAbsent, Fits
  <2> HIDE DEF back
  <2>3. ASSUME origin # Gone PROVE Reverses(back, PlaceIn(workbook', back.id), Plain(workbook'), Plain(origin))
    <3>1. Plain(origin) = RemoveAt(Plain(workbook), t) /\ SomeVisible(Plain(origin))
      BY <1>0, <2>3 DEF UndoInv, Apart
    <3>2. MayGo(back, s.rows)
      BY <1>4, <2>2 DEF MayGo
    <3>3. TakesSheet(back, t, Plain(workbook), Plain(origin))
      BY <1>1, <3>1, <3>2, PlainAt DEF TakesSheet
    <3>4. PlaceIn(workbook, s.id) = t
      BY <1>1, PlaceIs
    <3> QED BY <1>0, <1>1, <2>2, <3>3, <3>4 DEF Reverses
  <2> QED BY <1>2, <2>1, <2>2, <2>3, DoneUndoes
<1> QED BY <1>3, <1>4

-----------------------------------------------------------------------------
(* A sheet becomes another, in another place                                *)

(* An item goes to another place.                                           *)
MovedIn(S, v, s, t, q, e) ==
  /\ v \in Seq(S) /\ Len(v) = Len(s) /\ v[q] = e
  /\ \A n \in 1..Len(s) : n # q => \E m \in 1..Len(s) : m # t /\ v[n] = s[m]

LEMMA MovedHas ==
  ASSUME NEW S, NEW s \in Seq(S), NEW t \in 1..Len(s), NEW q \in 1..Len(s), NEW e \in S,
         NEW v, v = InsertAt(RemoveAt(s, t), q, e)
  PROVE  MovedIn(S, v, s, t, q, e)
<1> DEFINE r == RemoveAt(s, t)
<1>0. Len(s) \in Nat
  OBVIOUS
<1>1. /\ r \in Seq(S) /\ Len(r) = Len(s) - 1
      /\ \A n \in 1..(Len(s) - 1) : r[n] = IF n < t THEN s[n] ELSE s[n + 1]
  BY RemoveAtIs
<1>2. v = InsertAt(r, q, e)
  OBVIOUS
<1> HIDE DEF r
<1>3. q \in 1..(Len(r) + 1)
  BY <1>0, <1>1
<1>4. /\ v \in Seq(S) /\ Len(v) = Len(r) + 1
      /\ \A n \in 1..(Len(r) + 1) : v[n] = IF n < q THEN r[n] ELSE IF n = q THEN e ELSE r[n - 1]
  <2>1. InsertedIn(S, v, r, q, e)
    BY <1>1, <1>3, <1>2, InsertAtHas
  <2> QED BY <2>1 DEF InsertedIn
<1>5. Len(v) = Len(s) /\ v[q] = e
  BY <1>0, <1>1, <1>3, <1>4
<1>6. ASSUME NEW k \in 1..(Len(s) - 1) PROVE \E m \in 1..Len(s) : m # t /\ r[k] = s[m]
  <2>1. CASE k < t
    <3>1. k \in 1..Len(s) /\ k # t /\ r[k] = s[k]
      BY <1>0, <1>1, <2>1
    <3> QED BY <3>1
  <2>2. CASE ~(k < t)
    <3>1. k + 1 \in 1..Len(s) /\ k + 1 # t /\ r[k] = s[k + 1]
      BY <1>0, <1>1, <2>2
    <3> QED BY <3>1
  <2> QED BY <2>1, <2>2
<1>7. ASSUME NEW n \in 1..Len(s), n # q PROVE \E m \in 1..Len(s) : m # t /\ v[n] = s[m]
  <2>1. CASE n < q
    <3>1. n \in 1..(Len(s) - 1) /\ v[n] = r[n]
      BY <1>0, <1>1, <1>4, <2>1
    <3> QED BY <1>6, <3>1
  <2>2. CASE ~(n < q)
    <3>1. n - 1 \in 1..(Len(s) - 1) /\ v[n] = r[n - 1]
      BY <1>0, <1>1, <1>4, <1>7, <2>2
    <3> QED BY <1>6, <3>1
  <2> QED BY <2>1, <2>2
<1> QED BY <1>4, <1>5, <1>7 DEF MovedIn

MovedTo(w, t, q, e, v) ==
  LET s == w[t] IN
  /\ Plain(v) = InsertAt(RemoveAt(Plain(w), t), q, Look(e.name, e.visible, e.rows))
  /\ PlaceIn(v, s.id) = q /\ Len(v) = Len(w) /\ Len(Plain(v)) = Len(w) /\ q \in 1..Len(w)
  /\ Plain(v)[q].rows = e.rows /\ Others(Plain(v), q, s.name)
  /\ InsertAt(RemoveAt(Plain(v), q), t, Look(s.name, s.visible, s.rows)) = Plain(w)

LEMMA MoveWay ==
  ASSUME NEW w, Legible(w), NEW t \in 1..Len(w), NEW q \in 1..Len(w), NEW e \in AnySheet, e.id = w[t].id,
         NEW v, v = InsertAt(RemoveAt(w, t), q, e), Legible(v)
  PROVE  MovedTo(w, t, q, e, v)
<1> DEFINE s == w[t]
           r == RemoveAt(w, t)
           f == Look(e.name, e.visible, e.rows)
<1>1. /\ w \in Seq(AnySheet) /\ Plain(w) \in Seq(AnySheet) /\ Len(Plain(w)) = Len(w) /\ Len(w) \in Nat
      /\ t \in 1..Len(Plain(w)) /\ Plain(w)[t] = Look(s.name, s.visible, s.rows)
      /\ Others(w, t, s.name)
  BY LegibleHas
<1>2. Bare(e) = f /\ f \in AnySheet
  BY BareIs
<1>3. r \in Seq(AnySheet) /\ Len(r) = Len(w) - 1 /\ Plain(r) = RemoveAt(Plain(w), t)
  BY <1>1, RemoveAtIs, PlainRemoved
<1>4. q \in 1..(Len(r) + 1)
  BY <1>1, <1>3
<1>5. Plain(v) = InsertAt(RemoveAt(Plain(w), t), q, f)
  <2>1. v = InsertAt(r, q, e)
    OBVIOUS
  <2> HIDE DEF r, f
  <2> QED BY <1>2, <1>3, <1>4, <2>1, PlainInserted
<1>6. /\ Len(v) = Len(w) /\ v[q] = e
      /\ \A n \in 1..Len(w) : n # q => \E m \in 1..Len(w) : m # t /\ v[n] = w[m]
  <2>1. /\ w \in Seq(AnySheet) /\ t \in 1..Len(w) /\ q \in 1..Len(w) /\ e \in AnySheet
        /\ v = InsertAt(RemoveAt(w, t), q, e)
    BY <1>1
  <2>2. MovedIn(AnySheet, v, w, t, q, e)
    BY ONLY <2>1, MovedHas
  <2> QED BY <2>2 DEF MovedIn
<1>7. PlaceIn(v, s.id) = q /\ Len(Plain(v)) = Len(w) /\ Plain(v)[q].rows = e.rows
  BY <1>6, PlaceIs, PlainAt
<1>8. Others(Plain(v), q, s.name)
  <2>1. Others(v, q, s.name)
    BY <1>1, <1>6 DEF Others
  <2> QED BY <2>1, LegibleHas, PlainSame
<1>9. InsertAt(RemoveAt(Plain(v), q), t, Look(s.name, s.visible, s.rows)) = Plain(w)
  <2> DEFINE x == RemoveAt(Plain(w), t)
  <2>1. x \in Seq(AnySheet) /\ q \in 1..(Len(x) + 1)
    BY <1>1, RemoveAtIs
  <2>2. InsertAt(x, t, Plain(w)[t]) = Plain(w)
    BY ONLY <1>1, RemovedInserted
  <2>3. Plain(v) = InsertAt(x, q, f)
    BY <1>5
  <2> HIDE DEF x, f
  <2>4. RemoveAt(Plain(v), q) = x
    BY ONLY <1>2, <2>1, <2>3, InsertedRemoved
  <2> QED BY <1>1, <2>2, <2>4
<1> QED BY <1>5, <1>6, <1>7, <1>8, <1>9 DEF MovedTo

LEMMA OverwriteUndoes ==
  ASSUME StructureInv, StructureInv', UndoInv, Overwrite
  PROVE  UndoInv'
<1> DEFINE t == Target
           s == workbook[t]
           q == Made.position
           e == [s EXCEPT !.name = Made.name]
           f == [e EXCEPT !.visible = Made.visible]
           named == [workbook EXCEPT ![t].name = Made.name]
           moved == InsertAt(RemoveAt(named, t), q, named[t])
           revealed == [moved EXCEPT ![q].visible = Made.visible]
           back == SheetPresent(seen.sheet, seen.position, NoData)
<1>0. /\ standing = "loaded" /\ Made.kind = "sheet_present" /\ seen # Gone /\ t # 0 /\ ~change.tool
      /\ Made.name \in Names /\ Made.visible \in BOOLEAN /\ q \in Nat \ {0} /\ Made.data \in Captures
  BY DEF Overwrite, Loaded, StructureInv, OperationTypes, Stated
<1>1. /\ t \in 1..Len(workbook) /\ Legible(workbook) /\ Legible(workbook') /\ s \in AnySheet /\ s.id = seen.sheet.id
      /\ workbook \in Seq(AnySheet) /\ Len(workbook) \in Nat /\ Len(Plain(workbook)) = Len(workbook)
      /\ Plain(workbook)[t].rows = s.rows /\ SomeVisible(Plain(workbook)) /\ Plain(workbook) \in Seq(AnySheet)
  BY <1>0, TargetIs, ThenLegible, LegibleHas, PlainAt DEF StructureInv
<1>2. ASSUME owed # Gone
      PROVE  /\ PlaceByName(Made.name) \in {0, t} /\ q <= Len(workbook) /\ SomeVisible(Plain(owed))
             /\ Plain(owed) = InsertAt(RemoveAt(Plain(workbook), t), q, Look(Made.name, Made.visible, s.rows))
  <2>1. GivesSheet(Made, t, Plain(workbook), Plain(owed))
    BY <1>0, <1>2, AheadAt, KindsApart
  <2>2. /\ Others(Plain(workbook), t, Made.name) /\ q <= Len(workbook) /\ SomeVisible(Plain(owed))
        /\ Plain(owed) = InsertAt(RemoveAt(Plain(workbook), t), q, Look(Made.name, Made.visible, s.rows))
    BY <1>0, <1>1, <2>1 DEF GivesSheet
  <2>3. Others(workbook, t, Made.name)
    BY <1>1, <2>2, PlainSame
  <2> QED BY <2>2, <2>3, FreeName DEF StructureInv
<1>3. CASE PlaceByName(Made.name) \notin {0, t}
  <2>1. Refused
    BY <1>3 DEF Overwrite
  <2> QED BY <1>2, <1>3, <2>1, EndUndoes DEF Refused, Idle
<1>4. CASE PlaceByName(Made.name) \in {0, t} /\ q > Len(workbook)
  <2>1. DoneWithout
    BY <1>4 DEF Overwrite
  <2>2. owed = Gone
    BY <1>0, <1>1, <1>2, <1>4
  <2> QED BY <2>1, <2>2, EndUndoes DEF DoneWithout, Idle
<1>5. CASE PlaceByName(Made.name) \in {0, t} /\ ~(q > Len(workbook))
  <2>0. q \in 1..Len(workbook)
    BY <1>0, <1>1, <1>5
  <2>1. /\ e \in AnySheet /\ e.id = s.id /\ e.name = Made.name /\ e.visible = s.visible /\ e.rows = s.rows
    BY <1>0, <1>1, AnyUpdates
  <2>2. /\ f \in AnySheet /\ f.id = s.id /\ f.name = Made.name /\ f.visible = Made.visible /\ f.rows = s.rows
    <3> HIDE DEF e
    <3> QED BY <1>0, <2>1, AnyUpdates
  <2>3. /\ workbook' = IF SomeVisible(revealed) THEN revealed ELSE moved
        /\ IF SomeVisible(revealed) THEN DoneWith(back) ELSE DoneWithout
    BY <1>5 DEF Overwrite
  <2>4. revealed = InsertAt(RemoveAt(workbook, t), q, f)
    <3>1. named = PutSheet(workbook, t, e) /\ named[t] = e
      BY <1>1 DEF PutSheet
    <3> DEFINE x == RemoveAt(workbook, t)
    <3>2. x \in Seq(AnySheet) /\ Len(x) = Len(workbook) - 1
      BY <1>1, RemoveAtIs
    <3>3. RemoveAt(named, t) = x
      <4> HIDE DEF named, e
      <4> QED BY <1>1, <2>1, <3>1, RemovedPut
    <3>4. moved = InsertAt(x, q, e)
      BY <3>1, <3>3
    <3>5. q \in 1..(Len(x) + 1)
      BY <1>1, <2>0, <3>2
    <3> HIDE DEF x
    <3>6. moved[q] = e
      <4>1. InsertedIn(AnySheet, moved, x, q, e)
        <5> HIDE DEF moved, e
        <5> QED BY <2>1, <3>2, <3>4, <3>5, InsertAtHas
      <4> HIDE DEF moved, e
      <4> QED BY <3>2, <3>5, <4>1 DEF InsertedIn
    <3>7. revealed = PutSheet(moved, q, f)
      <4> HIDE DEF moved
      <4>1. revealed = PutSheet(moved, q, [moved[q] EXCEPT !.visible = Made.visible])
        BY DEF PutSheet
      <4> QED BY <3>6, <4>1
    <3> HIDE DEF revealed, moved, f, e
    <3> QED BY <2>1, <2>2, <3>2, <3>4, <3>5, <3>7, PutInserted DEF x
  <2>5. Plain(revealed) = InsertAt(RemoveAt(Plain(workbook), t), q, Look(Made.name, Made.visible, s.rows))
        /\ revealed \in Seq(AnySheet)
    <3> DEFINE x == RemoveAt(workbook, t)
    <3>1. x \in Seq(AnySheet) /\ Len(x) = Len(workbook) - 1 /\ Plain(x) = RemoveAt(Plain(workbook), t)
      BY <1>1, RemoveAtIs, PlainRemoved
    <3>2. q \in 1..(Len(x) + 1)
      BY <1>1, <2>0, <3>1
    <3>3. Bare(f) = Look(f.name, f.visible, f.rows)
      BY <2>2, BareIs
    <3>4. revealed = InsertAt(x, q, f)
      BY <2>4
    <3> HIDE DEF x, f, revealed
    <3>5. Plain(revealed) = InsertAt(Plain(x), q, Bare(f))
      BY <2>2, <3>1, <3>2, <3>4, PlainInserted
    <3>6. InsertedIn(AnySheet, revealed, x, q, f)
      BY <2>2, <3>1, <3>2, <3>4, InsertAtHas
    <3> QED BY <2>2, <3>1, <3>3, <3>5, <3>6 DEF InsertedIn
  <2> HIDE DEF f, revealed, moved
  <2>6. ASSUME owed # Gone PROVE Plain(revealed) = Plain(owed) /\ SomeVisible(revealed)
    <3>1. Plain(revealed) = Plain(owed)
      BY <1>2, <2>5, <2>6
    <3> QED BY <1>2, <2>5, <2>6, <3>1, PlainSame
  <2>7. CASE ~SomeVisible(revealed)
    BY <2>3, <2>6, <2>7, EndUndoes DEF DoneWithout, Idle
  <2>8. CASE SomeVisible(revealed)
    <3>1. workbook' = revealed /\ DoneWith(back)
      BY <2>3, <2>8
    <3>2. MovedTo(workbook, t, q, f, workbook')
      BY <1>1, <2>0, <2>2, <2>4, <3>1, MoveWay
    <3>3. /\ back.kind = "sheet_present" /\ back.id = seen.sheet.id /\ back.name = seen.sheet.name
          /\ back.visible = seen.sheet.visible /\ back.position = seen.position /\ back.data = NoData
      BY DEF SheetPresent
    <3> HIDE DEF back
    <3>4. Fits(back)
      BY <3>3, NoDataSmall DEF Fits
    <3>5. ASSUME origin # Gone PROVE Reverses(back, PlaceIn(workbook', back.id), Plain(workbook'), Plain(origin))
      <4>1. workbook = origin /\ seen.position = t /\ seen.sheet = s
        BY <1>0, <3>5, ApartAt
      <4>2. /\ PlaceIn(workbook', back.id) = q /\ q \in 1..Len(Plain(workbook')) /\ t <= Len(Plain(workbook'))
            /\ Others(Plain(workbook'), q, s.name) /\ Plain(workbook')[q].rows = s.rows
            /\ Plain(workbook) = InsertAt(RemoveAt(Plain(workbook'), q), t, Look(s.name, s.visible, Plain(workbook')[q].rows))
        BY <1>1, <2>2, <3>2, <3>3 DEF MovedTo
      <4>3. GivesSheet(back, q, Plain(workbook'), Plain(origin))
        BY <1>1, <3>3, <4>1, <4>2 DEF GivesSheet
      <4> QED BY <3>3, <4>2, <4>3 DEF Reverses
    <3> QED BY <2>6, <3>1, <3>4, <3>5, DoneUndoes
  <2> QED BY <2>7, <2>8
<1> QED BY <1>3, <1>4, <1>5
-----------------------------------------------------------------------------
(* How an operation begins                                                  *)

(* What was loaded is a sheet.                                              *)
LEMMA SheetSeen == \A e \in SheetStates, p \in Nat : [sheet |-> e, position |-> p] # Gone
<1> SUFFICES ASSUME NEW e \in SheetStates, NEW p \in Nat PROVE [sheet |-> e, position |-> p] # Gone
  OBVIOUS
<1> DEFINE S == [id : Nat, name : Names, visible : BOOLEAN, rows : [1 .. MaxRows -> Texts \cup {Blank}]]
<1>1. e \in S
  BY DEF SheetStates, Rows
<1>2. Gone \notin [sheet : S, position : Nat]
  BY StructureAssumption DEF StructureAssumption
<1> HIDE DEF S
<1> QED BY <1>1, <1>2

LEMMA LoadApart ==
  ASSUME StructureInv, NEW state, NEW tool, state.kind = "sheet_present" \/ LoadedAt(state) # 0,
         LoadSheet(state, tool), workbook' = workbook
  PROVE  /\ standing' = "loaded" /\ Made' = state /\ change'.tool = tool /\ Apart'
         /\ LoadedAt(state) = 0 => seen' = Gone
         /\ LoadedAt(state) # 0 => seen' # Gone /\ Target' = LoadedAt(state)
<1> DEFINE at == LoadedAt(state)
<1>1. /\ standing' = "loaded" /\ change' = [tool |-> tool, state |-> state] /\ origin' = workbook
      /\ seen' = IF at = 0 THEN Gone ELSE [sheet |-> workbook[at], position |-> at]
  BY DEF LoadSheet
<1>2. Made' = state /\ change'.tool = tool
  BY <1>1 DEF Made
<1>3. at # 0 => at \in Nat \ {0} /\ at \in 1..Len(workbook) /\ workbook[at] \in SheetStates
  BY SheetLoaded, PlaceFound, NamePlaced DEF StructureInv, LoadedAt
<1> HIDE DEF at
<1>4. at = 0 => seen' = Gone
  BY <1>1
<1>5. ASSUME at # 0 PROVE seen' # Gone /\ seen'.sheet = workbook[at] /\ seen'.position = at /\ Target' = at
  <2>1. seen' = [sheet |-> workbook[at], position |-> at]
    BY <1>1, <1>5
  <2>2. seen' # Gone
    BY <1>3, <1>5, <2>1, SheetSeen
  <2>3. seen'.sheet = workbook[at] /\ seen'.position = at
    BY <2>1
  <2>4. PlaceIn(workbook, workbook[at].id) = at
    BY <1>3, <1>5, NowLegible, PlaceIs DEF StructureInv
  <2>5. Target' = PlaceIn(workbook', seen'.sheet.id)
    BY DEF Target, PlaceOf
  <2> QED BY <2>2, <2>3, <2>4, <2>5
<1>6. Apart'
  <2>1. seen' # Gone \/ Made'.kind # "sheet_present" => at # 0
    BY <1>2, <1>4 DEF at
  <2> QED BY <1>1, <1>5, <2>1 DEF Apart
<1> QED BY <1>1, <1>2, <1>4, <1>5, <1>6 DEF at

(* The agent puts no data back.                                             *)
LEMMA ToolFits ==
  ASSUME NEW state \in ToolStates PROVE Fits(state)
<1> SUFFICES ASSUME state.kind \in {"sheet_present", "rows_present"} PROVE state.data = NoData
  BY NoDataSmall DEF Fits
<1>1. CASE state \in NewSheets
  BY <1>1 DEF NewSheets, SheetPresent
<1>2. CASE state \in UNION {OnSheet(workbook[n]) : n \in DOMAIN workbook}
  <2>1. PICK n \in DOMAIN workbook : state \in OnSheet(workbook[n])
    BY <1>2
  <2>2. \A name \in Names : state # NameState(workbook[n], name)
    BY DEF NameState
  <2>3. \A v \in BOOLEAN : state # VisibilityState(workbook[n], v)
    BY DEF VisibilityState
  <2>4. state # SheetAbsent(workbook[n], TRUE)
    BY DEF SheetAbsent
  <2>5. \A span \in Spans : state # RowsAbsent(workbook[n], span[1], span[2], TRUE)
    BY DEF RowsAbsent
  <2>6. \A name \in Names : state # [kind |-> "copy", id |-> workbook[n].id, name |-> name]
    OBVIOUS
  <2>7. PICK span \in Spans : state = RowsPresent(workbook[n], span[1], span[2], NoData)
    BY <2>1, <2>2, <2>3, <2>4, <2>5, <2>6, Zenon DEF OnSheet
  <2> QED BY <2>7 DEF RowsPresent
<1> QED BY <1>1, <1>2 DEF ToolStates

LEMMA BeginToolUndoes ==
  ASSUME StructureInv, UndoInv, BeginTool
  PROVE  UndoInv'
<1>1. PICK state \in ToolStates : LoadSheet(state, TRUE)
  BY DEF BeginTool
<1>2. workbook' = workbook /\ backups' = backups /\ owed' = Gone
  BY DEF BeginTool
<1>3. state.kind = "sheet_present" \/ LoadedAt(state) # 0
  BY ToolStated DEF StructureInv
<1>4. standing' = "loaded" /\ Made' = state /\ Apart'
  BY <1>1, <1>2, <1>3, LoadApart
<1>5. Fits(Made)'
  <2>1. Fits(state)
    BY ToolFits
  <2> QED BY <1>4, <2>1 DEF Fits, Reach
<1>6. BackupsReverse'
  BY <1>2 DEF UndoInv, BackupsReverse
<1> QED BY <1>2, <1>4, <1>5, <1>6 DEF UndoInv, Caught

LEMMA BeginRestoreUndoes ==
  ASSUME StructureInv, UndoInv, BeginRestore
  PROVE  UndoInv'
<1>0. standing = "idle" /\ workbook' = workbook /\ Legible(workbook) /\ Len(Plain(workbook)) \in Nat
  BY NowLegible, LegibleHas DEF BeginRestore, StructureInv
<1>1. PICK n \in DOMAIN backups : LET b == backups[n] at == LoadedAt(b.state) IN
        /\ owed' = IF b.from # Gone /\ Alike(workbook, b.from) /\ at = PlaceIn(b.from, b.state.id)
                   THEN b.goes ELSE Gone
        /\ \/ /\ \/ at = 0 /\ b.state.kind \notin {"sheet_present", "sheet_absent"}
                 \/ at # 0 /\ b.state.kind = "sheet_present" /\ b.state.data # NoData
              /\ UNCHANGED <<backups, standing, change, seen, captured, origin>>
           \/ /\ at = 0 /\ b.state.kind = "sheet_absent"
              /\ backups' = <<[state |-> b.state, goes |-> workbook, from |-> workbook]>> \o backups
              /\ UNCHANGED <<standing, change, seen, captured, origin>>
           \/ /\ \/ at # 0 /\ ~(b.state.kind = "sheet_present" /\ b.state.data # NoData)
                 \/ at = 0 /\ b.state.kind = "sheet_present"
              /\ LoadSheet(b.state, FALSE)
              /\ UNCHANGED backups
  BY Zenon DEF BeginRestore
<1> DEFINE b == backups[n]
           state == b.state
           at == LoadedAt(state)
<1>2. backups \in Seq(ToSet(backups)) /\ b \in ToSet(backups)
  BY DEF StructureInv, BackupTypes, ToSet
<1>3. Fits(state) /\ (b.from # Gone => Reverses(state, PlaceIn(b.from, state.id), Plain(b.from), Plain(b.goes)))
  BY <1>2 DEF UndoInv, BackupsReverse
<1>4. ASSUME owed' # Gone PROVE Reverses(state, at, Plain(workbook), Plain(owed'))
  <2>1. b.from # Gone /\ Alike(workbook, b.from) /\ at = PlaceIn(b.from, state.id) /\ owed' = b.goes
    BY <1>1, <1>4
  <2>2. Plain(workbook) = Plain(b.from)
    BY <2>1, AlikePlain
  <2> HIDE DEF at, b
  <2> QED BY <1>3, <2>1, <2>2
<1>5. \/ /\ \/ at = 0 /\ state.kind \notin {"sheet_present", "sheet_absent"}
            \/ at # 0 /\ state.kind = "sheet_present" /\ state.data # NoData
         /\ UNCHANGED <<backups, standing, change, seen, captured, origin>>
      \/ /\ at = 0 /\ state.kind = "sheet_absent"
         /\ backups' = <<[state |-> state, goes |-> workbook, from |-> workbook]>> \o backups
         /\ UNCHANGED <<standing, change, seen, captured, origin>>
      \/ /\ \/ at # 0 /\ ~(state.kind = "sheet_present" /\ state.data # NoData)
            \/ at = 0 /\ state.kind = "sheet_present"
         /\ LoadSheet(state, FALSE)
         /\ UNCHANGED backups
  BY <1>1
<1>6. at = PlaceOf(state.id) \/ PlaceOf(state.id) = 0
  BY DEF LoadedAt
<1> HIDE DEF b, state, at
<1>7. CASE /\ \/ at = 0 /\ state.kind \notin {"sheet_present", "sheet_absent"}
              \/ at # 0 /\ state.kind = "sheet_present" /\ state.data # NoData
           /\ UNCHANGED <<backups, standing, change, seen, captured, origin>>
  <2>1. owed' = Gone
    <3> SUFFICES ASSUME owed' # Gone PROVE FALSE
      OBVIOUS
    <3>1. Reverses(state, at, Plain(workbook), Plain(owed'))
      BY <1>4
    <3>2. CASE at = 0 /\ state.kind \notin {"sheet_present", "sheet_absent"}
      BY <1>0, <3>1, <3>2 DEF Reverses, GivesName, GivesVisible, GivesRows, TakesRows
    <3>3. CASE at # 0 /\ state.kind = "sheet_present" /\ state.data # NoData
      <4>1. GivesSheet(state, at, Plain(workbook), Plain(owed'))
        BY <3>1, <3>3, KindsApart
      <4> QED BY <3>3, <4>1 DEF GivesSheet
    <3> QED BY <1>7, <3>2, <3>3
  <2>2. BackupsReverse'
    BY <1>7 DEF UndoInv, BackupsReverse
  <2> QED BY <1>0, <1>7, <2>1, <2>2 DEF UndoInv, Caught
<1>8. CASE /\ at = 0 /\ state.kind = "sheet_absent"
           /\ backups' = <<[state |-> state, goes |-> workbook, from |-> workbook]>> \o backups
           /\ UNCHANGED <<standing, change, seen, captured, origin>>
  <2> DEFINE new == [state |-> state, goes |-> workbook, from |-> workbook]
  <2>1. new.state = state /\ new.goes = workbook /\ new.from = workbook /\ backups' = <<new>> \o backups
    BY <1>8
  <2> HIDE DEF new
  <2>2. ToSet(backups') = ToSet(backups) \cup {new}
    BY <1>2, <2>1, PrependAdds
  <2>3. PlaceIn(workbook, state.id) = 0
    BY <1>6, <1>8 DEF PlaceOf
  <2>4. Reverses(new.state, PlaceIn(new.from, new.state.id), Plain(new.from), Plain(new.goes))
    BY <1>8, <2>1, <2>3 DEF Reverses, TakesSheet
  <2>5. BackupsReverse'
    BY <1>3, <2>1, <2>2, <2>4 DEF UndoInv, BackupsReverse
  <2>6. ASSUME owed' # Gone PROVE Alike(workbook', owed')
    <3>1. TakesSheet(state, 0, Plain(workbook), Plain(owed'))
      BY <1>4, <1>8, <2>6, KindsApart
    <3>2. Plain(owed') = Plain(workbook)
      BY <1>0, <3>1 DEF TakesSheet
    <3> QED BY <1>0, <3>2, AlikePlain
  <2> QED BY <1>0, <1>8, <2>5, <2>6 DEF UndoInv, Caught
<1>9. CASE /\ \/ at # 0 /\ ~(state.kind = "sheet_present" /\ state.data # NoData)
              \/ at = 0 /\ state.kind = "sheet_present"
           /\ LoadSheet(state, FALSE)
           /\ UNCHANGED backups
  <2>1. /\ standing' = "loaded" /\ Made' = state /\ change'.tool = FALSE /\ Apart'
        /\ at = 0 => seen' = Gone
        /\ at # 0 => seen' # Gone /\ Target' = at
    BY <1>0, <1>9, LoadApart DEF at
  <2>2. Fits(Made)'
    BY <1>3, <2>1 DEF Fits, Reach
  <2>3. BackupsReverse'
    BY <1>9 DEF UndoInv, BackupsReverse
  <2>4. ASSUME owed' # Gone PROVE Ahead'
    <3>1. Reverses(Made', IF seen' = Gone THEN 0 ELSE Target', Plain(workbook'), Plain(owed'))
      BY <1>0, <1>4, <2>1, <2>4
    <3>2. Made'.kind # "sheet_present" => seen' # Gone
      BY <1>9, <2>1
    <3>3. seen' # Gone => Target' # 0
      BY <2>1
    <3> QED BY <2>1, <3>1, <3>2, <3>3 DEF Ahead
  <2> QED BY <2>1, <2>2, <2>3, <2>4 DEF UndoInv, Caught
<1> QED BY <1>5, <1>7, <1>8, <1>9

LEMMA OutsideUndoes ==
  ASSUME StructureInv, UndoInv, HostFails \/ UserTypes \/ UNCHANGED structureVars
  PROVE  UndoInv'
<1>0. backups' = backups
  BY DEF HostFails, UserTypes, structureVars
<1>1. BackupsReverse'
  BY <1>0 DEF UndoInv, BackupsReverse
<1>2. CASE HostFails
  BY <1>1, <1>2 DEF HostFails, Idle, UndoInv, Caught
<1>3. CASE UserTypes
  <2>1. UNCHANGED <<standing, change, captured>> /\ origin' = Gone /\ owed' = Gone
    BY <1>3 DEF UserTypes
  <2>2. Made' = Made
    BY <2>1 DEF Made
  <2>3. Caught' /\ (standing' # "idle" => Fits(Made)')
    BY <2>1, <2>2 DEF UndoInv, Caught, Fits, Reach
  <2> QED BY <1>1, <2>1, <2>3 DEF UndoInv
<1>4. CASE UNCHANGED structureVars
  <2>1. UNCHANGED <<workbook, standing, change, seen, captured, origin, owed>>
    BY <1>4 DEF structureVars
  <2>2. Made' = Made /\ Target' = Target /\ DataThere' = DataThere
    <3>1. Made' = Made /\ Target' = Target
      BY <2>1 DEF Made, Target, PlaceOf
    <3>2. Area' = Area
      BY <3>1 DEF Area
    <3> QED BY <2>1, <3>1, <3>2 DEF DataThere
  <2>3. Caught' /\ (standing' # "idle" => Fits(Made)')
    BY <2>1, <2>2 DEF UndoInv, Caught, Fits, Reach
  <2>4. standing' # "idle" /\ origin' # Gone => Apart'
    BY <2>1, <2>2 DEF UndoInv, Apart
  <2>5. standing' # "idle" /\ owed' # Gone => Ahead'
    BY <2>1, <2>2 DEF UndoInv, Ahead
  <2>6. standing' = "idle" /\ owed' # Gone => Alike(workbook', owed')
    BY <2>1 DEF UndoInv
  <2> QED BY <1>1, <2>3, <2>4, <2>5, <2>6 DEF UndoInv
<1> QED BY <1>2, <1>3, <1>4

(* A restore that starts at the workbook its change has left, on the sheet  *)
(* its change was about, succeeds and ends at the workbook before the       *)
(* change, whatever came and was undone in between: the states of           *)
(* applyModifyStructureState are opposites, for every workbook, every span  *)
(* and every limit (structure-apply.ts, structure-capture.ts,               *)
(* modify-structure.ts).                                                    *)
THEOREM UndoHolds == StructureSpec => []UndoUndoes
<1>1. StructureInit => StructureInv /\ UndoInv
  <2> SUFFICES ASSUME StructureInit PROVE UndoInv
    BY StructureInitial
  <2>1. ToSet(backups) = {} /\ standing = "idle" /\ owed = Gone
    BY DEF StructureInit, ToSet
  <2> QED BY <2>1 DEF UndoInv, BackupsReverse, Caught
<1>2. StructureInv /\ UndoInv /\ [StructureNext]_structureVars => (StructureInv /\ UndoInv)'
  <2> SUFFICES ASSUME StructureInv, UndoInv, [StructureNext]_structureVars PROVE StructureInv' /\ UndoInv'
    OBVIOUS
  <2>1. StructureInv'
    BY WorkbookStep, OperationStep, BackupStep DEF StructureInv
  <2>2. CASE BeginTool
    BY <2>1, <2>2, BeginToolUndoes
  <2>3. CASE BeginRestore
    BY <2>1, <2>3, BeginRestoreUndoes
  <2>4. CASE SetName
    BY <2>1, <2>4, SetNameUndoes
  <2>5. CASE SetVisibility
    BY <2>1, <2>5, SetVisibilityUndoes
  <2>6. CASE Overwrite
    BY <2>1, <2>6, OverwriteUndoes
  <2>7. CASE AddSheet
    BY <2>1, <2>7, AddSheetUndoes
  <2>8. CASE InsertRows
    BY <2>1, <2>8, InsertRowsUndoes
  <2>9. CASE FillIn
    BY <2>1, <2>9, FillInUndoes
  <2>10. CASE Copy
    BY <2>1, <2>10, CopyUndoes
  <2>11. CASE InspectCopy
    BY <2>1, <2>11, InspectCopyUndoes
  <2>12. CASE CheckData
    BY <2>1, <2>12, CheckDataUndoes
  <2>13. CASE CaptureData
    BY <2>1, <2>13, CaptureDataUndoes
  <2>14. CASE DeleteNow
    <3>1. Made.kind \in {"sheet_absent", "rows_absent"}
      BY <2>14 DEF DeleteNow, StructureInv, OperationTypes
    <3> QED BY <2>1, <2>14, <3>1, DeleteRowsUndoes, DeleteSheetUndoes
  <2>15. CASE HostFails \/ UserTypes \/ UNCHANGED structureVars
    BY <2>1, <2>15, OutsideUndoes
  <2> QED BY <2>1, <2>2, <2>3, <2>4, <2>5, <2>6, <2>7, <2>8, <2>9, <2>10, <2>11, <2>12, <2>13, <2>14, <2>15
          DEF StructureNext, StructureStep
<1>3. UndoInv => UndoUndoes
  BY DEF UndoInv, UndoUndoes
<1> QED BY <1>1, <1>2, <1>3, PTL DEF StructureSpec
===============================================================================
