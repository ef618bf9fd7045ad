------------------------------- MODULE Tables -------------------------------
(***************************************************************************)
(* The dead letter page at work: DataTable with its sorting, pages and     *)
(* selection, BulkBar, the search and the dialogs that confirm, while      *)
(* auto-refresh replaces the rows under the user's hands.  JobsTable uses  *)
(* the same parts in the same way, without the search.  An open dialog is  *)
(* modal: until it is closed, only the rows change.                        *)
(***************************************************************************)
EXTENDS Naturals, Sequences, Filters, SequencesExt, FiniteSets

CONSTANTS
  Job,
  Rank,       \* Rank[key][j], what sorting by column key compares
  Searches,   \* the sets of jobs that a search text matches
  PageSizes   \* the sizes offered, the default first

SortKey == DOMAIN Rank

ASSUME TablesAssumption ==
  /\ IsFiniteSet(Job)
  /\ Rank \in [SortKey -> [Job -> Nat]] /\ "f" \in SortKey
  /\ Searches \subseteq SUBSET Job /\ Job \in Searches
  /\ PageSizes \in Seq(Nat \ {0}) /\ PageSizes # <<>>

VARIABLES
  data,      \* the last answer to the dlq query, in the server's order
  matching,  \* the jobs the search matches
  sort, size, page, \* DataTable
  sel,       \* the selection
  dialog,    \* the open ConfirmDialog, or NoDialog
  typed,     \* the text in it
  order      \* what the last step asked of the API, or NoOrder

tableVars  == <<sort, size, page>>
dialogVars == <<dialog, typed>>
vars       == <<data, matching, tableVars, sel, dialogVars, order>>

(* An open dialog is for a row, the selection or the whole DLQ; shown is   *)
(* what it announces: the row or the selection it was opened on, and for   *)
(* the purge, whose text counts data at every rendering, the last answer.  *)
Dialog(kind, row, shown) == [kind |-> kind, row |-> row, shown |-> shown]
NoDialog == Dialog("none", "none", {})

Order(op, ids, shown) == [op |-> op, ids |-> ids, shown |-> shown]
NoOrder == Order("none", {}, {})

Lists == UNION {{s \in [1..n -> Job] : IsInjective(s)} : n \in 0..Cardinality(Job)}

TablesTypeOK ==
  /\ data \in Lists /\ matching \in Searches
  /\ sort \in [key : SortKey, dir : {"asc", "desc"}]
  /\ size \in ToSet(PageSizes) /\ page \in 0..Cardinality(Job)
  /\ sel \subseteq Job
  /\ dialog.kind \in {"none", "row", "selected", "purge"}
  /\ dialog.row \in Job \cup {"none"} /\ dialog.shown \subseteq Job
  /\ typed \in {"", "purge d", "purge dlq"}
  /\ order.op \in {"none", "retryDlq", "deleteDlq", "purgeDlq"}
  /\ order.ids \subseteq Job /\ order.shown \subseteq Job
-----------------------------------------------------------------------------
(* DataTable *)

rows == Filter(data, matching)

(* Array.prototype.sort is stable, in both directions.                     *)
Precedes(list, a, b) ==
  LET x == Rank[sort.key][list[a]]
      y == Rank[sort.key][list[b]]
  IN  IF x = y THEN a < b ELSE IF sort.dir = "asc" THEN x < y ELSE y < x

InOrder(list, at) == \A i, j \in DOMAIN list : i < j => Precedes(list, at[i], at[j])

Sorted(list) ==
  LET at == CHOOSE f \in [DOMAIN list -> DOMAIN list] : InOrder(list, f)
  IN  [i \in DOMAIN list |-> list[at[i]]]

sorted == Sorted(rows)

AtLeast(a, b) == IF a < b THEN b ELSE a
AtMost(a, b)  == IF a < b THEN a ELSE b

(* Mutant: rounded down. *)
PagesFloor == AtLeast(1, Len(rows) \div size)

pages == AtLeast(1, (Len(rows) + size - 1) \div size)

(* Mutant: the page asked for, even if it is gone. *)
Unclamped == page

p == AtMost(page, pages - 1)

Slice(n) == SubSeq(sorted, n * size + 1, AtMost(Len(rows), n * size + size))
view     == Slice(p)

allOnPage == view # <<>> /\ \A i \in DOMAIN view : view[i] \in sel
-----------------------------------------------------------------------------
(* An open dialog is gone with the row or the BulkBar it is part of.       *)

(* Mutant: rows are told apart by their place. *)
SurvivesByPlace(d) ==
  IF d.kind = "row" /\ d.row \in ToSet(view)
  THEN LET i == CHOOSE n \in DOMAIN view : view[n] = d.row
       IN  IF i \in DOMAIN view' THEN [d EXCEPT !.row = view'[i]] ELSE NoDialog
  ELSE IF d.kind = "selected" /\ sel' = {} THEN NoDialog ELSE d

Survives(d) ==
  IF \/ d.kind = "row" /\ d.row \notin ToSet(view')
     \/ d.kind = "selected" /\ sel' = {}
  THEN NoDialog ELSE d

Rendered(d, list) ==
  IF d.kind = "purge" THEN Dialog("purge", d.row, ToSet(list)) ELSE d

Idle == dialog = NoDialog

TablesInit ==
  /\ data = <<>> /\ matching = Job
  /\ sort = [key |-> "f", dir |-> "desc"] /\ size = Head(PageSizes) /\ page = 0
  /\ sel = {} /\ dialog = NoDialog /\ typed = ""
  /\ order = NoOrder

(* An answer of the API arrives. *)
Refresh(list) ==
  /\ data' = list
  /\ order' = NoOrder
  /\ UNCHANGED <<matching, tableVars, sel>>
  /\ dialog' = Survives(Rendered(dialog, list))
  /\ typed' = IF dialog' = NoDialog THEN "" ELSE typed
-----------------------------------------------------------------------------
SearchInput(matches) ==
  /\ Idle
  /\ matching' = matches
  /\ order' = NoOrder
  /\ UNCHANGED <<data, tableVars, sel, dialogVars>>

setSort(key) ==
  /\ Idle
  /\ sort' = [key |-> key,
              dir |-> IF sort.key = key /\ sort.dir = "desc" THEN "asc" ELSE "desc"]
  /\ order' = NoOrder
  /\ UNCHANGED <<data, matching, size, page, sel, dialogVars>>

(* The pager is there when the rows are more than the smallest page.       *)
Pager == Idle /\ Len(rows) > Head(PageSizes)

setSize(n) ==
  /\ Pager
  /\ size' = n /\ page' = 0
  /\ order' = NoOrder
  /\ UNCHANGED <<data, matching, sort, sel, dialogVars>>

(* Mutants: the button is not disabled; one back from the page asked for   *)
(* last.                                                                   *)
PreviousPageAlways ==
  /\ Pager
  /\ page' = p - 1
  /\ order' = NoOrder
  /\ UNCHANGED <<data, matching, sort, size, sel, dialogVars>>

PreviousPageRaw ==
  /\ Pager /\ p # 0
  /\ page' = page - 1
  /\ order' = NoOrder
  /\ UNCHANGED <<data, matching, sort, size, sel, dialogVars>>

PreviousPage ==
  /\ Pager /\ p # 0
  /\ page' = p - 1
  /\ order' = NoOrder
  /\ UNCHANGED <<data, matching, sort, size, sel, dialogVars>>

NextPage ==
  /\ Pager /\ p < pages - 1
  /\ page' = p + 1
  /\ order' = NoOrder
  /\ UNCHANGED <<data, matching, sort, size, sel, dialogVars>>

onSelectedChange(s) ==
  /\ Idle
  /\ sel' = s
  /\ order' = NoOrder
  /\ UNCHANGED <<data, matching, tableVars, dialogVars>>

toggle(j) ==
  /\ j \in ToSet(view)
  /\ onSelectedChange(IF j \in sel THEN sel \ {j} ELSE sel \cup {j})

selectAll ==
  onSelectedChange(IF allOnPage THEN sel \ ToSet(view) ELSE sel \cup ToSet(view))

(* BulkBar *)
onClear == sel # {} /\ onSelectedChange({})
-----------------------------------------------------------------------------
(* The buttons of DlqPage *)

(* One button for the selection; two for a row.                            *)
retrySelected ==
  /\ Idle /\ sel # {}
  /\ order' = Order("retryDlq", sel, sel) /\ sel' = {}
  /\ UNCHANGED <<data, matching, tableVars, dialogVars>>

retryRow(j) ==
  /\ Idle /\ j \in ToSet(view)
  /\ order' = Order("retryDlq", {j}, {j})
  /\ UNCHANGED <<data, matching, tableVars, sel, dialogVars>>

(* ConfirmDialog; its text is reset whenever it opens or closes.           *)
Open(d) ==
  /\ Idle
  /\ dialog' = d /\ typed' = ""
  /\ order' = NoOrder
  /\ UNCHANGED <<data, matching, tableVars, sel>>

openRow(j)   == j \in ToSet(view) /\ Open(Dialog("row", j, {j}))
openSelected == sel # {} /\ Open(Dialog("selected", "none", sel))
openPurge    == data # <<>> /\ Open(Dialog("purge", "none", ToSet(data)))

setTyped(text) ==
  /\ dialog.kind = "purge"
  /\ typed' = text
  /\ order' = NoOrder
  /\ UNCHANGED <<data, matching, tableVars, sel, dialog>>

Cancel ==
  /\ ~Idle
  /\ dialog' = NoDialog /\ typed' = ""
  /\ order' = NoOrder
  /\ UNCHANGED <<data, matching, tableVars, sel>>

onConfirm ==
  /\ ~Idle /\ (dialog.kind = "purge" => typed = "purge dlq")
  /\ \/ dialog.kind = "row"      /\ order' = Order("deleteDlq", {dialog.row}, dialog.shown)
     \/ dialog.kind = "selected" /\ order' = Order("deleteDlq", sel, dialog.shown)
     \/ dialog.kind = "purge"    /\ order' = Order("purgeDlq", {}, dialog.shown)
  /\ sel' = IF dialog.kind = "selected" THEN {} ELSE sel
  /\ dialog' = NoDialog /\ typed' = ""
  /\ UNCHANGED <<data, matching, tableVars>>
-----------------------------------------------------------------------------
TablesNext ==
  \/ \E list \in Lists : Refresh(list)
  \/ \E matches \in Searches : SearchInput(matches)
  \/ \E key \in SortKey : setSort(key)
  \/ \E n \in ToSet(PageSizes) : setSize(n)
  \/ PreviousPage \/ NextPage
  \/ \E j \in Job : toggle(j) \/ retryRow(j) \/ openRow(j)
  \/ selectAll \/ onClear
  \/ retrySelected \/ openSelected \/ openPurge
  \/ \E text \in {"", "purge d", "purge dlq"} : setTyped(text)
  \/ Cancel \/ onConfirm

TablesSpec == TablesInit /\ [][TablesNext]_vars
-----------------------------------------------------------------------------
(* Properties *)

(* While some row passes the search, the screen is never on an empty page, *)
(* however many rows have gone since the page was chosen (p in DataTable). *)
NeverEmptyPage == rows # <<>> => view # <<>>

(* The pages one after the other are the rows, each once, in sorted order. *)
PagesCoverRows == FlattenSeq([i \in 1..pages |-> Slice(i - 1)]) = sorted

(* The pager's buttons always show other rows: none is pressed in vain     *)
(* when the page chosen last is gone (setPage(p - 1), setPage(p + 1)).     *)
PagerMoves ==
  [][PreviousPage \/ NextPage
       => view' # <<>> /\ ToSet(view') \cap ToSet(view) = {}]_vars

(* A delete is for exactly the jobs its dialog announced when the user     *)
(* opened it, whatever rows came, went or moved in the meantime.  A purge  *)
(* names no jobs, the server deletes what it finds: its dialog announced   *)
(* the rows of the last answer at the moment the user confirmed, also when *)
(* that answer came after it was opened.                                   *)
DeletesAsAnnounced ==
  /\ order.op = "deleteDlq" => order.ids = order.shown
  /\ order.op = "purgeDlq"  => order.shown = ToSet(data)
=============================================================================
