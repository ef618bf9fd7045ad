---------------------------- MODULE TablesProofs ----------------------------
(***************************************************************************)
(* The dialogs and the pages of the dead letter page, for any jobs,        *)
(* columns, page sizes and searches.                                       *)
(***************************************************************************)
EXTENDS Tables, FilterProofs, FiniteSetTheorems

(* An open dialog is still about what it announced: a row's dialog about   *)
(* that row, the one of the BulkBar about the selection, which cannot      *)
(* change while it is open, and the one of the purge about the last        *)
(* answer.                                                                 *)
DialogInv ==
  /\ dialog.kind = "row" => dialog.shown = {dialog.row}
  /\ dialog.kind = "selected" => dialog.shown = sel
  /\ dialog.kind = "purge" => dialog.shown = ToSet(data)
  /\ DeletesAsAnnounced

(* The fields of dialogs and orders.                                       *)
LEMMA Fields ==
  /\ NoDialog.kind = "none"
  /\ NoOrder.op = "none"
  /\ \A op, ids, shown :
       /\ Order(op, ids, shown).op = op
       /\ Order(op, ids, shown).ids = ids
       /\ Order(op, ids, shown).shown = shown
  /\ \A kind, row, shown :
       /\ Dialog(kind, row, shown).kind = kind
       /\ Dialog(kind, row, shown).row = row
       /\ Dialog(kind, row, shown).shown = shown
BY DEF NoDialog, Dialog, NoOrder, Order

(* What an answer of the API leaves of a dialog is the dialog or nothing.  *)
LEMMA SurvivesOrGoes ==
  ASSUME NEW d
  PROVE  Survives(d) = d \/ Survives(d) = NoDialog
BY DEF Survives

(* The page opens without a dialog and with nothing ordered.               *)
LEMMA InitDialog == TablesInit => DialogInv
BY ZenonT(60), Fields DEF TablesInit, DialogInv, DeletesAsAnnounced

(* Every step keeps DialogInv.                                             *)
LEMMA NextDialog == DialogInv /\ [TablesNext]_vars => DialogInv'
<1> SUFFICES ASSUME DialogInv, [TablesNext]_vars
             PROVE  DialogInv'
  OBVIOUS
<1> USE Fields DEF DialogInv, DeletesAsAnnounced
<1>1. ASSUME NEW list \in Lists, Refresh(list)
      PROVE  DialogInv'
  <2>1. dialog' = Rendered(dialog, list) \/ dialog' = NoDialog
    BY ZenonT(60), <1>1, SurvivesOrGoes DEF Refresh
  <2>2. CASE dialog.kind = "purge"
    <3>1. Rendered(dialog, list).kind = "purge" /\ Rendered(dialog, list).shown = ToSet(list)
      BY <2>2 DEF Rendered
    <3> QED
      BY ZenonT(60), <1>1, <2>1, <3>1 DEF Refresh
  <2>3. CASE dialog.kind # "purge"
    <3>1. Rendered(dialog, list) = dialog
      BY <2>3 DEF Rendered
    <3> QED
      BY ZenonT(60), <1>1, <2>1, <2>3, <3>1 DEF Refresh
  <2> QED
    BY <2>2, <2>3
<1>2. ASSUME NEW matches \in Searches, SearchInput(matches)
      PROVE  DialogInv'
  BY <1>2 DEF SearchInput, dialogVars
<1>3. ASSUME NEW key \in SortKey, setSort(key)
      PROVE  DialogInv'
  BY <1>3 DEF setSort, dialogVars
<1>4. ASSUME NEW n \in ToSet(PageSizes), setSize(n)
      PROVE  DialogInv'
  BY <1>4 DEF setSize, dialogVars
<1>5. ASSUME PreviousPage \/ NextPage
      PROVE  DialogInv'
  BY <1>5 DEF PreviousPage, NextPage, dialogVars
<1>6. ASSUME NEW s, onSelectedChange(s)
      PROVE  DialogInv'
  BY <1>6 DEF onSelectedChange, Idle, dialogVars
<1>7. ASSUME NEW j \in Job, toggle(j)
      PROVE  DialogInv'
  BY <1>6, <1>7 DEF toggle
<1>8. ASSUME selectAll \/ onClear
      PROVE  DialogInv'
  BY <1>6, <1>8 DEF selectAll, onClear
<1>9. ASSUME NEW j \in Job, retryRow(j)
      PROVE  DialogInv'
  BY <1>9 DEF retryRow, dialogVars
<1>10. ASSUME retrySelected
       PROVE  DialogInv'
  BY <1>10 DEF retrySelected, Idle, dialogVars
<1>11. ASSUME NEW j \in Job, openRow(j)
       PROVE  DialogInv'
  <2>1. dialog' = Dialog("row", j, {j}) /\ order' = NoOrder
    BY ZenonT(60), <1>11 DEF openRow, Open
  <2> QED
    BY <2>1
<1>12a. CASE openSelected
  <2>1. dialog' = Dialog("selected", "none", sel) /\ order' = NoOrder /\ sel' = sel
    BY ZenonT(60), <1>12a DEF openSelected, Open
  <2> QED
    BY <2>1
<1>12b. CASE openPurge
  <2>1. dialog' = Dialog("purge", "none", ToSet(data)) /\ order' = NoOrder /\ data' = data
    BY ZenonT(60), <1>12b DEF openPurge, Open
  <2> QED
    BY <2>1
<1>13. ASSUME NEW text, setTyped(text)
       PROVE  DialogInv'
  BY <1>13 DEF setTyped
<1>14. CASE Cancel
  BY ZenonT(60), <1>14 DEF Cancel
<1>15. CASE onConfirm
  <2>1. dialog' = NoDialog
    BY ZenonT(60), <1>15 DEF onConfirm
  <2>2. DeletesAsAnnounced'
    <3>1. CASE dialog.kind = "purge"
      <4>1. order' = Order("purgeDlq", {}, ToSet(data)) /\ data' = data
        BY ZenonT(60), <1>15, <3>1 DEF onConfirm
      <4> QED
        BY <4>1
    <3>2. CASE dialog.kind # "purge"
      <4>1. \E ids : order' = Order("deleteDlq", ids, ids)
        BY ZenonT(60), <1>15, <3>2 DEF onConfirm
      <4> QED
        BY <4>1
    <3> QED
      BY <3>1, <3>2
  <2> QED
    BY <2>1, <2>2
<1>16. CASE UNCHANGED vars
  BY <1>16 DEF vars, dialogVars
<1> QED
  BY ZenonT(60), <1>1, <1>2, <1>3, <1>4, <1>5, <1>7, <1>8, <1>9, <1>10, <1>11, <1>12a, <1>12b, <1>13, <1>14,
     <1>15, <1>16 DEF TablesNext

(* A delete names exactly the jobs its dialog announced when it was        *)
(* opened, whatever answers came in between, and a purge is confirmed on   *)
(* the rows of the last answer (onConfirm in dlq.tsx).                     *)
THEOREM AnnouncedDeleted == TablesSpec => []DeletesAsAnnounced
<1>1. DialogInv => DeletesAsAnnounced
  BY DEF DialogInv
<1> QED
  BY <1>1, InitDialog, NextDialog, PTL DEF TablesSpec

-----------------------------------------------------------------------------
(* What the table shows.                                                   *)

(* The members of a list.                                                  *)
LEMMA Members ==
  ASSUME NEW T, NEW s \in Seq(T)
  PROVE  ToSet(s) \subseteq T /\ (s # <<>> => Head(s) \in ToSet(s))
<1>1. Len(s) \in Nat /\ DOMAIN s = 1..Len(s) /\ \A i \in 1..Len(s) : s[i] \in T
  BY SeqFacts
<1>2. ASSUME s # <<>> PROVE Head(s) \in ToSet(s)
  <2>1. Len(s) # 0 /\ Head(s) = s[1]
    BY <1>2, EmptyFacts, TailFacts
  <2>2. QED
    BY <1>1, <2>1 DEF ToSet
<1>3. QED
  BY <1>1, <1>2 DEF ToSet

(* The sizes offered are positive, the default among them.                 *)
LEMMA Sizes == ToSet(PageSizes) \subseteq Nat \ {0} /\ Head(PageSizes) \in ToSet(PageSizes)
<1>1. PageSizes \in Seq(Nat \ {0}) /\ PageSizes # <<>>
  BY TablesAssumption
<1> DEFINE T == Nat \ {0}
<1> HIDE DEF T
<1>2. PageSizes \in Seq(T)
  BY <1>1 DEF T
<1>3. ToSet(PageSizes) \subseteq T /\ Head(PageSizes) \in ToSet(PageSizes)
  BY <1>1, <1>2, Members
<1>4. QED
  BY <1>3 DEF T

(* The answers of the API are lists of jobs without duplicates.            *)
LEMMA ListFacts ==
  ASSUME NEW list \in Lists
  PROVE  /\ list \in Seq(Job) /\ Len(list) \in Nat /\ Len(list) <= Cardinality(Job)
         /\ \A i, j \in 1..Len(list) : list[i] = list[j] => i = j
<1>1. Cardinality(Job) \in Nat
  BY TablesAssumption, FS_CardinalityType
<1>2. PICK n \in 0..Cardinality(Job) : list \in [1..n -> Job] /\ IsInjective(list)
  BY DEF Lists
<1>3. n \in Nat /\ list \in Seq(Job) /\ Len(list) = n
  BY <1>1, <1>2
<1>4. QED
  BY <1>1, <1>2, <1>3 DEF IsInjective

(* So are the rows the search leaves.                                      *)
LEMMA RowsFacts ==
  ASSUME TablesTypeOK
  PROVE  /\ rows \in Seq(Job) /\ Len(rows) \in Nat /\ Len(rows) <= Cardinality(Job)
         /\ DOMAIN rows = 1..Len(rows)
         /\ \A i, j \in 1..Len(rows) : rows[i] = rows[j] => i = j
<1>1. /\ data \in Seq(Job) /\ Len(data) \in Nat /\ Len(data) <= Cardinality(Job)
      /\ \A i, j \in 1..Len(data) : data[i] = data[j] => i = j
  BY ZenonT(60), ListFacts DEF TablesTypeOK
<1>2. rows \in Seq(Job) /\ Len(rows) <= Len(data)
  BY <1>1, FilterProperties DEF rows
<1>3. \A i, j \in 1..Len(rows) : rows[i] = rows[j] => i = j
  BY <1>1, FilterInjective DEF rows
<1>4. Len(rows) \in Nat /\ DOMAIN rows = 1..Len(rows)
  BY <1>2, SeqFacts
<1>5. Cardinality(Job) \in Nat
  BY TablesAssumption, FS_CardinalityType
<1>6. QED
  BY SMTT(30), <1>1, <1>2, <1>3, <1>4, <1>5

(* Sorting moves the rows and loses none.                                  *)
LEMMA SortedFacts ==
  ASSUME TablesTypeOK
  PROVE  /\ sorted \in [1..Len(rows) -> Job]
         /\ \A i, j \in 1..Len(rows) : sorted[i] = sorted[j] => i = j
<1> DEFINE L == Len(rows)
           R == {ab \in (1..L) \X (1..L) : Precedes(rows, ab[1], ab[2])}
<1>1. /\ L \in Nat /\ DOMAIN rows = 1..L /\ \A i \in 1..L : rows[i] \in Job
      /\ \A i, j \in 1..L : rows[i] = rows[j] => i = j
  BY RowsFacts, SeqFacts
<1>2. PICK r \in [1..L -> Nat] : \A i \in 1..L : r[i] = Rank[sort.key][rows[i]]
  <2>1. sort.key \in SortKey
    BY ZenonT(60) DEF TablesTypeOK
  <2>2. Rank[sort.key] \in [Job -> Nat]
    BY <2>1, TablesAssumption
  <2>3. [i \in 1..L |-> Rank[sort.key][rows[i]]] \in [1..L -> Nat]
    BY <1>1, <2>2
  <2>4. QED
    BY ZenonT(60), <2>3
<1>3. \A a, b \in 1..L :
        <<a, b>> \in R <=> IF r[a] = r[b] THEN a < b
                           ELSE IF sort.dir = "asc" THEN r[a] < r[b] ELSE r[b] < r[a]
  BY ZenonT(60), <1>2 DEF Precedes
<1>4. PICK f : Sorts(f, L, R)
  <2>1. \A a \in 1..L : <<a, a>> \notin R
    BY <1>1, <1>3
  <2>2. \A a, b \in 1..L : a # b => <<a, b>> \in R \/ <<b, a>> \in R
    BY <1>1, <1>2, <1>3
  <2>3. ASSUME NEW a \in 1..L, NEW b \in 1..L, NEW c \in 1..L, <<a, b>> \in R, <<b, c>> \in R
        PROVE  <<a, c>> \in R
    <3> HIDE DEF R
    <3>1. a \in Nat /\ b \in Nat /\ c \in Nat /\ r[a] \in Nat /\ r[b] \in Nat /\ r[c] \in Nat
      BY <1>1, <1>2
    <3>2. CASE sort.dir = "asc"
      BY SMTT(30), <1>3, <2>3, <3>1, <3>2
    <3>3. CASE sort.dir # "asc"
      BY <1>3, <2>3, <3>1, <3>3
    <3>4. QED
      BY <3>2, <3>3
  <2> HIDE DEF R
  <2>4. QED
    BY ZenonT(60), <1>1, <2>1, <2>2, <2>3, Sortable
<1>5. f \in [DOMAIN rows -> DOMAIN rows] /\ InOrder(rows, f)
  BY ZenonT(60), <1>1, <1>4 DEF Sorts, InOrder
<1> DEFINE at == CHOOSE g \in [DOMAIN rows -> DOMAIN rows] : InOrder(rows, g)
<1>6. at \in [1..L -> 1..L] /\ InOrder(rows, at)
  BY <1>1, <1>5
<1>7. sorted = [i \in 1..L |-> rows[at[i]]]
  BY <1>1 DEF sorted, Sorted
<1> HIDE DEF at
<1>8. \A i, j \in 1..L : i < j => <<at[i], at[j]>> \in R
  BY ZenonT(60), <1>1, <1>6 DEF InOrder
<1>9. ASSUME NEW i \in 1..L, NEW j \in 1..L, at[i] = at[j] PROVE i = j
  <2>1. at[i] \in 1..L /\ <<at[i], at[i]>> \notin R
    BY <1>1, <1>3, <1>6
  <2> HIDE DEF R
  <2>2. ~(i < j) /\ ~(j < i)
    BY ZenonT(60), <1>8, <1>9, <2>1
  <2>3. QED
    BY <1>1, <2>2
<1>10. QED
  BY ZenonT(60), <1>1, <1>6, <1>7, <1>9

(* Division rounds down.                                                   *)
LEMMA DivBounds ==
  ASSUME NEW a \in Nat, NEW b \in Nat \ {0}
  PROVE  a \div b \in Nat /\ (a \div b) * b <= a /\ a < (a \div b) * b + b
OBVIOUS

(* There are as many pages as the rows fill, the last perhaps in part.     *)
LEMMA PagesFacts ==
  ASSUME TablesTypeOK
  PROVE  /\ size \in Nat \ {0} /\ pages \in Nat \ {0}
         /\ Len(rows) <= pages * size
         /\ Len(rows) > 0 => (pages - 1) * size < Len(rows) /\ pages <= Len(rows)
         /\ Len(rows) = 0 => pages = 1
<1> DEFINE L == Len(rows)
           q == (L + size - 1) \div size
<1>1. L \in Nat
  BY RowsFacts
<1>2. size \in Nat \ {0}
  BY ZenonT(60), Sizes DEF TablesTypeOK
<1>3. L + size - 1 \in Nat
  BY <1>1, <1>2
<1>4. q \in Nat /\ q * size <= L + size - 1 /\ L + size - 1 < q * size + size
  BY <1>2, <1>3, DivBounds
<1>5. pages = IF 1 < q THEN q ELSE 1
  BY DEF pages, AtLeast
<1> HIDE DEF q, L
<1>6. CASE L = 0
  <2>1. q * size < 1 * size
    BY <1>2, <1>4, <1>6
  <2>2. q = 0
    BY <1>2, <1>4, <2>1
  <2>3. QED
    BY SMTT(30), <1>2, <1>5, <1>6, <2>2 DEF L
<1>7. CASE L > 0
  <2>1. q \in Nat \ {0} /\ L <= q * size /\ (q - 1) * size < L
    BY SMTT(30), <1>1, <1>2, <1>4, <1>7
  <2>2. pages = q
    BY <1>5, <2>1
  <2>3. q <= L
    BY <1>1, <1>2, <2>1
  <2>4. QED
    BY SMTT(30), <1>2, <1>7, <2>1, <2>2, <2>3 DEF L
<1>8. QED
  BY <1>1, <1>6, <1>7

(* The page shown is one of them.                                          *)
LEMMA PageShown ==
  ASSUME TablesTypeOK
  PROVE  p \in 0..(pages - 1)
<1>1. Cardinality(Job) \in Nat
  BY TablesAssumption, FS_CardinalityType
<1>2. page \in Nat
  <2>1. page \in 0..Cardinality(Job)
    BY ZenonT(60) DEF TablesTypeOK
  <2>2. QED
    BY <1>1, <2>1
<1>3. pages \in Nat \ {0}
  BY PagesFacts
<1>4. QED
  BY SMTT(30), <1>2, <1>3 DEF p, AtMost

(* A page starts within the rows, and ends within them.                    *)
LEMMA PageEnds ==
  ASSUME TablesTypeOK, NEW n \in 0..(pages - 1)
  PROVE  /\ n * size \in 0..Len(rows)
         /\ Len(rows) > 0 => n * size < Len(rows)
         /\ AtMost(Len(rows), n * size + size) \in n * size..Len(rows)
         /\ Len(rows) > 0 => n * size < AtMost(Len(rows), n * size + size)
<1>1. /\ Len(rows) \in Nat /\ size \in Nat \ {0} /\ pages \in Nat \ {0} /\ n \in Nat
      /\ n <= pages - 1
  BY RowsFacts, PagesFacts
<1>2. n * size \in Nat
  BY <1>1
<1>3. n * size <= (pages - 1) * size
  BY <1>1
<1>4. CASE Len(rows) > 0
  <2>1. n * size < Len(rows)
    BY SMTT(30), <1>1, <1>2, <1>3, <1>4, PagesFacts
  <2>2. QED
    BY SMTT(30), <1>1, <1>2, <2>1 DEF AtMost
<1>5. CASE Len(rows) = 0
  <2>1. n = 0
    BY SMTT(30), <1>1, <1>5, PagesFacts
  <2>2. QED
    BY SMTT(30), <1>1, <1>5, <2>1 DEF AtMost
<1>6. QED
  BY SMTT(30), <1>1, <1>4, <1>5

(* What is on a page.                                                      *)
LEMMA SliceFacts ==
  ASSUME TablesTypeOK, NEW n \in 0..(pages - 1)
  PROVE  /\ Slice(n) \in Seq(Job)
         /\ Len(Slice(n)) = AtMost(Len(rows), n * size + size) - n * size
         /\ \A k \in 1..Len(Slice(n)) : /\ n * size + k \in 1..Len(rows)
                                        /\ Slice(n)[k] = sorted[n * size + k]
<1>1. PICK a \in Nat, b \in Nat :
        /\ a = n * size /\ b = AtMost(Len(rows), n * size + size) /\ a <= b /\ b <= Len(rows)
  BY RowsFacts, PageEnds
<1>2. Slice(n) = SubSeq(sorted, a + 1, b)
  BY <1>1 DEF Slice
<1>3. Len(rows) \in Nat
  BY RowsFacts
<1>4. sorted \in Seq(Job) /\ Len(sorted) = Len(rows)
  BY <1>3, SortedFacts
<1>5. /\ SubSeq(sorted, a + 1, b) \in Seq(Job)
      /\ Len(SubSeq(sorted, a + 1, b)) = b - a
      /\ \A k \in 1..(b - a) : SubSeq(sorted, a + 1, b)[k] = sorted[a + k]
  BY SMTT(30), <1>1, <1>3, <1>4
<1>6. \A k \in 1..(b - a) : a + k \in 1..Len(rows)
  BY <1>1, <1>3
<1>7. QED
  BY ZenonT(60), <1>1, <1>2, <1>5, <1>6
-----------------------------------------------------------------------------
(* The dialogs and orders are about jobs.                                  *)
LEMMA FieldTypes ==
  /\ NoDialog.kind = "none" /\ NoDialog.row = "none" /\ NoDialog.shown = {}
  /\ NoOrder.op = "none" /\ NoOrder.ids = {} /\ NoOrder.shown = {}
  /\ \A op, ids, shown : Order(op, ids, shown).op = op
BY DEF NoDialog, Dialog, NoOrder, Order

DialogTypeOK ==
  /\ dialog.kind \in {"none", "row", "selected", "purge"}
  /\ dialog.row \in Job \cup {"none"} /\ dialog.shown \subseteq Job

OrderTypeOK ==
  /\ order.op \in {"none", "retryDlq", "deleteDlq", "purgeDlq"}
  /\ order.ids \subseteq Job /\ order.shown \subseteq Job

(* Nothing ordered, and no dialog or the one before.                       *)
LEMMA NothingOrdered ==
  ASSUME TablesTypeOK
  PROVE  /\ order' = NoOrder => OrderTypeOK'
         /\ dialog' = NoDialog => DialogTypeOK'
         /\ dialog' = dialog => DialogTypeOK'
<1> USE Fields, FieldTypes
<1>1. order' = NoOrder => OrderTypeOK'
  BY DEF OrderTypeOK
<1>2. dialog' = NoDialog => DialogTypeOK'
  BY DEF DialogTypeOK
<1>3. dialog' = dialog => DialogTypeOK'
  BY ZenonT(60) DEF DialogTypeOK, TablesTypeOK
<1>4. QED
  BY ZenonT(60), <1>1, <1>2, <1>3

(* The selection and the table, when none of it changes.                   *)
SelectTypeOK == sel \subseteq Job

TableTypeOK ==
  /\ data \in Lists /\ matching \in Searches
  /\ sort \in [key : SortKey, dir : {"asc", "desc"}]
  /\ size \in ToSet(PageSizes) /\ page \in 0..Cardinality(Job)

TypedOK == typed \in {"", "purge d", "purge dlq"}

(* The rows in view are jobs.                                              *)
LEMMA ViewJobs ==
  ASSUME TablesTypeOK
  PROVE  ToSet(view) \subseteq Job
<1>1. p \in 0..(pages - 1)
  BY PageShown
<1>2. view \in Seq(Job)
  BY <1>1, SliceFacts DEF view
<1>3. QED
  BY <1>2, Members

(* The table opens well typed.                                             *)
LEMMA TablesTypeInit == TablesInit => TablesTypeOK
<1> SUFFICES ASSUME TablesInit PROVE TablesTypeOK
  OBVIOUS
<1>1. Cardinality(Job) \in Nat
  BY TablesAssumption, FS_CardinalityType
<1>2. <<>> \in Lists
  <2>1. <<>> \in Seq(Job) /\ Len(<<>>) = 0
    OBVIOUS
  <2>2. <<>> \in [1..0 -> Job] /\ DOMAIN <<>> = 1..0
    BY <2>1, SeqFacts
  <2>3. IsInjective(<<>>)
    BY <2>2 DEF IsInjective
  <2>4. 0 \in 0..Cardinality(Job)
    BY <1>1
  <2>5. <<>> \in {s \in [1..0 -> Job] : IsInjective(s)}
    BY <2>2, <2>3
  <2>6. QED
    BY <2>4, <2>5 DEF Lists
<1>3. size \in ToSet(PageSizes)
  BY ZenonT(60), Sizes DEF TablesInit
<1>4. sort \in [key : SortKey, dir : {"asc", "desc"}]
  BY ZenonT(60), TablesAssumption DEF TablesInit
<1>5. dialog.kind = "none" /\ dialog.row = "none" /\ dialog.shown = {}
  BY ZenonT(60), FieldTypes DEF TablesInit
<1>6. order.op = "none" /\ order.ids = {} /\ order.shown = {}
  BY ZenonT(60), FieldTypes DEF TablesInit
<1>7. matching \in Searches /\ page \in 0..Cardinality(Job)
  <2>1. matching \in Searches
    BY ZenonT(60), TablesAssumption DEF TablesInit
  <2>2. page = 0
    BY ZenonT(60) DEF TablesInit
  <2>3. QED
    BY SMTT(30), <1>1, <2>1, <2>2
<1>8. QED
  BY ZenonT(60), <1>2, <1>3, <1>4, <1>5, <1>6, <1>7 DEF TablesInit, TablesTypeOK

(* Every step keeps the types: no page is chosen beyond the last one, and  *)
(* nothing that is not a job is selected, announced or ordered.  That a    *)
(* row's dialog names a job is in DialogInv.                               *)
LEMMA TablesTypeNext == TablesTypeOK /\ DialogInv /\ [TablesNext]_vars => TablesTypeOK'
<1> SUFFICES ASSUME TablesTypeOK, DialogInv, [TablesNext]_vars
             PROVE  TablesTypeOK'
  OBVIOUS
<1> USE DEF SelectTypeOK, TypedOK
<1>1. TableTypeOK /\ DialogTypeOK /\ OrderTypeOK /\ SelectTypeOK /\ TypedOK
  BY ZenonT(60) DEF TablesTypeOK, TableTypeOK, DialogTypeOK, OrderTypeOK
<1>2. (TableTypeOK /\ DialogTypeOK /\ OrderTypeOK /\ SelectTypeOK /\ TypedOK)' => TablesTypeOK'
  BY ZenonT(60) DEF TablesTypeOK, TableTypeOK, DialogTypeOK, OrderTypeOK
<1>3. UNCHANGED <<data, matching, tableVars>> => TableTypeOK'
  BY ZenonT(60), <1>1 DEF TableTypeOK, tableVars
<1>4. UNCHANGED dialogVars => DialogTypeOK' /\ TypedOK'
  BY ZenonT(60), <1>1, NothingOrdered DEF dialogVars
<1>5. ASSUME NEW list \in Lists, Refresh(list) PROVE TablesTypeOK'
  <2>1. TableTypeOK' /\ SelectTypeOK'
    BY ZenonT(60), <1>1, <1>5 DEF Refresh, TableTypeOK, tableVars
  <2>2. DialogTypeOK' /\ OrderTypeOK'
    <3>1. dialog' = Rendered(dialog, list) \/ dialog' = NoDialog
      BY ZenonT(60), <1>5, SurvivesOrGoes DEF Refresh
    <3>2. CASE dialog.kind = "purge" /\ dialog' = Rendered(dialog, list)
      <4>1. ToSet(list) \subseteq Job
        BY ZenonT(60), ListFacts, Members
      <4>2. dialog' = Dialog("purge", dialog.row, ToSet(list))
        BY ZenonT(60), <3>2 DEF Rendered
      <4>3. DialogTypeOK'
        <5>1. dialog'.kind = "purge" /\ dialog'.row = dialog.row /\ dialog'.shown = ToSet(list)
          BY SMTT(30), <4>2, Fields
        <5>2. QED
          BY ZenonT(60), <1>1, <4>1, <5>1 DEF DialogTypeOK
      <4>4. QED
        BY ZenonT(60), <1>5, <4>3, NothingOrdered DEF Refresh
    <3>3. CASE dialog.kind # "purge" /\ dialog' = Rendered(dialog, list)
      BY ZenonT(60), <1>5, <3>3, NothingOrdered DEF Refresh, Rendered
    <3>4. CASE dialog' = NoDialog
      BY ZenonT(60), <1>5, <3>4, NothingOrdered DEF Refresh
    <3>5. QED
      BY ZenonT(60), <3>1, <3>2, <3>3, <3>4
  <2>3. TypedOK'
    BY ZenonT(60), <1>1, <1>5 DEF Refresh
  <2>4. QED
    BY ZenonT(60), <1>2, <2>1, <2>2, <2>3
<1>6. ASSUME NEW matches \in Searches, SearchInput(matches) PROVE TablesTypeOK'
  <2>1. TableTypeOK' /\ SelectTypeOK' /\ order' = NoOrder /\ UNCHANGED dialogVars
    BY ZenonT(60), <1>1, <1>6 DEF SearchInput, TableTypeOK, tableVars
  <2>2. QED
    BY ZenonT(60), <1>2, <1>4, <2>1, NothingOrdered
<1>7. ASSUME NEW key \in SortKey, setSort(key) PROVE TablesTypeOK'
  <2>1. sort' \in [key : SortKey, dir : {"asc", "desc"}]
    BY <1>7 DEF setSort
  <2>2. TableTypeOK' /\ SelectTypeOK' /\ order' = NoOrder /\ UNCHANGED dialogVars
    BY ZenonT(60), <1>1, <1>7, <2>1 DEF setSort, TableTypeOK
  <2>3. QED
    BY ZenonT(60), <1>2, <1>4, <2>2, NothingOrdered
<1>8. ASSUME UNCHANGED <<data, matching, sort, sel, dialogVars>>, order' = NoOrder,
             size' \in ToSet(PageSizes), page' \in 0..Cardinality(Job)
      PROVE  TablesTypeOK'
  BY ZenonT(60), <1>1, <1>2, <1>4, <1>8, NothingOrdered DEF TableTypeOK
<1>9. Cardinality(Job) \in Nat
  BY TablesAssumption, FS_CardinalityType
<1>10. ASSUME NEW n \in ToSet(PageSizes), setSize(n) PROVE TablesTypeOK'
  <2>1. 0 \in 0..Cardinality(Job)
    BY <1>9
  <2>2. QED
    BY ZenonT(60), <1>8, <1>10, <2>1 DEF setSize
<1>11. CASE PreviousPage \/ NextPage
  <2>1. p \in 0..(pages - 1) /\ pages \in Nat \ {0}
    BY PageShown, PagesFacts
  <2>2. page' \in 0..(pages - 1)
    BY <1>11, <2>1 DEF PreviousPage, NextPage
  <2>3. pages - 1 <= Cardinality(Job)
    <3>1. Len(rows) \in Nat /\ Len(rows) <= Cardinality(Job)
      BY RowsFacts
    <3>2. (Len(rows) > 0 => pages <= Len(rows)) /\ (Len(rows) = 0 => pages = 1)
      BY PagesFacts
    <3>3. QED
      BY SMTT(30), <1>9, <2>1, <3>1, <3>2
  <2>4. page' \in 0..Cardinality(Job)
    BY SMTT(30), <1>9, <2>1, <2>2, <2>3
  <2>5. size' \in ToSet(PageSizes)
    BY ZenonT(60), <1>1, <1>11 DEF TableTypeOK, PreviousPage, NextPage
  <2>6. UNCHANGED <<data, matching, sort, sel, dialogVars>> /\ order' = NoOrder
    BY <1>11 DEF PreviousPage, NextPage
  <2>7. QED
    BY ZenonT(60), <1>8, <2>4, <2>5, <2>6
<1>12. ASSUME NEW s \in SUBSET Job, onSelectedChange(s) PROVE TablesTypeOK'
  BY ZenonT(60), <1>2, <1>3, <1>4, <1>12, NothingOrdered DEF onSelectedChange
<1>13. ASSUME NEW j \in Job, toggle(j) PROVE TablesTypeOK'
  <2>1. (IF j \in sel THEN sel \ {j} ELSE sel \cup {j}) \in SUBSET Job
    BY ZenonT(60), <1>1
  <2>2. QED
    BY ZenonT(60), <1>12, <1>13, <2>1 DEF toggle
<1>14. CASE selectAll \/ onClear
  <2>1. (IF allOnPage THEN sel \ ToSet(view) ELSE sel \cup ToSet(view)) \in SUBSET Job
    BY ZenonT(60), <1>1, ViewJobs
  <2>2. QED
    BY ZenonT(60), <1>12, <1>14, <2>1 DEF selectAll, onClear
<1>15. ASSUME NEW ids \in SUBSET Job, NEW shown \in SUBSET Job,
              NEW op \in {"retryDlq", "deleteDlq", "purgeDlq"}, order' = Order(op, ids, shown)
       PROVE  OrderTypeOK'
  BY SMTT(30), <1>15, Fields, FieldTypes DEF OrderTypeOK
<1>16. ASSUME NEW j \in Job, retryRow(j) PROVE TablesTypeOK'
  <2>1. order' = Order("retryDlq", {j}, {j}) /\ {j} \in SUBSET Job
    BY <1>16 DEF retryRow
  <2>2. OrderTypeOK'
    BY <1>15, <2>1
  <2>3. QED
    BY ZenonT(60), <1>1, <1>2, <1>3, <1>4, <1>16, <2>2 DEF retryRow
<1>17. CASE retrySelected
  <2>1. order' = Order("retryDlq", sel, sel) /\ sel \in SUBSET Job
    BY ZenonT(60), <1>1, <1>17 DEF retrySelected
  <2>2. OrderTypeOK'
    BY ZenonT(60), <1>15, <2>1
  <2>3. QED
    BY ZenonT(60), <1>1, <1>2, <1>3, <1>4, <1>17, <2>2 DEF retrySelected
<1>18. ASSUME NEW kind \in {"row", "selected", "purge"}, NEW row \in Job \cup {"none"},
              NEW shown \in SUBSET Job, Open(Dialog(kind, row, shown))
       PROVE  TablesTypeOK'
  <2>1. dialog' = Dialog(kind, row, shown)
    BY ZenonT(60), <1>18 DEF Open
  <2>2. DialogTypeOK'
    BY SMTT(30), <2>1, Fields DEF DialogTypeOK
  <2>3. QED
    BY ZenonT(60), <1>1, <1>2, <1>3, <1>18, <2>2, NothingOrdered DEF Open
<1>19. ASSUME NEW j \in Job, openRow(j) PROVE TablesTypeOK'
  <2>1. {j} \in SUBSET Job /\ j \in Job \cup {"none"}
    OBVIOUS
  <2>2. QED
    BY ZenonT(60), <1>18, <1>19, <2>1 DEF openRow
<1>20. CASE openSelected
  <2>1. sel \in SUBSET Job /\ "none" \in Job \cup {"none"}
    BY ZenonT(60), <1>1
  <2>2. QED
    BY ZenonT(60), <1>18, <1>20, <2>1 DEF openSelected
<1>21. CASE openPurge
  <2>1. ToSet(data) \in SUBSET Job /\ "none" \in Job \cup {"none"}
    BY ZenonT(60), <1>1, ListFacts, Members DEF TableTypeOK
  <2>2. QED
    BY ZenonT(60), <1>18, <1>21, <2>1 DEF openPurge
<1>22. ASSUME NEW text \in {"", "purge d", "purge dlq"}, setTyped(text) PROVE TablesTypeOK'
  BY ZenonT(60), <1>1, <1>2, <1>3, <1>22, NothingOrdered DEF setTyped
<1>23. CASE Cancel
  BY ZenonT(60), <1>1, <1>2, <1>3, <1>23, NothingOrdered DEF Cancel
<1>24. CASE onConfirm
  <2>1. OrderTypeOK'
    <3>1. CASE dialog.kind = "row" /\ order' = Order("deleteDlq", {dialog.row}, dialog.shown)
      <4>1. dialog.shown \in SUBSET Job /\ {dialog.row} \in SUBSET Job
        BY ZenonT(60), <1>1, <3>1 DEF DialogTypeOK, DialogInv
      <4>2. QED
        BY ZenonT(60), <1>15, <3>1, <4>1
    <3>2. CASE order' = Order("deleteDlq", sel, dialog.shown)
      <4>1. dialog.shown \in SUBSET Job /\ sel \in SUBSET Job
        BY ZenonT(60), <1>1 DEF DialogTypeOK
      <4>2. QED
        BY ZenonT(60), <1>15, <3>2, <4>1
    <3>3. CASE order' = Order("purgeDlq", {}, dialog.shown)
      <4>1. dialog.shown \in SUBSET Job /\ {} \in SUBSET Job
        BY ZenonT(60), <1>1 DEF DialogTypeOK
      <4>2. QED
        BY ZenonT(60), <1>15, <3>3, <4>1
    <3>4. QED
      BY ZenonT(60), <1>24, <3>1, <3>2, <3>3 DEF onConfirm
  <2>2. QED
    BY ZenonT(60), <1>1, <1>2, <1>3, <1>24, <2>1, NothingOrdered DEF onConfirm
<1>25. CASE UNCHANGED vars
  BY ZenonT(60), <1>1, <1>2, <1>3, <1>4, <1>25 DEF vars, OrderTypeOK, dialogVars
<1> QED
  BY ZenonT(60), <1>5, <1>6, <1>7, <1>10, <1>11, <1>13, <1>14, <1>16, <1>17, <1>19, <1>20, <1>21, <1>22, <1>23,
     <1>24, <1>25 DEF TablesNext

(* TablesTypeOK and DialogInv are inductive together.                      *)
LEMMA TablesInvariant == TablesSpec => [](TablesTypeOK /\ DialogInv)
<1>1. TablesInit => TablesTypeOK /\ DialogInv
  BY TablesTypeInit, InitDialog
<1>2. TablesTypeOK /\ DialogInv /\ [TablesNext]_vars => (TablesTypeOK /\ DialogInv)'
  BY TablesTypeNext, NextDialog
<1>3. QED
  BY <1>1, <1>2, PTL DEF TablesSpec

(* The table stays well typed: whatever rows come and go, setPage is never *)
(* called with a page before the first or beyond the rows there can be,    *)
(* and only jobs are selected, announced and ordered.                      *)
THEOREM TablesTypeCorrect == TablesSpec => []TablesTypeOK
  BY TablesInvariant, PTL

(* While a row passes the search, the page shown is not empty (p and view  *)
(* of DataTable), for any list, search, order and page size.               *)
THEOREM PageNeverEmpty == TablesSpec => []NeverEmptyPage
<1>1. ASSUME TablesTypeOK PROVE NeverEmptyPage
  <2>1. ASSUME rows # <<>> PROVE view # <<>>
    <3>1. Len(rows) \in Nat /\ Len(rows) > 0
      BY SMTT(30), <1>1, <2>1, RowsFacts, EmptyFacts
    <3>2. p \in 0..(pages - 1) /\ size \in Nat
      BY SMTT(30), <1>1, PageShown, PagesFacts
    <3>3. PICK a \in Nat, b \in Nat :
            a = p * size /\ b = AtMost(Len(rows), p * size + size) /\ a < b
      BY SMTT(30), <1>1, <3>1, <3>2, PageEnds
    <3>4. view \in Seq(Job) /\ Len(view) = b - a
      BY ZenonT(60), <1>1, <3>2, <3>3, SliceFacts DEF view
    <3>5. QED
      BY <3>3, <3>4
  <2>2. QED
    BY <2>1 DEF NeverEmptyPage
<1>2. QED
  BY <1>1, TablesInvariant, PTL

(* What the pages up to the i-th hold is the start of the sorted rows.     *)
LEMMA PagesFlatten ==
  ASSUME TablesTypeOK
  PROVE  PagesCoverRows
<1> DEFINE L == Len(rows)
           seqs == [i \in 1..pages |-> Slice(i - 1)]
           Upto(i) == SubSeq(sorted, 1, AtMost(L, i * size))
           Flat(f) == f = [i \in 1..pages |-> IF i = 1 THEN seqs[i] ELSE f[i - 1] \o seqs[i]]
           g == [i \in 1..pages |-> Upto(i)]
<1>1. /\ L \in Nat /\ pages \in Nat \ {0} /\ size \in Nat \ {0} /\ L <= pages * size
      /\ sorted \in Seq(Job) /\ Len(sorted) = L
  <2>1. L \in Nat /\ pages \in Nat \ {0} /\ size \in Nat \ {0} /\ L <= pages * size
    BY RowsFacts, PagesFacts
  <2>2. sorted \in [1..L -> Job]
    BY SortedFacts
  <2> HIDE DEF L
  <2>3. QED
    BY <2>1, <2>2
<1>2. seqs[1] = Upto(1)
  <2>1. 0 * size + 1 = 1 /\ 0 * size + size = 1 * size /\ 1 \in 1..pages /\ 1 - 1 = 0
    BY <1>1
  <2>2. seqs[1] = Slice(0)
    BY <2>1
  <2>3. Slice(0) = SubSeq(sorted, 0 * size + 1, AtMost(L, 0 * size + size))
    BY DEF Slice
  <2>4. QED
    BY ZenonT(60), <2>1, <2>2, <2>3
<1>3. ASSUME NEW i \in 2..pages PROVE Upto(i) = Upto(i - 1) \o seqs[i]
  <2>1. i - 1 \in 0..(pages - 1) /\ i \in 1..pages /\ i \in Nat
    BY <1>1
  <2>2. PICK a \in Nat, b \in Nat :
          /\ a = (i - 1) * size /\ b = AtMost(L, (i - 1) * size + size) /\ a <= b /\ b <= L
    <3>1. PICK n \in 0..(pages - 1) : n = i - 1
      BY <2>1
    <3>2. /\ n * size \in 0..L
          /\ AtMost(L, n * size + size) \in n * size..L
      BY PageEnds
    <3>3. n * size \in Nat /\ AtMost(L, n * size + size) \in Nat
      BY <1>1, <3>2
    <3>4. QED
      BY SMTT(30), <1>1, <3>1, <3>2, <3>3
  <2>3. (i - 1) * size + size = i * size
    BY <1>1, <2>1
  <2>4. Upto(i) = SubSeq(sorted, 1, b) /\ Upto(i - 1) = SubSeq(sorted, 1, a)
    BY SMTT(30), <1>1, <2>2, <2>3 DEF AtMost
  <2>5. seqs[i] = SubSeq(sorted, a + 1, b)
    BY ZenonT(60), <2>1, <2>2 DEF Slice
  <2> DEFINE x == SubSeq(sorted, 1, a)
             y == SubSeq(sorted, a + 1, b)
             z == SubSeq(sorted, 1, b)
  <2>6. /\ x \in Seq(Job) /\ Len(x) = a /\ \A k \in 1..a : x[k] = sorted[k]
        /\ y \in Seq(Job) /\ Len(y) = b - a /\ \A k \in 1..(b - a) : y[k] = sorted[a + k]
        /\ z \in Seq(Job) /\ Len(z) = b /\ \A k \in 1..b : z[k] = sorted[k]
    <3>1. x \in Seq(Job) /\ Len(x) = a /\ \A k \in 1..a : x[k] = sorted[k]
      BY SMTT(30), <1>1, <2>2
    <3>2. y \in Seq(Job) /\ Len(y) = b - a /\ \A k \in 1..(b - a) : y[k] = sorted[a + k]
      BY SMTT(30), <1>1, <2>2
    <3>3. z \in Seq(Job) /\ Len(z) = b /\ \A k \in 1..b : z[k] = sorted[k]
      BY SMTT(30), <1>1, <2>2
    <3>4. QED
      BY ZenonT(60), <3>1, <3>2, <3>3
  <2> HIDE DEF x, y, z
  <2>7. z = x \o y
    <3>1. x \o y \in Seq(Job) /\ Len(x \o y) = b
      <4>1. x \o y \in Seq(Job) /\ Len(x \o y) = Len(x) + Len(y)
        BY ZenonT(60), <2>6, ConcatFacts
      <4>2. a + (b - a) = b
        BY <2>2
      <4>3. QED
        BY ZenonT(60), <2>6, <4>1, <4>2
    <3>2. ASSUME NEW k \in 1..b PROVE (x \o y)[k] = z[k]
      <4>1. (x \o y)[k] = IF k <= a THEN x[k] ELSE y[k - a]
        <5>1. k \in 1..Len(x) + Len(y)
          <6>1. a + (b - a) = b
            BY <2>2
          <6>2. QED
            BY ZenonT(60), <2>6, <3>2, <6>1
        <5>2. QED
          BY ZenonT(60), <2>6, <5>1, ConcatFacts
      <4>2. CASE k <= a
        <5>1. k \in 1..a
          BY <2>2, <4>2
        <5>2. QED
          BY ZenonT(60), <2>6, <3>2, <4>1, <4>2, <5>1
      <4>3. CASE ~(k <= a)
        <5>1. k - a \in 1..(b - a) /\ a + (k - a) = k
          BY <2>2, <4>3
        <5>2. QED
          BY ZenonT(60), <2>6, <4>1, <4>3, <5>1
      <4>4. QED
        BY ZenonT(60), <4>2, <4>3
    <3>3. QED
      BY ZenonT(60), <2>6, <3>1, <3>2, SameSeq
  <2>8. QED
    BY ZenonT(60), <2>4, <2>5, <2>7 DEF x, y, z
<1> HIDE DEF seqs, Upto
<1>4. Flat(g)
  <2>1. ASSUME NEW i \in 1..pages
        PROVE  g[i] = IF i = 1 THEN seqs[i] ELSE g[i - 1] \o seqs[i]
    <3>1. CASE i = 1
      BY <1>2, <3>1
    <3>2. CASE i # 1
      <4>1. i \in 2..pages /\ i - 1 \in 1..pages
        BY <1>1, <3>2
      <4>2. g[i] = Upto(i) /\ g[i - 1] = Upto(i - 1)
        BY <4>1
      <4>3. QED
        BY ZenonT(60), <1>3, <3>2, <4>1, <4>2
    <3>3. QED
      BY ZenonT(60), <3>1, <3>2
  <2>2. g = [i \in 1..pages |-> g[i]]
    OBVIOUS
  <2> HIDE DEF g
  <2>3. QED
    BY ZenonT(60), <2>1, <2>2
<1> DEFINE f == CHOOSE h : Flat(h)
<1>5. Flat(f)
  BY ZenonT(60), <1>4
<1>6. FlattenSeq(seqs) = f[pages]
  BY <1>1 DEF FlattenSeq, seqs
<1> HIDE DEF f
<1>7. f[pages] = Upto(pages)
  <2> DEFINE G == {n \in 0..(pages - 1) : f[n + 1] = Upto(n + 1)}
  <2>1. 0 \in G
    <3>1. 1 \in 1..pages /\ 0 \in 0..(pages - 1) /\ 0 + 1 = 1
      BY <1>1
    <3>2. f[1] = seqs[1]
      BY <1>5, <3>1
    <3>3. QED
      BY ZenonT(60), <1>2, <3>1, <3>2
  <2>2. ASSUME NEW n \in 1..(pages - 1), n - 1 \in G PROVE n \in G
    <3>1. n + 1 \in 2..pages /\ n + 1 \in 1..pages /\ n + 1 # 1 /\ (n + 1) - 1 = (n - 1) + 1
          /\ n \in 0..(pages - 1)
      BY <1>1
    <3>2. f[n + 1] = f[(n + 1) - 1] \o seqs[n + 1]
      BY ZenonT(60), <1>5, <3>1
    <3>3. Upto(n + 1) = Upto((n + 1) - 1) \o seqs[n + 1]
      BY ZenonT(60), <1>3, <3>1
    <3>4. f[(n - 1) + 1] = Upto((n - 1) + 1)
      BY <2>2
    <3>5. f[n + 1] = Upto(n + 1)
      BY ZenonT(60), <3>1, <3>2, <3>3, <3>4
    <3>6. QED
      BY <3>1, <3>5
  <2> HIDE DEF G
  <2>3. pages - 1 \in G
    <3>1. pages - 1 \in Nat /\ pages - 1 \in 0..(pages - 1)
      BY <1>1
    <3>2. \A n \in 1..(pages - 1) : n - 1 \in G => n \in G
      BY <2>2
    <3>3. \A n \in 0..(pages - 1) : n \in G
      BY ZenonT(60), <2>1, <3>1, <3>2, InductionUpTo
    <3>4. QED
      BY <3>1, <3>3
  <2>4. QED
    BY <1>1, <2>3 DEF G
<1>8. Upto(pages) = sorted
  BY SMTT(30), <1>1 DEF Upto, AtMost
<1>9. QED
  BY ZenonT(60), <1>6, <1>7, <1>8 DEF PagesCoverRows, seqs

(* The pages one after the other are the sorted rows: no row is on two     *)
(* pages and none is between two, for any list and any page size.          *)
THEOREM EveryRowOnAPage == TablesSpec => []PagesCoverRows
  BY PagesFlatten, TablesInvariant, PTL

(* Two pages have no row in common.                                        *)
LEMMA PagesDisjoint ==
  ASSUME TablesTypeOK, NEW m \in 0..(pages - 1), NEW n \in 0..(pages - 1), m < n
  PROVE  ToSet(Slice(m)) \cap ToSet(Slice(n)) = {}
<1>1. size \in Nat \ {0} /\ pages \in Nat \ {0} /\ m \in Nat /\ n \in Nat /\ Len(rows) \in Nat
  BY PagesFacts, RowsFacts
<1>2. m * size \in Nat /\ n * size \in Nat /\ m * size + size <= n * size
  <2>1. (m + 1) * size <= n * size
    BY <1>1
  <2>2. QED
    BY <1>1, <2>1
<1>3. ASSUME NEW v \in ToSet(Slice(m)), v \in ToSet(Slice(n)) PROVE FALSE
  <2>1. /\ Slice(m) \in Seq(Job) /\ Slice(n) \in Seq(Job)
        /\ DOMAIN Slice(m) = 1..Len(Slice(m)) /\ DOMAIN Slice(n) = 1..Len(Slice(n))
    BY SliceFacts, SeqFacts
  <2>2. PICK k \in 1..Len(Slice(m)) : v = Slice(m)[k]
    BY <1>3, <2>1 DEF ToSet
  <2>3. PICK l \in 1..Len(Slice(n)) : v = Slice(n)[l]
    BY ZenonT(60), <1>3, <2>1 DEF ToSet
  <2>4. m * size + k \in 1..Len(rows) /\ v = sorted[m * size + k]
    BY ZenonT(60), <2>2, SliceFacts
  <2>5. n * size + l \in 1..Len(rows) /\ v = sorted[n * size + l]
    BY <2>3, SliceFacts
  <2>6. m * size + k = n * size + l
    BY ZenonT(60), <2>4, <2>5, SortedFacts
  <2>7. k \in Nat /\ l \in Nat /\ l >= 1 /\ k <= size
    <3>1. Len(Slice(m)) = AtMost(Len(rows), m * size + size) - m * size
      BY SliceFacts
    <3>2. Len(Slice(m)) <= size /\ Len(Slice(m)) \in Nat
      BY SMTT(30), <1>1, <1>2, <2>1, <3>1, SeqFacts DEF AtMost
    <3>3. Len(Slice(n)) \in Nat
      BY <2>1, SeqFacts
    <3>4. QED
      BY SMTT(30), <1>1, <2>2, <2>3, <3>2, <3>3
  <2>8. QED
    BY SMTT(30), <1>1, <1>2, <2>6, <2>7
<1>4. QED
  BY <1>3

(* The pager always has other rows to show: each press of Previous or Next *)
(* leads to a page with rows, and none of them was on the page before,     *)
(* even if the page chosen last no longer exists.                          *)
THEOREM PagerNotInVain == TablesSpec => PagerMoves
<1> DEFINE Moves == PreviousPage \/ NextPage
                      => view' # <<>> /\ ToSet(view') \cap ToSet(view) = {}
<1>1. ASSUME TablesTypeOK, PreviousPage \/ NextPage
      PROVE  view' # <<>> /\ ToSet(view') \cap ToSet(view) = {}
  <2>1. p \in 0..(pages - 1) /\ pages \in Nat \ {0} /\ size \in Nat \ {0}
    BY ZenonT(60), <1>1, PageShown, PagesFacts
  <2>2. PICK n \in 0..(pages - 1) : n = page' /\ n # p
    BY <1>1, <2>1 DEF PreviousPage, NextPage
  <2>3. rows' = rows /\ size' = size /\ sort' = sort
    BY <1>1 DEF PreviousPage, NextPage, rows
  <2>4. sorted' = sorted /\ pages' = pages
    BY <2>3 DEF sorted, Sorted, InOrder, Precedes, pages
  <2>5. p' = n
    BY SMTT(30), <2>1, <2>2, <2>4 DEF p, AtMost
  <2>6. view' = Slice(n)
    BY ZenonT(60), <2>3, <2>4, <2>5 DEF view, Slice
  <2>7. Slice(n) # <<>>
    <3>1. Len(rows) \in Nat /\ Len(rows) > 0
      <4>1. Len(rows) > Head(PageSizes)
        BY <1>1 DEF PreviousPage, NextPage, Pager
      <4>2. Head(PageSizes) \in Nat \ {0}
        BY Sizes
      <4>3. Len(rows) \in Nat
        BY ZenonT(60), <1>1, RowsFacts
      <4>4. QED
        BY SMTT(30), <4>1, <4>2, <4>3
    <3>2. PICK a \in Nat, b \in Nat :
            a = n * size /\ b = AtMost(Len(rows), n * size + size) /\ a < b
      BY SMTT(30), <1>1, <2>1, <3>1, PageEnds
    <3>3. Slice(n) \in Seq(Job) /\ Len(Slice(n)) = b - a
      BY ZenonT(60), <1>1, <3>2, SliceFacts
    <3>4. QED
      BY <3>2, <3>3
  <2>8. ToSet(Slice(n)) \cap ToSet(Slice(p)) = {}
    <3>1. CASE n < p
      BY ZenonT(60), <1>1, <2>1, <3>1, PagesDisjoint
    <3>2. CASE p < n
      BY ZenonT(60), <1>1, <2>1, <3>2, PagesDisjoint
    <3>3. QED
      BY SMTT(30), <2>1, <2>2, <3>1, <3>2
  <2>9. QED
    BY ZenonT(60), <2>6, <2>7, <2>8 DEF view
<1>2. TablesTypeOK /\ DialogInv /\ [TablesNext]_vars => [Moves]_vars
  BY <1>1
<1>3. QED
  BY <1>2, TablesInvariant, PTL DEF TablesSpec, PagerMoves
=============================================================================
