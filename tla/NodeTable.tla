------------------------------ MODULE NodeTable ------------------------------
(***************************************************************************)
(* The table of nodes on the dashboard                                     *)
(* (frontend/src/components/data-table.tsx): rows, selection, filter,      *)
(* pages, columns and the drawer with the details of a row.                *)
(*                                                                         *)
(* Rows are identified by their place in the server's list, which is       *)
(* sorted by the name of the node, and not by the node.  The state machine *)
(* of the table itself is TanStack's: its rules are taken from how the     *)
(* component uses them.                                                    *)
(*                                                                         *)
(* Abstractions.  A node is the rank of its name.  A filter is the set of  *)
(* nodes whose names match it.  What the cells show is left out.  Headers  *)
(* have no button to sort by: rows are in the order of the data.           *)
(***************************************************************************)
EXTENDS Integers, Sequences, FiniteSets, SequencesExt

CONSTANTS
  MaxNodes,       \* bound: nodes
  Filter,         \* the filters that are typed, as sets of nodes
  Size,           \* the numbers of rows per page that can be chosen
  FirstSize,      \* the one at first
  Column,         \* the columns that can be hidden
  MaxTableClicks  \* bound: clicks and keys in the table

Node == 1 .. MaxNodes

ASSUME TableAssumption ==
  /\ MaxNodes \in Nat \ {0} /\ MaxTableClicks \in Nat
  /\ Filter \subseteq SUBSET Node
  /\ Size \subseteq Nat \ {0} /\ FirstSize \in Size

VARIABLES
  table,       \* the state of the component
  tableClicks  \* number of clicks and keys
tableVars == <<table, tableClicks>>

Row == [id : Node, node : Node]

TableTypeOK ==
  /\ table \in [rows : Seq(Row), chosen : SUBSET Node, filter : SUBSET Node,
                index : 0 .. MaxNodes, size : Size, hidden : SUBSET Column,
                drawer : {0} \cup Node]
  /\ tableClicks \in 0 .. MaxTableClicks

TableBlank == [rows |-> <<>>, chosen |-> {}, filter |-> Node, index |-> 0, size |-> FirstSize,
               hidden |-> {}, drawer |-> 0]
TableInit == table = TableBlank /\ tableClicks = 0

Act == tableClicks < MaxTableClicks /\ tableClicks' = tableClicks + 1

-----------------------------------------------------------------------------
(* What is shown.                                                          *)

(* The place of a node in the list, which is sorted.                       *)
Place(nodes, n) == Cardinality({ m \in nodes : m <= n })
NodeAt(nodes, i) == CHOOSE n \in nodes : Place(nodes, n) = i

(* Mutation of TableData: the rows are numbered from 0.                    *)
TableDataFromZero(nodes) ==
  [i \in 1 .. Cardinality(nodes) |-> [id |-> i - 1, node |-> NodeAt(nodes, i)]]

(* nodesToTableData: the nodes in the order of the list, numbered.         *)
TableData(nodes) == [i \in 1 .. Cardinality(nodes) |-> [id |-> i, node |-> NodeAt(nodes, i)]]

(* The places of the rows that match the filter.                           *)
Filtered(t) == { i \in DOMAIN t.rows : t.rows[i].node \in t.filter }

PageCount(t) == (Cardinality(Filtered(t)) + t.size - 1) \div t.size

(* The rows of the page; without any, a message takes their place.         *)
PageRows(t) ==
  { t.rows[i] : i \in { j \in Filtered(t) :
                          Cardinality({ k \in Filtered(t) : k < j }) \div t.size = t.index } }

Ids(rows) == { r.id : r \in rows }

CanPreviousPage == table.index > 0
CanNextPage     == table.index < PageCount(table) - 1

(* The drawer is part of its row, and goes with it.                        *)
Drawn(t) == [t EXCEPT !.drawer = IF @ \in Ids(PageRows(t)) THEN @ ELSE 0]

(* autoResetPageIndex: new data or a new filter show the first page.       *)
FromFirstPage(t) == [t EXCEPT !.index = 0]

-----------------------------------------------------------------------------
(* setData(initialData): the order the user has given the rows is gone.    *)
TableGets(nodes) == table' = Drawn(FromFirstPage([table EXCEPT !.rows = TableData(nodes)]))

FilterNodes(f) ==
  /\ Act
  /\ f # table.filter
  /\ table' = Drawn(FromFirstPage([table EXCEPT !.filter = f]))

(* The checkbox of a row, and the one of all rows on the page.             *)
ToggleSelected(id) ==
  /\ Act
  /\ id \in Ids(PageRows(table))
  /\ table' = [table EXCEPT !.chosen = IF id \in @ THEN @ \ {id} ELSE @ \cup {id}]

ToggleAllPageRows ==
  LET ids == Ids(PageRows(table))
  IN  /\ Act
      /\ ids # {}
      /\ table' = [table EXCEPT !.chosen = IF ids \subseteq @ THEN @ \ ids ELSE @ \cup ids]

ToggleVisibility(c) ==
  /\ Act
  /\ table' = [table EXCEPT !.hidden = IF c \in @ THEN @ \ {c} ELSE @ \cup {c}]

(* The page is then the one with the row that was at the top.              *)
SetPageSize(s) ==
  /\ Act
  /\ s # table.size
  /\ table' = Drawn([table EXCEPT !.size = s, !.index = (@ * table.size) \div s])

(* The four buttons.                                                       *)
SetPageIndex(i) ==
  /\ Act
  /\ \/ CanPreviousPage /\ i \in {0, table.index - 1}
     \/ CanNextPage /\ i \in {table.index + 1, PageCount(table) - 1}
  /\ table' = Drawn([table EXCEPT !.index = i])

(* arrayMove                                                               *)
Moved(rows, from, to) == InsertAt(RemoveAt(rows, from), to, rows[from])

(* Mutation of HandleDragEnd: the rows are numbered again.                 *)
HandleDragEndNumbering(from, to) ==
  /\ Act
  /\ from # to /\ {from, to} \subseteq DOMAIN table.rows
  /\ {table.rows[from], table.rows[to]} \subseteq PageRows(table)
  /\ table' = Drawn(FromFirstPage([table EXCEPT
                 !.rows = [i \in DOMAIN @ |-> [id |-> i, node |-> Moved(@, from, to)[i].node]]]))

(* A row of the page is dragged over another one.  The data change, and so *)
(* the first page is shown.                                                *)
HandleDragEnd(from, to) ==
  /\ Act
  /\ from # to /\ {from, to} \subseteq DOMAIN table.rows
  /\ {table.rows[from], table.rows[to]} \subseteq PageRows(table)
  /\ table' = Drawn(FromFirstPage([table EXCEPT !.rows = Moved(@, from, to)]))

OpenDrawer(id) ==
  /\ Act
  /\ table.drawer = 0 /\ id \in Ids(PageRows(table))
  /\ table' = [table EXCEPT !.drawer = id]

CloseDrawer == Act /\ table.drawer # 0 /\ table' = [table EXCEPT !.drawer = 0]

(* While the drawer is open it covers the rest.                            *)
TableClick ==
  \/ /\ table.drawer = 0
     /\ \/ \E f \in Filter : FilterNodes(f)
        \/ \E id \in Node : ToggleSelected(id) \/ OpenDrawer(id)
        \/ ToggleAllPageRows
        \/ \E c \in Column : ToggleVisibility(c)
        \/ \E s \in Size : SetPageSize(s)
        \/ \E i \in 0 .. MaxNodes : SetPageIndex(i)
        \/ \E from, to \in Node : HandleDragEnd(from, to)
  \/ CloseDrawer

-----------------------------------------------------------------------------
(* Properties.                                                             *)

NodesIn(t) == { t.rows[i].node : i \in DOMAIN t.rows }
IsChosen(t, n) == \E i \in DOMAIN t.rows : t.rows[i].node = n /\ t.rows[i].id \in t.chosen

(* When rows are dragged or new ones come, the selection stays with each   *)
(* node that has kept its place in the server's list.  It does not stay    *)
(* with the others: a new node whose name sorts first shifts the selection *)
(* to the neighbours.                                                      *)
SelectionStays ==
  [][table'.rows # table.rows =>
       \A n \in NodesIn(table) \cap NodesIn(table') :
         Place(NodesIn(table), n) = Place(NodesIn(table'), n)
           => (IsChosen(table, n) <=> IsChosen(table', n))]_table
=============================================================================
