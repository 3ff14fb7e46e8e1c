----------------------------- MODULE RpmCallbacks -----------------------------
(******************************************************************************)
(* The callbacks of a transaction of rpm (dnf/yum/rpmtrans.py): which item of *)
(* the transaction each of them is reported for, and how far the transaction  *)
(* is said to be.  rpm is modelled by the order in which it calls.            *)
(******************************************************************************)
EXTENDS Naturals, Sequences, SequencesExt, FiniteSets

CONSTANTS
  Nevra,        \* packages
  Transactions  \* bound: sets of items to look at

NoItem == [nevra |-> "none", action |-> "none"]
Forward == {"INSTALL", "UPGRADE", "DOWNGRADE", "OBSOLETE", "REINSTALL"}
Backward == {"UPGRADED", "DOWNGRADED", "OBSOLETED", "REINSTALLED", "REMOVE"}
Item == [nevra : Nevra, action : Forward \cup Backward \cup {"REASON_CHANGE"}]

VARIABLES
  world,        \* the transaction: items, the order of its elements, is it a test
  te_list,      \* elements, known from the start of the transaction on
  te_index,     \* element being processed
  complete,     \* complete_actions
  total,        \* total_actions
  cache,        \* _tsi_cache
  open,         \* is a package file open
  pc,           \* where rpm is: "before", "elements", "element", "after"
  report        \* the last report, and the item it should be for

vars == <<world, te_list, te_index, complete, total, cache, open, pc, report>>

Silence == [what |-> "none", item |-> NoItem, due |-> NoItem]

\* RPMTransaction of the items in the set of rpm, Transaction._populate_rpm_ts: an item
\* that installs is the key of its element; elements that erase have none.
Element(item) == [nevra |-> item.nevra, key |-> IF item.action \in Forward THEN item ELSE NoItem]
Elements(items) == {Element(i) : i \in {j \in items : j.action # "REASON_CHANGE"}}

\* rpm decides on the order of the elements.
Orders(elements) == {s \in [1..Cardinality(elements) -> elements] : ToSet(s) = elements}

Init ==
  /\ \E items \in Transactions, test \in BOOLEAN : \E order \in Orders(Elements(items)) :
       world = [items |-> items, order |-> order, test |-> test]
  /\ te_list = <<>> /\ te_index = 0 /\ complete = 0 /\ total = 0
  /\ cache = NoItem /\ open = FALSE
  /\ pc = "before" /\ report = Silence

\* Defect: REINSTALL, which has the same package, is found for what is erased.
EveryAction == Forward \cup Backward

RpmActions == (Forward \ {"REINSTALL"}) \cup Backward

Cached(te) == cache # NoItem /\ cache.nevra = te.nevra

Matches(te) == {i \in world.items : i.action \in RpmActions /\ i.nevra = te.nevra}

\* RPMTransaction._extract_cbkey; an exception of a callback is logged.
Extract(key, te) ==
  IF key # NoItem THEN key
  ELSE IF Cached(te) THEN cache ELSE CHOOSE i \in Matches(te) : TRUE

CacheOf(key, te) == IF key # NoItem \/ Cached(te) THEN cache ELSE Extract(key, te)

\* The item of an element.
Due(te) ==
  IF te.key # NoItem THEN te.key
  ELSE CHOOSE i \in world.items : i.nevra = te.nevra /\ i.action \in Backward

Current == world.order[te_index]
Same(what, item) == [what |-> what, item |-> item, due |-> item]

\* A report of the element being processed.
ReportElement(what, key) ==
  /\ report' = [what |-> what, item |-> Extract(key, Current), due |-> Due(Current)]
  /\ cache' = CacheOf(key, Current)

------------------------------------------------------------------------------
\* _script_start and _scriptError before the start: of %pretrans, of a trigger.
ScriptBefore ==
  /\ pc = "before"
  /\ \/ \E te \in ToSet(world.order) : te.key # NoItem /\ report' = Same("script", te.key)
     \/ report' = Same("script", NoItem)
  /\ UNCHANGED <<world, te_list, te_index, complete, total, cache, open, pc>>

\* _transStart; the test of a transaction does not look at its elements.
TransStart ==
  /\ pc = "before"
  /\ total' = Len(world.order)
  /\ te_list' = IF world.test THEN <<>> ELSE world.order
  /\ pc' = "elements"
  /\ UNCHANGED <<world, te_index, complete, cache, open, report>>

\* _elemProgress: rpm comes to the next element.
ElemProgress ==
  /\ pc = "elements" /\ te_index < Len(world.order)
  /\ te_index' = te_index + 1 /\ complete' = complete + 1
  /\ LET te == world.order[te_index + 1] IN
     IF world.test THEN UNCHANGED <<report, cache>>
     ELSE /\ report' = [what |-> "file", item |-> Extract(te.key, te), due |-> Due(te)]
          /\ cache' = CacheOf(te.key, te)
  /\ pc' = "element"
  /\ UNCHANGED <<world, te_list, total, open>>

\* _instOpenFile, which may not find the file.
InstOpenFile ==
  /\ pc = "element" /\ Current.key # NoItem /\ ~open
  /\ \/ open' = TRUE /\ UNCHANGED <<report, cache>>
     \/ open' = FALSE /\ ReportElement("error", Current.key)
  /\ UNCHANGED <<world, te_list, te_index, complete, total, pc>>

\* _instProgress, _uninst_progress, _cpioError and _unpackError
Progress ==
  /\ pc = "element" /\ ~world.test
  /\ Current.key # NoItem => open
  /\ \/ ReportElement("progress", Current.key)
     \/ Current.key # NoItem /\ ReportElement("error", Current.key)
  /\ UNCHANGED <<world, te_list, te_index, complete, total, open, pc>>

\* _script_start and _scriptError while an element is processed: rpm has no key for
\* what is erased.
ElementScript ==
  /\ pc = "element" /\ ~world.test
  /\ ReportElement("script", Current.key) \/ ReportElement("error", Current.key)
  /\ UNCHANGED <<world, te_list, te_index, complete, total, open, pc>>

AllComplete == complete = total

\* _inst_stop, _unInstStop and _instCloseFile; after the last package to install the
\* phase after the transaction is announced, which rpm does not do.
ElementStop ==
  /\ pc = "element"
  /\ report' = IF ~world.test /\ Current.key # NoItem /\ AllComplete
               THEN Same("post", NoItem) ELSE report
  /\ open' = FALSE /\ pc' = IF te_index = Len(world.order) THEN "after" ELSE "elements"
  /\ UNCHANGED <<world, te_list, te_index, complete, total, cache>>

\* Scripts that run after the transaction: those of a package have its key.
ScriptAfter ==
  /\ pc = "after" /\ ~world.test
  /\ \E te \in ToSet(world.order) : te.key # NoItem /\ report' = Same("script", te.key)
  /\ UNCHANGED <<world, te_list, te_index, complete, total, cache, open, pc>>

Next ==
  \/ ScriptBefore \/ TransStart \/ ElemProgress \/ InstOpenFile \/ Progress \/ ElementScript
  \/ ElementStop \/ ScriptAfter

Spec == Init /\ [][Next]_vars

------------------------------------------------------------------------------
\* Every variable has the type the code gives it.
TypeOK ==
  /\ te_list \in {<<>>, world.order} /\ te_index \in 0..Len(world.order)
  /\ complete \in Nat /\ total \in {0, Len(world.order)} /\ open \in BOOLEAN
  /\ cache \in Item \cup {NoItem}
  /\ report.item \in Item \cup {NoItem}

\* What is shown and logged is shown for the item it happens to, though rpm has no
\* key for what it erases and a reinstalled package is two elements of one name
\* (rpmtrans.py:259); the progress never goes beyond the whole, and nothing is said
\* to be after the transaction before every element is processed.
ReportsAreTrue ==
  /\ report.item = report.due
  /\ total # 0 => complete <= total
  /\ report.what = "post" => te_index = Len(world.order)
==============================================================================
