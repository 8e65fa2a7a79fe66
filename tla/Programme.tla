------------------------------ MODULE Programme ------------------------------
(***************************************************************************)
(* What the call-forward domain computes from the rows of one job: which   *)
(* links are legal, the order a capture puts the rows in, the template it  *)
(* makes of them and whether a template can be applied.                    *)
(* pmk-domain: call_forward/templates.rs and item.rs.                      *)
(*                                                                         *)
(* Rows are a function from item ids, which are ordered, to records with a *)
(* parent and an order among siblings.                                     *)
(***************************************************************************)
EXTENDS Integers, FiniteSets, Sequences, SequencesExt

CONSTANTS
    NoParent,           \* parent_id is NULL
    MaxTemplateItems    \* MAX_TEMPLATE_ITEMS

ASSUME TemplatesAreBounded == MaxTemplateItems \in Nat

ItemType == {"HEADER", "STAGE_CLAIM", "TASK"}

CanParent(kind) == kind = "HEADER"

(* A link is legal under a HEADER of the same job, for anything but a        *)
(* HEADER, and never to the item itself.                                     *)
ValidParent(child, kind, job, parent, parentKind, parentJob) ==
    /\ parent # child
    /\ parentJob = job
    /\ CanParent(parentKind)
    /\ kind # "HEADER"

-----------------------------------------------------------------------------
(* ORDER BY sort_order, id *)
Precedes(rows, i, j) ==
    \/ rows[i].order < rows[j].order
    \/ rows[i].order = rows[j].order /\ i < j

RowOrder(rows, ids) ==
    CHOOSE s \in [1 .. Cardinality(ids) -> ids] :
        \A m, n \in 1 .. Cardinality(ids) : m < n => Precedes(rows, s[m], s[n])

(* A parent outside the rows counts as none. *)
ParentWithin(rows, i) ==
    IF rows[i].parent \in DOMAIN rows THEN rows[i].parent ELSE NoParent

ChildrenOf(rows, parent) ==
    RowOrder(rows, {i \in DOMAIN rows : ParentWithin(rows, i) = parent})

(* The stack's top is its head; an item already emitted is passed over. *)
WalkStep(rows, was) ==
    IF was.stack = <<>> THEN was
    ELSE IF Contains(was.out, Head(was.stack)) THEN [was EXCEPT !.stack = Tail(@)]
    ELSE [stack |-> ChildrenOf(rows, Head(was.stack)) \o Tail(was.stack),
          out   |-> Append(was.out, Head(was.stack))]

(* A row has one parent and is put on the stack once at most, so the stack   *)
(* is empty after as many steps as there are rows.                           *)
Walk(rows) ==
    LET walk[n \in 0 .. Cardinality(DOMAIN rows)] ==
            IF n = 0 THEN [stack |-> ChildrenOf(rows, NoParent), out |-> <<>>]
            ELSE WalkStep(rows, walk[n - 1])
    IN  walk[Cardinality(DOMAIN rows)].out

InTreeOrderFromRoots(rows) == Walk(rows)

(* Depth first from the roots, then whatever a cycle keeps from them. *)
InTreeOrder(rows) == Walk(rows) \o RowOrder(rows, DOMAIN rows \ ToSet(Walk(rows)))

TemplateItem == [local : Nat, parent : Nat, kind : ItemType, order : Nat]

(* Ids become positions from 1; parent 0 is none. *)
Capture(rows) ==
    LET ordered == InTreeOrder(rows)
        Position(i) == SelectInSeq(ordered, LAMBDA x : x = i)
    IN  [k \in 1..Len(ordered) |->
            [local |-> k, parent |-> Position(rows[ordered[k]].parent),
             kind |-> rows[ordered[k]].kind, order |-> k - 1]]

(* Distinct ids, and a parent before whoever names it. *)
ParentsFirst(items) ==
    \A k \in 1..Len(items) :
        LET seen == {items[n].local : n \in 1..(k - 1)}
        IN  /\ items[k].local \notin seen
            /\ items[k].parent # 0 => items[k].parent \in seen

(* validate_items; titles are never blank here. *)
ValidItems(items) == Len(items) <= MaxTemplateItems /\ ParentsFirst(items)

-----------------------------------------------------------------------------
(* No chain of parents runs in a circle: the rows can be ranked. *)
Acyclic(rows) ==
    \E rank \in [DOMAIN rows -> 1..Cardinality(DOMAIN rows)] :
        \A i \in DOMAIN rows :
            ParentWithin(rows, i) # NoParent => rank[rows[i].parent] < rank[i]

(* What a capture promises: no row is lost or doubled, siblings keep their   *)
(* order, and it can be applied unless the rows contain a cycle or are too   *)
(* many.                                                                     *)
CaptureIsFaithful(rows) ==
    LET ordered == InTreeOrder(rows)
    IN  /\ ToSet(ordered) = DOMAIN rows /\ Len(ordered) = Cardinality(DOMAIN rows)
        /\ ValidItems(Capture(rows)) <=> Acyclic(rows) /\ Cardinality(DOMAIN rows) <= MaxTemplateItems
        /\ Acyclic(rows) =>
              \A m, n \in 1..Len(ordered) :
                 /\ ParentWithin(rows, ordered[m]) = ParentWithin(rows, ordered[n])
                 /\ rows[ordered[m]].order < rows[ordered[n]].order
                 => m < n

=============================================================================
