----------------------------- MODULE CallForward -----------------------------
(***************************************************************************)
(* The call-forward programmes of a company's jobs, and one template: the  *)
(* requests of CallForwardService over its two repositories.               *)
(*                                                                         *)
(* An item hangs under a HEADER of its job.  The database can only see     *)
(* that the parent exists and is not the item itself; the rest is checked  *)
(* by the service, against a parent read in an earlier transaction, and by *)
(* a reorder not at all.                                                   *)
(***************************************************************************)
EXTENDS Programme

CONSTANTS
    ProgrammeJobs,  \* job ids
    Items,          \* call_forward ids 1..N, given out in order and once
    Planners,       \* requests; each is made at most once
    PlannerKinds,   \* the operations they perform in this instance
    Kinds,          \* the item types that inputs name
    Orders,         \* the sort orders that updates and reorders name
    NewOrders,      \* those that creates name, and perhaps NoOrder
    NoOrder,        \* a create that gives none
    Filed,          \* the most items there are to begin with
    NoItem          \* no row under this id

ASSUME ItemsAreOrdered == /\ IsFiniteSet(Items) /\ Items = 1 .. Cardinality(Items)
                          /\ Filed \in 0 .. Cardinality(Items)
ASSUME InputsAreTyped == /\ ProgrammeJobs # {} /\ Kinds \subseteq ItemType
                         /\ Orders \subseteq Int /\ NewOrders \subseteq Int \cup {NoOrder}
                         /\ NoOrder \notin Int
ASSUME NoParentIsNone == NoParent # NoItem /\ {NoItem, NoParent} \cap Items = {}

VARIABLES
    openJobs,       \* the jobs that exist
    item,           \* call_forward
    born,           \* the last id given out
    template,       \* the template's items, and those of doubtful parents; or NoItem
    plan,           \* each request: where it stands and what it means to write
    unvouched,      \* items whose parent was not checked as it is now
    asked,          \* what each item was last asked to be, field by field
    undone          \* items a partial update wrote back from an outdated copy

callForwardVars == <<openJobs, item, born, template, plan, unvouched, asked, undone>>

Item == [job : ProgrammeJobs, kind : ItemType, parent : Items \cup {NoParent}, order : Int]

ASSUME NoItemIsNoRow == NoItem \notin Item

Held(i) == item[i] # NoItem

ItemsOf(j) == {i \in Items : Held(i) /\ item[i].job = j}

RowsOf(j) == [i \in ItemsOf(j) |-> item[i]]

Fields == {"kind", "parent", "order"}

NoInput == [kind |-> "", parent |-> NoParent, order |-> 0]

(* "lines" are those of a create; "stale": a type it relied on has changed;  *)
(* "outdated": the item it copied was written.                               *)
NotPlanning == [pc |-> "idle", op |-> "none", job |-> NoItem, lines |-> <<>>, next |-> 1,
                id |-> NoItem, names |-> {}, input |-> NoInput, kind |-> "",
                stale |-> FALSE, outdated |-> FALSE, replace |-> FALSE]

Planned == [NotPlanning EXCEPT !.pc = "done"]

AtPlan(r, op, pc) == plan[r].op = op /\ plan[r].pc = pc

PlanTo(r, pc) == plan' = [plan EXCEPT ![r].pc = pc]

EndPlan(r) == plan' = [plan EXCEPT ![r] = Planned]

ItemsUnchanged == UNCHANGED <<openJobs, item, born, template, unvouched, asked, undone>>

OrdersIn(rows, j) == {rows[i].order : i \in {x \in Items : rows[x] # NoItem /\ rows[x].job = j}}

(* COALESCE(MAX(sort_order), -1) + 1: an order may be negative. *)
NextInProgramme(rows, j) == IF OrdersIn(rows, j) = {} THEN 0 ELSE Max(OrdersIn(rows, j)) + 1

(* Rows inserted in order, under the ids that follow. *)
Ids(new) == born + 1 .. born + Len(new)

Inserted(rows, new) == [i \in Items |-> IF i \in Ids(new) THEN new[i - born] ELSE rows[i]]

(* The requests that have relied on item i's type, as its parent or as the   *)
(* kept type of i itself.                                                    *)
ReliesOn(q, i) ==
    \/ /\ q.op = "create" /\ q.pc \in {"check", "write"}
       /\ \E n \in 1..Len(q.lines) : n < q.next /\ q.lines[n].parent = i
    \/ q.op = "update" /\ q.pc = "write" /\ q.input.parent = i
    \/ q.op = "update" /\ q.pc \in {"check", "write"} /\ q.id = i /\ q.input.kind = ""

(* What the commit of r means to the requests under way: these items were    *)
(* written, and these given another type.                                    *)
AfterWrite(r, written, retyped) ==
    [q \in Planners |->
        IF q = r THEN Planned
        ELSE [plan[q] EXCEPT
                !.stale = @ \/ \E i \in retyped : ReliesOn(plan[q], i),
                !.outdated = @ \/ (plan[q].op = "update" /\ plan[q].id \in written)]]

-----------------------------------------------------------------------------
FirstJob == CHOOSE j \in ProgrammeJobs : TRUE

(* What creates can have left on a job. *)
Programmed(n) ==
    LET Row == [job : {FirstJob}, kind : Kinds, parent : 1..n \cup {NoParent}, order : 1..n]
    IN  {f \in [1..n -> Row] :
            \A i \in 1..n :
               /\ f[i].order = i
               /\ f[i].parent # NoParent =>
                     /\ f[i].parent < i
                     /\ ValidParent(i, f[i].kind, FirstJob, f[i].parent, f[f[i].parent].kind, FirstJob)}

CallForwardInit ==
    /\ openJobs = ProgrammeJobs
    /\ \E n \in 0..Filed : \E f \in Programmed(n) :
          /\ item = [i \in Items |-> IF i <= n THEN f[i] ELSE NoItem]
          /\ born = n
          /\ \/ template = NoItem
             \/ /\ n > 0 /\ ValidItems(Capture(f))
                /\ template = [items |-> Capture(f), doubtful |-> {}]
    /\ plan = [r \in Planners |-> NotPlanning]
    /\ unvouched = {}
    /\ asked = item
    /\ undone = {}

(* create and create_bulk of two: the job is looked for, then line by line   *)
(* the parents.  The second line may hang under the first (local 1).         *)
CreateItems(r) ==
    /\ plan[r].pc = "idle" /\ "create" \in PlannerKinds
    /\ \E j \in openJobs, n \in {1, 2} : \E lines \in
          [1..n -> [kind : Kinds, parent : {i \in Items : Held(i)} \cup {NoParent},
                    local : {0, 1}, order : NewOrders]] :
          /\ lines[1].local = 0
          /\ \A k \in 1..n : lines[k].local = 1 => lines[k].parent = NoParent
          /\ plan' = [plan EXCEPT ![r].op = "create", ![r].pc = "check", ![r].job = j,
                                  ![r].lines = lines]
    /\ ItemsUnchanged

(* validate_parent within the request, check_parent outside it. *)
LineIsLegal(r, line) ==
    IF line.local # 0
    THEN ValidParent(NoItem, line.kind, plan[r].job, 0, plan[r].lines[1].kind, plan[r].job)
    ELSE line.parent # NoParent =>
            /\ Held(line.parent)
            /\ ValidParent(NoItem, line.kind, plan[r].job, line.parent,
                           item[line.parent].kind, item[line.parent].job)

CheckLine(r) ==
    /\ AtPlan(r, "create", "check")
    /\ IF ~LineIsLegal(r, plan[r].lines[plan[r].next])
       THEN EndPlan(r)
       ELSE plan' = [plan EXCEPT ![r].next = @ + 1,
                        ![r].pc = IF plan[r].next = Len(plan[r].lines) THEN "write" ELSE "check"]
    /\ ItemsUnchanged

(* insert_in: the row of a line, beside the rows there are by then. *)
RowOf(line, j, rows) ==
    [job |-> j, kind |-> line.kind,
     order |-> IF line.order # NoOrder THEN line.order ELSE NextInProgramme(rows, j),
     parent |-> IF line.local # 0 THEN born + 1 ELSE line.parent]

(* insert_in for each line, in one transaction: a missing job or parent      *)
(* fails the lot.                                                            *)
InsertLines(r) ==
    LET lines == plan[r].lines
        first == RowOf(lines[1], plan[r].job, item)
        second == RowOf(lines[2], plan[r].job, Inserted(item, <<first>>))
        new == IF Len(lines) = 1 THEN <<first>> ELSE <<first, second>>
    IN  /\ AtPlan(r, "create", "write") /\ born + Len(lines) <= Cardinality(Items)
        /\ IF /\ plan[r].job \in openJobs
              /\ \A n \in 1..Len(lines) : lines[n].parent # NoParent => Held(lines[n].parent)
           THEN /\ item' = Inserted(item, new) /\ asked' = Inserted(asked, new)
                /\ born' = born + Len(new)
                /\ unvouched' = IF plan[r].stale THEN unvouched \cup Ids(new) ELSE unvouched
                /\ plan' = AfterWrite(r, {}, {})
                /\ UNCHANGED <<openJobs, template, undone>>
           ELSE EndPlan(r) /\ ItemsUnchanged

-----------------------------------------------------------------------------
(* The patch laid over the copy the route read. *)
PatchedItem(i, names, given) ==
    [kind |-> IF "kind" \in names THEN given.kind ELSE item[i].kind,
     parent |-> IF "parent" \in names THEN given.parent ELSE item[i].parent,
     order |-> IF "order" \in names THEN given.order ELSE item[i].order]

PatchItemRead(r) ==
    /\ plan[r].pc = "idle" /\ "update" \in PlannerKinds
    /\ \E i \in Items, names \in SUBSET Fields,
          given \in [kind : Kinds \cup {""}, parent : Items \cup {NoParent},
                     order : Orders \cup {NoInput.order}] :
          /\ Held(i)
          /\ "order" \in names => given.order \in Orders
          /\ given.parent \in Items => Held(given.parent)
          /\ \A f \in Fields \ names : given[f] = NoInput[f]
          /\ plan' = [plan EXCEPT ![r].op = "update", ![r].pc = "find", ![r].id = i,
                        ![r].names = names, ![r].input = PatchedItem(i, names, given)]
    /\ ItemsUnchanged

(* update reads the item again, for its job and for the type that an empty   *)
(* type keeps.                                                               *)
FindItem(r) ==
    LET i == plan[r].id
    IN  /\ AtPlan(r, "update", "find")
        /\ IF ~Held(i) THEN EndPlan(r)
           ELSE plan' = [plan EXCEPT ![r].job = item[i].job,
                   ![r].pc = IF plan[r].input.parent = NoParent THEN "write" ELSE "check",
                   ![r].kind = IF plan[r].input.kind = "" THEN item[i].kind ELSE plan[r].input.kind]
        /\ ItemsUnchanged

CheckParentOfTasksOnly(r) ==
    LET p == plan[r].input.parent
    IN  /\ AtPlan(r, "update", "check")
        /\ IF Held(p) /\ p # plan[r].id /\ item[p].job = plan[r].job /\ CanParent(item[p].kind)
           THEN PlanTo(r, "write")
           ELSE EndPlan(r)
        /\ ItemsUnchanged

CheckParent(r) ==
    LET p == plan[r].input.parent
    IN  /\ AtPlan(r, "update", "check")
        /\ IF Held(p) /\ ValidParent(plan[r].id, plan[r].kind, plan[r].job, p, item[p].kind, item[p].job)
           THEN PlanTo(r, "write")
           ELSE EndPlan(r)
        /\ ItemsUnchanged

(* Nothing looks at the items under the one written: turned into something   *)
(* else than a HEADER, it keeps them.                                        *)
WriteItem(r) ==
    LET i == plan[r].id
        to == plan[r].input
        row == [item[i] EXCEPT !.kind = IF to.kind = "" THEN @ ELSE to.kind,
                               !.parent = to.parent, !.order = to.order]
        Named(old) == [job |-> old.job, kind |-> IF "kind" \in plan[r].names THEN row.kind ELSE old.kind,
                       parent |-> IF "parent" \in plan[r].names THEN row.parent ELSE old.parent,
                       order |-> IF "order" \in plan[r].names THEN row.order ELSE old.order]
        keeps == IF row.kind = "HEADER" THEN {} ELSE {x \in Items : Held(x) /\ item[x].parent = i}
    IN  /\ AtPlan(r, "update", "write")
        /\ IF Held(i) /\ (to.parent # NoParent => Held(to.parent))
           THEN /\ item' = [item EXCEPT ![i] = row]
                /\ unvouched' = (IF plan[r].stale /\ row.parent # NoParent
                                 THEN unvouched \cup {i} ELSE unvouched \ {i}) \cup keeps
                /\ undone' = IF plan[r].outdated THEN undone \cup {i} ELSE undone
                /\ asked' = [asked EXCEPT ![i] = IF plan[r].outdated THEN row ELSE Named(@)]
                /\ plan' = AfterWrite(r, {i}, IF row.kind # item[i].kind THEN {i} ELSE {})
                /\ UNCHANGED <<openJobs, born, template>>
           ELSE EndPlan(r) /\ ItemsUnchanged

-----------------------------------------------------------------------------
(* ON DELETE CASCADE along parent_id: what every set holds that holds ids    *)
(* and the items under its own.                                              *)
Below(ids) ==
    {i \in Items : \A S \in SUBSET Items :
        ids \subseteq S /\ (\A k \in Items : Held(k) /\ item[k].parent \in S => k \in S) => i \in S}

Without(rows, ids) == [i \in Items |-> IF i \in ids THEN NoItem ELSE rows[i]]

Drop(ids) ==
    /\ item' = Without(item, ids) /\ asked' = Without(asked, ids)
    /\ unvouched' = unvouched \ ids /\ undone' = undone \ ids

DeleteItem(r) ==
    /\ plan[r].pc = "idle" /\ "delete" \in PlannerKinds
    /\ \E i \in Items : Held(i) /\ Drop(Below({i}))
    /\ EndPlan(r)
    /\ UNCHANGED <<openJobs, born, template>>

(* A job purged elsewhere takes its programme with it. *)
CloseJob(r) ==
    /\ plan[r].pc = "idle" /\ "close" \in PlannerKinds
    /\ \E j \in openJobs : openJobs' = openJobs \ {j} /\ Drop(Below(ItemsOf(j)))
    /\ EndPlan(r)
    /\ UNCHANGED <<born, template>>

ReorderedDetaching(i, order, parent) ==
    [item[i] EXCEPT !.order = order, !.parent = IF parent = NoItem THEN NoParent ELSE parent]

(* NoItem for a parent leaves it alone. *)
Reordered(i, order, parent) ==
    [item[i] EXCEPT !.order = order, !.parent = IF parent = NoItem THEN @ ELSE parent]

(* reorder of one item: found, in a read of its own; then the statement.     *)
(* Whether the parent suits is not asked: a foreign key and a check on       *)
(* self-reference remain.                                                    *)
ReorderFind(r) ==
    /\ plan[r].pc = "idle" /\ "reorder" \in PlannerKinds
    /\ \E i \in Items, order \in Orders, parent \in Items \cup {NoParent, NoItem} :
          /\ Held(i)
          /\ parent \in Items => Held(parent)
          /\ plan' = [plan EXCEPT ![r].op = "reorder", ![r].pc = "write", ![r].id = i,
                ![r].input = [NoInput EXCEPT !.parent = parent, !.order = order]]
    /\ ItemsUnchanged

Reorder(r) ==
    LET i == plan[r].id
        order == plan[r].input.order
        parent == plan[r].input.parent
    IN  /\ AtPlan(r, "reorder", "write")
        /\ IF Held(i) /\ (parent \in Items => parent # i /\ Held(parent))
           THEN /\ item' = [item EXCEPT ![i] = Reordered(i, order, parent)]
                /\ asked' = [asked EXCEPT ![i].order = order,
                                          ![i].parent = IF parent = NoItem THEN @ ELSE parent]
                /\ unvouched' = IF parent \in Items THEN unvouched \cup {i}
                                ELSE IF parent = NoParent THEN unvouched \ {i} ELSE unvouched
                /\ plan' = AfterWrite(r, {i}, {})
                /\ UNCHANGED <<openJobs, born, template, undone>>
           ELSE EndPlan(r) /\ ItemsUnchanged

-----------------------------------------------------------------------------
(* create_template: the rows in one read; refused if they could not be       *)
(* applied.                                                                  *)
CreateTemplate(r) ==
    /\ plan[r].pc = "idle" /\ "capture" \in PlannerKinds
    /\ \E j \in openJobs :
          LET ordered == InTreeOrder(RowsOf(j))
              items == Capture(RowsOf(j))
          IN  template' = IF ~ValidItems(items) THEN template
                          ELSE [items |-> items,
                                doubtful |-> {k \in 1..Len(ordered) : ordered[k] \in unvouched}]
    /\ EndPlan(r)
    /\ UNCHANGED <<openJobs, item, born, unvouched, asked, undone>>

DeleteTemplate(r) ==
    /\ plan[r].pc = "idle" /\ "forget" \in PlannerKinds
    /\ template # NoItem /\ template' = NoItem
    /\ EndPlan(r)
    /\ UNCHANGED <<openJobs, item, born, unvouched, asked, undone>>

(* apply_template finds the job and the template, and validates it. *)
ApplyFind(r) ==
    /\ plan[r].pc = "idle" /\ "apply" \in PlannerKinds
    /\ template # NoItem /\ ValidItems(template.items)
    /\ \E j \in openJobs, replace \in BOOLEAN :
          plan' = [plan EXCEPT ![r].op = "apply", ![r].pc = "write", ![r].job = j,
                               ![r].replace = replace]
    /\ ItemsUnchanged

(* apply, one transaction: the template is read once more, the programme     *)
(* deleted if it is to be replaced by anything, the last order read and the  *)
(* items added.                                                              *)
Apply(r) ==
    LET j == plan[r].job
        items == template.items
        gone == IF plan[r].replace /\ items # <<>> THEN Below(ItemsOf(j)) ELSE {}
        base == NextInProgramme(Without(item, gone), j)
        new == [k \in 1..Len(items) |->
                   [job |-> j, kind |-> items[k].kind, order |-> base + items[k].order,
                    parent |-> IF items[k].parent = 0 THEN NoParent ELSE born + items[k].parent]]
    IN  /\ AtPlan(r, "apply", "write")
        /\ IF template = NoItem \/ j \notin openJobs THEN EndPlan(r) /\ ItemsUnchanged
           ELSE /\ born + Len(items) <= Cardinality(Items)
                /\ item' = Inserted(Without(item, gone), new)
                /\ asked' = Inserted(Without(asked, gone), new)
                /\ born' = born + Len(items)
                /\ unvouched' = (unvouched \ gone) \cup {born + k : k \in template.doubtful}
                /\ undone' = undone \ gone
                /\ plan' = AfterWrite(r, {}, {})
                /\ UNCHANGED <<openJobs, template>>

FailPlan(r) ==
    /\ plan[r].pc \notin {"idle", "done"}
    /\ EndPlan(r) /\ ItemsUnchanged

CallForwardNext ==
    \E r \in Planners :
        \/ CreateItems(r) \/ CheckLine(r) \/ InsertLines(r)
        \/ PatchItemRead(r) \/ FindItem(r) \/ CheckParent(r) \/ WriteItem(r)
        \/ DeleteItem(r) \/ CloseJob(r) \/ ReorderFind(r) \/ Reorder(r)
        \/ CreateTemplate(r) \/ DeleteTemplate(r) \/ ApplyFind(r) \/ Apply(r)
        \/ FailPlan(r)

CallForwardSpec == CallForwardInit /\ [][CallForwardNext]_callForwardVars

-----------------------------------------------------------------------------
CallForwardTypeOK ==
    /\ openJobs \subseteq ProgrammeJobs
    /\ item \in [Items -> Item \cup {NoItem}]
    /\ born \in 0 .. Cardinality(Items)
    /\ \A i \in Items : Held(i) => i <= born /\ item[i].job \in openJobs
    /\ template # NoItem => template.items \in Seq(TemplateItem)
    /\ \A r \in Planners : plan[r].pc \in {"idle", "check", "write", "find", "done"}
    /\ unvouched \cup undone \subseteq {i \in Items : Held(i)}

(* Items hang under HEADERs of their job, and no HEADER hangs under another  *)
(* item, unless a reorder named the parent, the parent was given another     *)
(* type afterwards or by a request that overtook the check, or the item is a *)
(* copy of such a one.                                                       *)
LinksVouchedFor ==
    \A i \in Items :
        Held(i) /\ item[i].parent # NoParent /\ i \notin unvouched =>
            /\ Held(item[i].parent)
            /\ ValidParent(i, item[i].kind, item[i].job, item[i].parent,
                           item[item[i].parent].kind, item[item[i].parent].job)

(* Whatever the rows of a job have become, in_tree_order loses none, keeps   *)
(* siblings in order, and yields a template that can be applied unless there *)
(* is a cycle in them or they are too many.                                  *)
CapturesAreFaithful == \A j \in ProgrammeJobs : CaptureIsFaithful(RowsOf(j))

(* An item is what it was last asked to be, field by field, unless a partial *)
(* update wrote back a copy that another write had made outdated.            *)
ItemsUndoneByRacersOnly ==
    \A i \in Items : Held(i) /\ i \notin undone => item[i] = asked[i]

=============================================================================
