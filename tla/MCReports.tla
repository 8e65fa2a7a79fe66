------------------------------ MODULE MCReports ------------------------------
EXTENDS Reports, TLC

CONSTANTS j1, j2, p1, p2, l1, l2, l3

(* A month of one day, then one that outlasts every grade and bucket. *)
MCMonths == {[first |-> 1, last |-> 1], [first |-> 2, last |-> 30]}

(* Two lines on one job, one on the other. *)
MCProjectOf == [l \in {l1, l2, l3} |-> IF l = l2 THEN j2 ELSE j1]

Untouched == [type |-> "TASK", status |-> "not_started", est_start |-> NoDate,
              est_finish |-> NoDate, actual_start |-> NoDate, actual_finish |-> NoDate]

(* One line that will be late and one claim, with every line beside them. *)
DueEarly == [Untouched EXCEPT !.est_finish = 1]
Claim    == [Untouched EXCEPT !.type = "STAGE_CLAIM", !.est_start = 1, !.est_finish = 3,
                              !.actual_start = 3]

Lead == [status |-> "active", start |-> 1, finish |-> 3, supervisor |-> p1, assigned |-> {p1}]

Quiet == [safety |-> FALSE, issues |-> ""]

Dry == [project |-> j1, date |-> 1, author |-> p1, notes |-> Quiet, columns |-> Quiet,
        condition |-> "fine", rain |-> 0]

Plan == [project |-> (j1 :> Lead @@ j2 :> [Lead EXCEPT !.finish = NoDate, !.supervisor = p2]),
         entries |-> <<Dry>>, active |-> {p1, p2},
         line |-> (l1 :> DueEarly @@ l2 :> Claim @@ l3 :> Untouched)]

(* Every job next to an ordinary one. *)
JobBooks ==
    {[Plan EXCEPT !.project[j1] = p, !.active = {p2} \cup p.assigned] :
        p \in {x \in [status : {"active", "completed", "archived"}, start : Dates, finish : {3, NoDate},
                      supervisor : {p1, Blank}, assigned : {{}, {p1, p2}}] :
                  Ordered(x.start, x.finish)}}

(* Every line next to an ordinary one, started, held, late or finished. *)
LineBooks ==
    {[Plan EXCEPT !.line[l3] = i, !.entries = <<Dry, Dry>>] :
        i \in {x \in [type : {"HEADER", "TASK"}, status : CfStatus, est_start : {1, NoDate},
                      est_finish : Dates, actual_start : {NoDate}, actual_finish : {3, NoDate}] :
                  Validate(x)}}

(* Every diary entry, after a dry one of the same day. *)
DiaryBooks ==
    {[Plan EXCEPT !.entries = <<Dry, [Dry EXCEPT !.author = p2, !.notes = n, !.columns = c,
                                                 !.condition = w, !.rain = r]>>] :
        n \in Text, c \in {Quiet, [Quiet EXCEPT !.issues = "weather"]},
        w \in {"", "rain", "storm"}, r \in {0, 10, 11}}

Rest == [Plan EXCEPT !.line = [l \in {l1, l2, l3} |-> Untouched], !.entries = <<>>]

MCBooks == JobBooks \cup LineBooks \cup DiaryBooks \cup {Rest}

=============================================================================
