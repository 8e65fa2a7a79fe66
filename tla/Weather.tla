------------------------------ MODULE Weather -------------------------------
(***************************************************************************)
(* The limit on weather lookups.  WeatherService::check_rate counts each   *)
(* user's calls in a window that starts with the first of them, in a map   *)
(* that holds so many users and no more.  Time is in ticks.                *)
(***************************************************************************)
EXTENDS Integers, FiniteSets

CONSTANTS
    Callers,        \* users asking for the weather
    RateLimit,      \* RATE_LIMIT, calls a window
    RateWindow,     \* RATE_WINDOW, in ticks
    RateMapMax,     \* RATE_MAP_MAX, users tracked
    NoWindow        \* a user who is not tracked

ASSUME LimitsArePositive == /\ RateLimit \in Nat \ {0} /\ RateWindow \in Nat \ {0}
                            /\ RateMapMax \in Nat \ {0}

VARIABLES
    window,         \* limits: each user's count and how long ago it started
    recent          \* calls admitted in each of the last RateWindow ticks, since
                    \* the user's window was last dropped before its time

weatherVars == <<window, recent>>

Window == [count : 0 .. RateLimit, age : 0 .. RateWindow]

ASSUME NoWindowIsNone == NoWindow \notin Window

NewWindow == [count |-> 0, age |-> 0]

Tracked(limits) == {u \in Callers : limits[u] # NoWindow}

NoCalls == [t \in 0 .. RateWindow - 1 |-> 0]

ForgetCalls(users) == [u \in Callers |-> IF u \in users THEN NoCalls ELSE recent[u]]

Untrack(limits, users) == [u \in Callers |-> IF u \in users THEN NoWindow ELSE limits[u]]

Expired(limits) == {u \in Tracked(limits) : limits[u].age >= RateWindow}

Stalest(limits) == {u \in Tracked(limits) :
                       \A v \in Tracked(limits) : limits[v].age <= limits[u].age}

(* Room is made before the user is looked up, whether tracked already or not: *)
(* windows that are over go first, then the stalest.                          *)
Evicted(u) ==
    IF Cardinality(Tracked(window)) < RateMapMax THEN {{}}
    ELSE LET over == Expired(window)
         IN  IF Cardinality(Tracked(window) \ over) < RateMapMax THEN {over}
             ELSE {over \cup {v} : v \in Stalest(window)}

(* A window that never starts again while the user keeps calling. *)
AdmittedOneMore(w) == w.count <= RateLimit

Admitted(w) == w.count < RateLimit

(* current: counted before anything else is looked at. *)
CheckRate(u) ==
    \E evicted \in Evicted(u) :
       LET left == Untrack(window, evicted)
           mine == IF left[u] = NoWindow \/ left[u].age >= RateWindow THEN NewWindow ELSE left[u]
           call == IF Admitted(mine) THEN 1 ELSE 0
       IN  /\ window' = [left EXCEPT ![u] = [mine EXCEPT !.count = @ + call]]
           /\ recent' = [ForgetCalls(evicted \ Expired(window)) EXCEPT ![u][0] = @ + call]

Tick ==
    /\ window' = [u \in Callers |->
                     IF window[u] # NoWindow /\ window[u].age < RateWindow
                     THEN [window[u] EXCEPT !.age = @ + 1] ELSE window[u]]
    /\ recent' = [u \in Callers |->
                     [t \in 0 .. RateWindow - 1 |-> IF t = 0 THEN 0 ELSE recent[u][t - 1]]]

(* The process restarts with an empty map. *)
RestartService ==
    /\ window' = [u \in Callers |-> NoWindow]
    /\ recent' = ForgetCalls(Callers)

WeatherInit ==
    /\ window = [u \in Callers |-> NoWindow]
    /\ recent = [u \in Callers |-> NoCalls]

WeatherNext == (\E u \in Callers : CheckRate(u)) \/ Tick \/ RestartService

WeatherSpec == WeatherInit /\ [][WeatherNext]_weatherVars

-----------------------------------------------------------------------------
WeatherTypeOK ==
    /\ window \in [Callers -> Window \cup {NoWindow}]
    /\ recent \in [Callers -> [0 .. RateWindow - 1 -> Nat]]

(* The calls of r's last ticks, summed up to each of them. *)
CallsUpTo(r) ==
    LET sum[t \in 0 .. RateWindow - 1] == IF t = 0 THEN r[0] ELSE sum[t - 1] + r[t]
    IN  sum

CallsAdmitted(u) == CallsUpTo(recent[u])[RateWindow - 1]

(* However a user times the calls, fewer than twice the limit are admitted   *)
(* in any stretch as long as a window: the worst is the end of one window    *)
(* and the start of the next, and the first window began with a call that is *)
(* too old to count.  A user dropped from the map early starts afresh.       *)
QuotaIsBounded ==
    \A u \in Callers : CallsAdmitted(u) < 2 * RateLimit

=============================================================================
