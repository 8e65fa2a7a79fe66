--------------------------- MODULE Notifications ----------------------------
(***************************************************************************)
(* Push subscriptions, preferences and the bell.  A browser has one push   *)
(* endpoint whoever is signed in; its service worker unsubscribes and      *)
(* subscribes on its own time, so the calls of successive users arrive in  *)
(* any order.  Rows belong to a company through their user, and a          *)
(* statement cannot touch a row of another company.                        *)
(***************************************************************************)
EXTENDS Integers, FiniteSets

CONSTANTS
    Recipients,     \* users
    CompanyOf,      \* the company of each
    Endpoints,      \* browsers
    NoUser          \* nobody

ASSUME NoUserIsNone == NoUser \notin Recipients

VARIABLES
    subscribed,     \* push_subscriptions: the user of each endpoint
    wants,          \* user_notification_prefs, the settable categories
    toggle,         \* each user's preference change under way
    unread,         \* users with unread notifications
    lastIn          \* who last subscribed each endpoint and has not left it

notifyVars == <<subscribed, wants, toggle, unread, lastIn>>

Categories == {"action_note", "call_forward"}

NoToggle == [pc |-> "idle", read |-> {}]

NotificationsInit ==
    /\ subscribed = [e \in Endpoints |-> NoUser]
    /\ wants = [u \in Recipients |-> {"action_note"}]
    /\ toggle = [u \in Recipients |-> NoToggle]
    /\ unread = {}
    /\ lastIn = [e \in Endpoints |-> NoUser]

(* The row is out of the caller's sight: the upsert is refused. *)
Invisible(e, u) == subscribed[e] # NoUser /\ CompanyOf[subscribed[e]] # CompanyOf[u]

(* subscribe: an upsert by endpoint re-points the row. *)
SubscribePush(u, e) ==
    /\ IF Invisible(e, u) THEN UNCHANGED <<subscribed, lastIn>>
       ELSE /\ subscribed' = [subscribed EXCEPT ![e] = u]
            /\ lastIn' = [lastIn EXCEPT ![e] = u]
    /\ UNCHANGED <<wants, toggle, unread>>

(* DELETE by endpoint, whoever's it is by now. *)
RemoveByEndpoint(u, e) == subscribed' = [subscribed EXCEPT ![e] = NoUser]

(* DELETE by user and endpoint. *)
RemoveSubscription(u, e) ==
    subscribed' = IF subscribed[e] = u THEN [subscribed EXCEPT ![e] = NoUser] ELSE subscribed

UnsubscribePush(u, e) ==
    /\ RemoveSubscription(u, e)
    /\ lastIn' = IF lastIn[e] = u THEN [lastIn EXCEPT ![e] = NoUser] ELSE lastIn
    /\ UNCHANGED <<wants, toggle, unread>>

(* set_prefs: the current row is read, then written back whole. *)
ReadPrefs(u) ==
    /\ toggle[u].pc = "idle"
    /\ toggle' = [toggle EXCEPT ![u] = [pc |-> "read", read |-> wants[u]]]
    /\ UNCHANGED <<subscribed, wants, unread, lastIn>>

SetPrefs(u) ==
    /\ toggle[u].pc = "read"
    /\ \E kind \in Categories :
          wants' = [wants EXCEPT ![u] = (toggle[u].read \ {kind}) \cup ({kind} \ toggle[u].read)]
    /\ toggle' = [toggle EXCEPT ![u] = NoToggle]
    /\ UNCHANGED <<subscribed, unread, lastIn>>

(* notify: nobody is told of their own action, and the two categories of the *)
(* settings page are held back if switched off.                              *)
Notify(by, kind) ==
    /\ unread' = unread \cup {u \in Recipients \ {by} : /\ CompanyOf[u] = CompanyOf[by]
                                                       /\ kind \in Categories => kind \in wants[u]}
    /\ UNCHANGED <<subscribed, wants, toggle, lastIn>>

(* mark_read of the last one, mark_all_read. *)
MarkRead(u) ==
    /\ unread' = unread \ {u}
    /\ UNCHANGED <<subscribed, wants, toggle, lastIn>>

NotificationsNext ==
    \E u \in Recipients :
       \/ \E e \in Endpoints : SubscribePush(u, e) \/ UnsubscribePush(u, e)
       \/ ReadPrefs(u) \/ SetPrefs(u) \/ MarkRead(u)
       \/ \E kind \in Categories \cup {"eto"} : Notify(u, kind)

NotificationsSpec == NotificationsInit /\ [][NotificationsNext]_notifyVars

-----------------------------------------------------------------------------
NotificationsTypeOK ==
    /\ subscribed \in [Endpoints -> Recipients \cup {NoUser}]
    /\ wants \in [Recipients -> SUBSET Categories]
    /\ toggle \in [Recipients -> [pc : {"idle", "read"}, read : SUBSET Categories]]
    /\ unread \subseteq Recipients
    /\ lastIn \in [Endpoints -> Recipients \cup {NoUser}]

(* A browser gets the notifications of whoever subscribed from it last and   *)
(* has not unsubscribed, of no one else and of no one at all only then: a    *)
(* late unsubscribe of the user before does not switch the next one off.     *)
(* (Across companies a subscription is refused, and the user before keeps    *)
(* the browser.)                                                             *)
EndpointIsLastSubscribers == \A e \in Endpoints : subscribed[e] = lastIn[e]

=============================================================================
