----------------------------- MODULE LiveEvents -----------------------------
(***************************************************************************)
(* The live event stream: PgEventBus over LISTEN/NOTIFY and the SSE        *)
(* handler.  A notification goes to the listener of every API instance,    *)
(* which forwards it into a bounded broadcast channel; each connected      *)
(* client reads that channel at its own pace, through what it was entitled *)
(* to see when it connected.                                               *)
(***************************************************************************)
EXTENDS Integers, Sequences

CONSTANTS
    Instances,      \* API processes
    Clients,        \* browser tabs, one user each
    Jobs,           \* jobs events are about
    Entries,        \* diary entries, what an event tells a client to refetch
    JobOf,          \* the job of each entry
    Buffer,         \* BUFFER, events a slow client may fall behind
    NoInstance      \* a client that is not connected

ASSUME BufferIsPositive == Buffer \in Nat \ {0}
ASSUME EntriesHaveJobs == JobOf \in [Entries -> Jobs]

VARIABLES
    channel,        \* pmk_events: the entries notified, in commit order
    listener,       \* each instance: how many of those its listener is past
    forwarded,      \* each instance: what its listener has sent to the clients
    stream          \* each client's connection

eventVars == <<channel, listener, forwarded, stream>>

(* A connection: where it is read up to, and the jobs it may hear of. *)
Stream == [pc : {"off", "resolved", "open"}, at : Instances \cup {NoInstance},
           read : Nat, jobs : SUBSET Jobs]

Off == [pc |-> "off", at |-> NoInstance, read |-> 0, jobs |-> {}]

EventsInit ==
    /\ channel = <<>>
    /\ listener = [i \in Instances |-> 0]
    /\ forwarded = [i \in Instances |-> <<>>]
    /\ stream = [c \in Clients |-> Off]

-----------------------------------------------------------------------------
(* pg_notify on the pool, in a transaction of its own.  The diary's payload  *)
(* is two numbers, far below MAX_EVENT_BYTES.                                *)
Publish(e) == channel' = Append(channel, e)

(* Permissions and visible jobs are resolved, then the stream subscribes. *)
Resolve(c, jobs) ==
    /\ stream[c].pc = "off"
    /\ \E i \in Instances :
          stream' = [stream EXCEPT ![c] = [Off EXCEPT !.pc = "resolved", !.at = i,
                                                      !.jobs = jobs]]
    /\ UNCHANGED <<channel, listener, forwarded>>

Subscribe(c) ==
    /\ stream[c].pc = "resolved"
    /\ stream' = [stream EXCEPT ![c].pc = "open", ![c].read = Len(forwarded[stream[c].at])]
    /\ UNCHANGED <<channel, listener, forwarded>>

(* The listener's loop. *)
Forward(i) ==
    /\ listener[i] < Len(channel)
    /\ listener' = [listener EXCEPT ![i] = @ + 1]
    /\ forwarded' = [forwarded EXCEPT ![i] = Append(@, channel[listener[i] + 1])]
    /\ UNCHANGED <<channel, stream>>

(* The listener's connection drops and sqlx makes another: what was notified *)
(* meanwhile went to nobody.                                                 *)
Interrupted(i, resumed) ==
    /\ resumed \in (listener[i] + 1) .. Len(channel)
    /\ listener' = [listener EXCEPT ![i] = resumed]
    /\ UNCHANGED <<channel, forwarded, stream>>

Unread(c) == Len(forwarded[stream[c].at]) - stream[c].read

(* One event more than the buffer has lost. *)
LagTooFar(c) ==
    /\ stream[c].pc = "open" /\ Unread(c) > Buffer
    /\ stream' = [stream EXCEPT ![c].read = 1 + Len(forwarded[stream[c].at]) - Buffer]
    /\ UNCHANGED <<channel, listener, forwarded>>

(* A client more than the buffer behind loses the oldest events. *)
Lag(c) ==
    /\ stream[c].pc = "open" /\ Unread(c) > Buffer
    /\ stream' = [stream EXCEPT ![c].read = Len(forwarded[stream[c].at]) - Buffer]
    /\ UNCHANGED <<channel, listener, forwarded>>

Ready(c) == stream[c].pc = "open" /\ Unread(c) \in 1 .. Buffer

NextEvent(c) == forwarded[stream[c].at][stream[c].read + 1]

(* filter_map: an event for a job the client did not see when it connected   *)
(* is passed over.                                                           *)
Includes(c, e) == JobOf[e] \in stream[c].jobs

Receive(c) ==
    /\ Ready(c)
    /\ stream' = [stream EXCEPT ![c].read = @ + 1]
    /\ UNCHANGED <<channel, listener, forwarded>>

(* The tab goes away, or a proxy closes the connection. *)
Disconnect(c) ==
    /\ stream[c].pc # "off"
    /\ stream' = [stream EXCEPT ![c] = Off]
    /\ UNCHANGED <<channel, listener, forwarded>>

(* An instance restarts: its clients are cut off, its listener starts at what *)
(* is notified next.                                                         *)
Restart(i) ==
    /\ forwarded[i] # <<>> \/ listener[i] # Len(channel)
    /\ listener' = [listener EXCEPT ![i] = Len(channel)]
    /\ forwarded' = [forwarded EXCEPT ![i] = <<>>]
    /\ stream' = [c \in Clients |-> IF stream[c].at = i THEN Off ELSE stream[c]]
    /\ UNCHANGED channel

(* Everything notified so far has reached the client's stream, or never will. *)
CaughtUp(c) == /\ stream[c].pc = "open"
               /\ listener[stream[c].at] = Len(channel)
               /\ Unread(c) = 0

EventsTypeOK ==
    /\ channel \in Seq(Entries)
    /\ listener \in [Instances -> 0 .. Len(channel)]
    /\ forwarded \in [Instances -> Seq(Entries)]
    /\ \A i \in Instances : Len(forwarded[i]) <= listener[i]
    /\ stream \in [Clients -> Stream]

=============================================================================
