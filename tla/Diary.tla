------------------------------- MODULE Diary --------------------------------
(***************************************************************************)
(* The site diary and the screens that show it.  DiaryService over         *)
(* PgDiaryRepository: a request looks the entry up, writes in a            *)
(* transaction of its own, and for some operations announces the entry     *)
(* when the write has committed.  What a write changes is abstracted to    *)
(* a new version of the entry, except the position of its notes.           *)
(***************************************************************************)
EXTENDS LiveEvents, FiniteSets

CONSTANTS
    Notes,          \* note ids, taken in order
    Earlier,        \* the ones written before the requests begin
    Authors,        \* requests on the diary; each is made at most once
    DiaryOps,       \* the operations requested
    NoNote          \* no note under this id yet, or no longer

ASSUME NotesAreInOrder == Earlier \subseteq Notes /\ Notes \subseteq Nat

ASSUME NoNoteIsNone == NoNote \notin Notes

VARIABLES
    entry,          \* site_diary: the entries there are
    note,           \* diary_notes
    given,          \* notes whose position a client chose
    version,        \* how often each entry's content has changed
    edit,           \* each request: where it stands
    before,         \* <<m, n>>: m was there when n was placed
    sees,           \* <<client, job>>: the client's user may see the job now
    screen,         \* the version of each entry each client's tab shows
    excused         \* <<client, entry>>: a change since then is not announced

diaryVars == <<entry, note, given, version, edit, before, sees, screen, excused, eventVars>>

Note == [entry : Entries, order : Nat, archived : BOOLEAN]

Edit == [pc : {"idle", "found", "commit", "announce", "done"}, op : DiaryOps \cup {NoNote},
         entry : Entries, note : Notes \cup {NoNote}, order : Nat]

Announced == {"add", "update", "status"}

There(n) == note[n] # NoNote

NotesOf(e) == {n \in Notes : There(n) /\ note[n].entry = e}

MaxOf(S) == CHOOSE x \in S : \A y \in S : y <= x

(* COALESCE(MAX(sort_order), -1) + 1 over the notes not archived. *)
NextOrderOfShown(e) ==
    LET shown == {n \in NotesOf(e) : ~note[n].archived}
    IN  IF shown = {} THEN 0 ELSE 1 + MaxOf({note[n].order : n \in shown})

(* COALESCE(MAX(sort_order), -1) + 1 over the entry's committed notes. *)
NextOrder(e) ==
    IF NotesOf(e) = {} THEN 0 ELSE 1 + MaxOf({note[n].order : n \in NotesOf(e)})

(* The sequence never hands out an id twice. *)
Unused(n) == n \notin Earlier /\ \A m \in Notes : m >= n => \A r \in Authors : edit[r].note # m

NextNote == {n \in Notes : Unused(n) /\ \A m \in Notes : Unused(m) => n <= m}

(* The parent row an uncommitted note refers to. *)
EntryHeld(e) == \E r \in Authors : edit[r].pc = "commit" /\ edit[r].entry = e

Finish(r) == edit' = [edit EXCEPT ![r].pc = "done"]

(* Nobody will tell the clients that the entry changed. *)
Unannounced(e) == excused' = excused \cup (Clients \X {e})

Touch(e) == version' = [version EXCEPT ![e] = @ + 1]

-----------------------------------------------------------------------------
DiaryInit ==
    /\ entry = Entries
    /\ note \in [Notes -> {NoNote} \cup [entry : Entries, order : {0}, archived : BOOLEAN]]
    /\ \A n \in Notes : There(n) <=> n \in Earlier
    /\ given = {}
    /\ version = [e \in Entries |-> 0]
    /\ edit \in [Authors -> {[pc |-> "idle", op |-> NoNote, entry |-> e, note |-> NoNote,
                              order |-> 0] : e \in Entries}]
    /\ before = {}
    /\ sees \in SUBSET (Clients \X Jobs)
    /\ screen = [c \in Clients |-> [e \in Entries |-> 0]]
    /\ excused = Clients \X Entries
    /\ EventsInit

(* self.get: the entry in the path is there and its job is visible. *)
Get(r) ==
    /\ edit[r].pc = "idle" /\ edit[r].entry \in entry
    /\ \E op \in DiaryOps : edit' = [edit EXCEPT ![r].pc = "found", ![r].op = op]
    /\ UNCHANGED <<entry, note, given, version, before, sees, screen, excused, eventVars>>

(* add_note: the parent is looked up, the position computed and the row      *)
(* written in one transaction that locks no other note.                      *)
AddNote(r) ==
    LET e == edit[r].entry
    IN  /\ edit[r].pc = "found" /\ edit[r].op = "add"
        /\ IF e \notin entry
           THEN Finish(r) /\ UNCHANGED <<given, before>>
           ELSE \E n \in NextNote, chosen \in BOOLEAN :
                  /\ edit' = [edit EXCEPT ![r].pc = "commit", ![r].note = n,
                                 ![r].order = IF chosen THEN 0 ELSE NextOrder(e)]
                  /\ given' = IF chosen THEN given \cup {n} ELSE given
                  /\ before' = before \cup (NotesOf(e) \X {n})
        /\ UNCHANGED <<entry, note, version, sees, screen, excused, eventVars>>

CommitNote(r) ==
    LET e == edit[r].entry
    IN  /\ edit[r].pc = "commit"
        /\ note' = [note EXCEPT ![edit[r].note] =
                       [entry |-> e, order |-> edit[r].order, archived |-> FALSE]]
        /\ Touch(e)
        /\ edit' = [edit EXCEPT ![r].pc = "announce"]
        /\ UNCHANGED <<entry, given, before, sees, screen, excused, eventVars>>

(* A note is found by its own id: nothing ties it to the entry in the path,  *)
(* which is the one announced.                                               *)
WroteNote(r, n) ==
    /\ Touch(note[n].entry)
    /\ IF edit[r].op \in Announced
       THEN edit' = [edit EXCEPT ![r].pc = "announce"] ELSE Finish(r)
    /\ IF edit[r].op \in Announced /\ note[n].entry = edit[r].entry
       THEN UNCHANGED excused ELSE Unannounced(note[n].entry)

(* update_note may move the note; set_note_action_status moves nothing. *)
UpdateNote(r) ==
    /\ edit[r].pc = "found" /\ edit[r].op \in {"update", "status"}
    /\ \E n \in Notes :
          IF ~There(n)
          THEN Finish(r) /\ UNCHANGED <<note, given, version, excused>>
          ELSE /\ \/ UNCHANGED <<note, given>>
                  \/ /\ edit[r].op = "update"
                     /\ note' = [note EXCEPT ![n].order = 0]
                     /\ given' = given \cup {n}
               /\ WroteNote(r, n)
    /\ UNCHANGED <<entry, before, sees, screen, eventVars>>

(* set_note_archived, both ways, and add_comment. *)
ArchiveNote(r) ==
    /\ edit[r].pc = "found" /\ edit[r].op \in {"archive", "comment"}
    /\ \E n \in Notes :
          IF ~There(n)
          THEN Finish(r) /\ UNCHANGED <<note, version, excused>>
          ELSE /\ note' = IF edit[r].op = "archive"
                          THEN [note EXCEPT ![n].archived = ~@] ELSE note
               /\ WroteNote(r, n)
    /\ UNCHANGED <<entry, given, before, sees, screen, eventVars>>

(* delete_note; the note's comments and media go with it. *)
DeleteNote(r) ==
    /\ edit[r].pc = "found" /\ edit[r].op = "delete"
    /\ \E n \in Notes :
          IF ~There(n)
          THEN Finish(r) /\ UNCHANGED <<note, version, excused>>
          ELSE note' = [note EXCEPT ![n] = NoNote] /\ WroteNote(r, n)
    /\ UNCHANGED <<entry, given, before, sees, screen, eventVars>>

(* update and set_action_status of the entry itself announce nothing. *)
UpdateEntry(r) ==
    /\ edit[r].pc = "found" /\ edit[r].op = "entry"
    /\ IF edit[r].entry \in entry
       THEN Touch(edit[r].entry) /\ Unannounced(edit[r].entry)
       ELSE UNCHANGED <<version, excused>>
    /\ Finish(r)
    /\ UNCHANGED <<entry, note, given, before, sees, screen, eventVars>>

DeleteEntry(r) ==
    LET e == edit[r].entry
    IN  /\ edit[r].pc = "found" /\ edit[r].op = "remove"
        /\ ~EntryHeld(e)
        /\ entry' = entry \ {e}
        /\ note' = [n \in Notes |-> IF n \in NotesOf(e) THEN NoNote ELSE note[n]]
        /\ Touch(e) /\ Unannounced(e)
        /\ Finish(r)
        /\ UNCHANGED <<given, before, sees, screen, eventVars>>

(* Best effort, on a connection of its own: what it costs to fail here is the *)
(* announcement, not the write.                                              *)
Announce(r) ==
    /\ edit[r].pc = "announce"
    /\ Publish(edit[r].entry)
    /\ Finish(r)
    /\ UNCHANGED <<entry, note, given, version, before, sees, screen, excused,
                   listener, forwarded, stream>>

(* The request fails or its process dies, and the transaction with it. *)
FailDiaryEdit(r) ==
    /\ edit[r].pc \in {"found", "commit", "announce"}
    /\ Finish(r)
    /\ IF edit[r].pc = "announce" THEN Unannounced(edit[r].entry) ELSE UNCHANGED excused
    /\ UNCHANGED <<entry, note, given, version, before, sees, screen, eventVars>>

-----------------------------------------------------------------------------
(* A supervisor is assigned to a job or taken off it. *)
Reassign(c) ==
    /\ \E j \in Jobs : sees' = (sees \ {<<c, j>>}) \cup ({<<c, j>>} \ sees)
    /\ UNCHANGED <<entry, note, given, version, edit, before, screen, excused, eventVars>>

Visible(c) == {j \in Jobs : <<c, j>> \in sees}

(* The tab refetches these entries, of the ones its user may see by now.  For *)
(* the others it goes on showing what it has.                                *)
Refetch(c, asked) ==
    LET shown == {e \in asked : JobOf[e] \in Visible(c)}
    IN  /\ screen' = [screen EXCEPT ![c] =
                         [e \in Entries |-> IF e \in shown THEN version[e] ELSE @[e]]]
        /\ excused' = (excused \ ({c} \X shown)) \cup ({c} \X (asked \ shown))

Connect(c) ==
    /\ Resolve(c, Visible(c))
    /\ UNCHANGED <<entry, note, given, version, edit, before, sees, screen, excused>>

(* "The UI refetches on reconnect." *)
Open(c) ==
    /\ Subscribe(c)
    /\ Refetch(c, Entries)
    /\ UNCHANGED <<entry, note, given, version, edit, before, sees>>

Hear(c) ==
    /\ Receive(c)
    /\ IF Includes(c, NextEvent(c)) THEN Refetch(c, {NextEvent(c)})
       ELSE UNCHANGED <<screen, excused>>
    /\ UNCHANGED <<entry, note, given, version, edit, before, sees>>

EntriesIn(events, first, last) == {events[k] : k \in first .. last}

FallBehind(c) ==
    LET events == forwarded[stream[c].at]
    IN  /\ Lag(c)
        /\ excused' = excused \cup
              ({c} \X EntriesIn(events, stream[c].read + 1, Len(events) - Buffer))
        /\ UNCHANGED <<entry, note, given, version, edit, before, sees, screen>>

Interrupt(i) ==
    /\ \E resumed \in 1 .. Len(channel) :
          /\ Interrupted(i, resumed)
          /\ excused' = excused \cup ({c \in Clients : stream[c].at = i}
                                        \X EntriesIn(channel, listener[i] + 1, resumed))
    /\ UNCHANGED <<entry, note, given, version, edit, before, sees, screen>>

Leave(c) ==
    /\ Disconnect(c)
    /\ UNCHANGED <<entry, note, given, version, edit, before, sees, screen, excused>>

RestartInstance(i) ==
    /\ Restart(i)
    /\ UNCHANGED <<entry, note, given, version, edit, before, sees, screen, excused>>

ForwardEvent(i) ==
    /\ Forward(i)
    /\ UNCHANGED <<entry, note, given, version, edit, before, sees, screen, excused>>

DiaryNext ==
    \/ \E r \in Authors :
          \/ Get(r) \/ AddNote(r) \/ CommitNote(r) \/ UpdateNote(r) \/ ArchiveNote(r)
          \/ DeleteNote(r) \/ UpdateEntry(r) \/ DeleteEntry(r) \/ Announce(r) \/ FailDiaryEdit(r)
    \/ \E c \in Clients : \/ Reassign(c) \/ Connect(c) \/ Open(c) \/ Hear(c)
                          \/ FallBehind(c) \/ Leave(c)
    \/ \E i \in Instances : ForwardEvent(i) \/ Interrupt(i) \/ RestartInstance(i)

DiarySpec == DiaryInit /\ [][DiaryNext]_diaryVars

-----------------------------------------------------------------------------
DiaryTypeOK ==
    /\ EventsTypeOK
    /\ entry \subseteq Entries
    /\ note \in [Notes -> Note \cup {NoNote}]
    /\ given \subseteq Notes
    /\ version \in [Entries -> Nat]
    /\ edit \in [Authors -> Edit]
    /\ before \subseteq Notes \X Notes
    /\ sees \subseteq Clients \X Jobs
    /\ screen \in [Clients -> [Entries -> Nat]]
    /\ excused \subseteq Clients \X Entries

(* Notes keep the order they were written in: a note that was there when     *)
(* another was added to the same entry comes before it, whatever was         *)
(* archived, unarchived or deleted since, unless a client chose the position *)
(* of either.  (Two added at once may share a position.)                     *)
NotesInTheOrderWritten ==
    \A pair \in before :
        LET m == pair[1]
            n == pair[2]
        IN  There(m) /\ There(n) /\ {m, n} \cap given = {} => note[m].order < note[n].order

(* Once nothing is under way, a connected tab shows the current state of     *)
(* every entry it is told about, unless a change was of a kind nobody        *)
(* announces, was made through another entry's path, or its event was lost:  *)
(* the write comes before the announcement, and the subscription before the  *)
(* refetch.                                                                  *)
ScreensSettle ==
    \A c \in Clients, e \in Entries :
        /\ CaughtUp(c) /\ JobOf[e] \in stream[c].jobs
        /\ \A r \in Authors : edit[r].pc # "announce"
        => screen[c][e] = version[e] \/ <<c, e>> \in excused

=============================================================================
