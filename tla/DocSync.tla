------------------------------ MODULE DocSync ------------------------------
(***************************************************************************)
(* A document that is written on one machine and shown on another: fsync   *)
(* creates a meeting that names the document's file, watches the document  *)
(* and updates the meeting; the page subscribes to the meeting and fetches *)
(* each file that it names.                                                *)
(*                                                                         *)
(* The versions of the document are 1, 2, ...; a file is its version.  The *)
(* box sends a subscriber the meeting as it is, then each update of it, in *)
(* order, as long as the collection of the meetings is one database there  *)
(* (module BoxGraph).  A second 'connected' event makes a meeting and a    *)
(* watcher of its own, which shares only the collection with the first.    *)
(***************************************************************************)
EXTENDS Naturals, Sequences

CONSTANTS
  MaxVersions, \* bound: versions of the document
  MaxEffects   \* bound: subscriptions of the page

VARIABLES
  doc,       \* the version at DOC_PATH
  setup,     \* "off", "creating", "created", "watching" or "failed"
  initial,   \* the version the meeting is created with
  stat,      \* the version that the watcher knows of
  armed,     \* does the debounced callback wait?
  updates,   \* updateMeeting() under way: their versions, 0 before the file is read
  meeting,   \* the version that the meeting names, 0 without a meeting
  online,    \* is the status of the page Online?
  effects,   \* of each subscription: [open, todo], todo is what it has yet to show
  current,   \* currentDoc, 0 for undefined
  missed,    \* history: was there a write between the first read and the watch?
  overlap,   \* history: did two updates overlap?
  late,      \* history: did a subscription show a file after a newer one was open?
  split,     \* history: did the box open the collection twice?
  lost       \* history: did a call, or a subscription of the page, break off?

fsync   == <<doc, setup, initial, stat, armed, updates>>
view    == <<online, effects, current>>
history == <<missed, overlap, late, split, lost>>
vars    == <<fsync, meeting, view, history>>

Init ==
  /\ doc = 1 /\ setup = "off" /\ initial = 0
  /\ stat = 0 /\ armed = FALSE /\ updates = <<>>
  /\ meeting = 0
  /\ online = FALSE /\ effects = <<>> /\ current = 0
  /\ missed = FALSE /\ overlap = FALSE /\ late = FALSE /\ split = FALSE /\ lost = FALSE

-----------------------------------------------------------------------------
(* fsync.js *)

Write ==
  /\ doc < MaxVersions
  /\ doc' = doc + 1
  /\ UNCHANGED <<setup, initial, stat, armed, updates, meeting, view, history>>

(* 'connected': the document is read. *)
Connected ==
  /\ setup = "off"
  /\ setup' = "creating" /\ initial' = doc
  /\ UNCHANGED <<doc, stat, armed, updates, meeting, view, history>>

(* Two requests for the collection, of the page, of fsync or of whoever else
   keeps meetings there, have found that the box has not opened it since it was
   started, and each has got a database of its own. *)
OpenedTwice ==
  /\ ~split
  /\ split' = TRUE
  /\ UNCHANGED <<fsync, meeting, view, missed, overlap, late, lost>>

\* Is the subscription told of a write?  Only if it is to the same database.
Told == IF split THEN BOOLEAN ELSE {TRUE}

\* What the box sends to the subscriptions when the meeting names version v.
Publish(v) ==
  /\ meeting' = v
  /\ \E told \in Told :
       effects' = [e \in 1 .. Len(effects) |->
                     IF effects[e].open /\ told
                       THEN [effects[e] EXCEPT !.todo = Append(@, v)] ELSE effects[e]]
  /\ UNCHANGED <<online, current>>

(* createMeeting(): the file is stored and the meeting created. *)
CreateMeeting ==
  /\ setup = "creating"
  /\ setup' = "created"
  /\ Publish(initial)
  /\ UNCHANGED <<doc, initial, stat, armed, updates, history>>

(* It fails: the watcher has no code, and updates nothing. *)
CreateFails ==
  /\ setup \in {"creating", "created"}
  /\ setup' = "failed" /\ lost' = TRUE
  /\ UNCHANGED <<doc, initial, stat, armed, updates, meeting, view, missed, overlap, late, split>>

(* watchFile() takes the document as it is for what is known already. *)
WatchForUpdates ==
  /\ setup = "created"
  /\ setup' = "watching" /\ stat' = doc
  /\ missed' = (doc # initial)
  /\ UNCHANGED <<doc, initial, armed, updates, meeting, view, overlap, late, split, lost>>

(* The watcher has noticed that the document changed. *)
Poll ==
  /\ setup = "watching" /\ stat # doc
  /\ stat' = doc /\ armed' = TRUE
  /\ UNCHANGED <<doc, setup, initial, updates, meeting, view, history>>

(* 500 ms without a change. *)
Debounced ==
  /\ armed
  /\ armed' = FALSE
  /\ updates' = Append(updates, 0)
  /\ overlap' = (overlap \/ updates # <<>>)
  /\ UNCHANGED <<doc, setup, initial, stat, meeting, view, missed, late, split, lost>>

(* Mutant: it sends the file that the meeting was created with. *)
ReadFileInitial(i) ==
  /\ updates[i] = 0
  /\ updates' = [updates EXCEPT ![i] = initial]
  /\ UNCHANGED <<doc, setup, initial, stat, armed, meeting, view, history>>

ReadFile(i) ==
  /\ updates[i] = 0
  /\ updates' = [updates EXCEPT ![i] = doc]
  /\ UNCHANGED <<doc, setup, initial, stat, armed, meeting, view, history>>

Removed(i) == SubSeq(updates, 1, i - 1) \o SubSeq(updates, i + 1, Len(updates))

(* updateMeeting(). *)
UpdateMeeting(i) ==
  /\ updates[i] # 0
  /\ updates' = Removed(i)
  /\ Publish(updates[i])
  /\ UNCHANGED <<doc, setup, initial, stat, armed, history>>

(* It fails: nothing is tried again. *)
UpdateFails(i) ==
  /\ updates[i] # 0
  /\ updates' = Removed(i) /\ lost' = TRUE
  /\ UNCHANGED <<doc, setup, initial, stat, armed, meeting, view, missed, overlap, late, split>>

-----------------------------------------------------------------------------
(* The page *)

\* What a subscription may find: the meeting, or what its database has of it.
Found == IF split THEN 0 .. meeting ELSE {meeting}

(* The status becomes Online: the effect subscribes. *)
Online ==
  /\ ~online /\ Len(effects) < MaxEffects
  /\ online' = TRUE
  /\ \E v \in Found :
       effects' = Append(effects, [open |-> TRUE, todo |-> IF v = 0 THEN <<>> ELSE <<v>>])
  /\ UNCHANGED <<fsync, meeting, current, history>>

\* The connection is gone; some of what was sent has arrived.
Break(e) ==
  \E n \in 0 .. Len(effects[e].todo) :
    effects' = [effects EXCEPT ![e] = [open |-> FALSE, todo |-> SubSeq(@.todo, 1, n)]]

(* The connection is gone, and so is the status Online. *)
Offline(e) ==
  /\ online /\ effects[e].open
  /\ online' = FALSE
  /\ Break(e)
  /\ UNCHANGED <<fsync, meeting, current, history>>

(* A connection that is there again within 100 ms, or is not the only one: the
   status stays Online, the effect does not run again. *)
Blip(e) ==
  /\ online /\ effects[e].open
  /\ Break(e)
  /\ lost' = TRUE
  /\ UNCHANGED <<fsync, meeting, online, current, missed, overlap, late, split>>

(* Mutant: the files are fetched at once and shown as they come. *)
ShowAny(e) ==
  \E n \in 1 .. Len(effects[e].todo) :
    /\ current' = effects[e].todo[n]
    /\ effects' = [effects EXCEPT ![e].todo = SubSeq(@, 1, n - 1) \o SubSeq(@, n + 1, Len(@))]
    /\ late' = (late \/ e < Len(effects))
    /\ UNCHANGED <<fsync, meeting, online, missed, overlap, split, lost>>

(* The next file has come. *)
Show(e) ==
  /\ effects[e].todo # <<>>
  /\ current' = Head(effects[e].todo)
  /\ effects' = [effects EXCEPT ![e].todo = Tail(@)]
  /\ late' = (late \/ e < Len(effects))
  /\ UNCHANGED <<fsync, meeting, online, missed, overlap, split, lost>>

(* It has not: the effect ends, and with it the subscription. *)
ShowFails(e) ==
  /\ effects[e].todo # <<>>
  /\ effects' = [effects EXCEPT ![e] = [open |-> FALSE, todo |-> <<>>]]
  /\ lost' = (lost \/ effects[e].open)
  /\ UNCHANGED <<fsync, meeting, online, current, missed, overlap, late, split>>

-----------------------------------------------------------------------------
Updating == Poll \/ Debounced \/ \E i \in 1 .. Len(updates) : ReadFile(i) \/ UpdateMeeting(i)
Showing == \E e \in 1 .. Len(effects) : Show(e)

Next ==
  \/ Write \/ Connected \/ CreateMeeting \/ CreateFails \/ WatchForUpdates
  \/ Updating \/ \E i \in 1 .. Len(updates) : UpdateFails(i)
  \/ OpenedTwice \/ Online \/ Showing
  \/ \E e \in 1 .. Len(effects) : Offline(e) \/ Blip(e) \/ ShowFails(e)

(* The watcher polls, its timer fires, and calls come to an end. *)
Fairness == WF_vars(Updating) /\ WF_vars(Showing)

-----------------------------------------------------------------------------
Undisturbed == setup = "watching" /\ online /\ ~missed /\ ~overlap /\ ~late /\ ~split /\ ~lost

(* The page comes to show the document as it is, however writes, polls, updates
   and reconnections interleave, unless one of five things happened: a write
   before the watch began, updates that overlapped, a subscription that showed
   a file after the next one began, a call that failed, or two databases of the
   box for the collection of the meeting. *)
DocArrives == <>[]Undisturbed => <>[](current = doc)

(* Nor does it go back to an older version, unless updates or subscriptions
   overlapped or the box has two databases for the collection. *)
NeverOlder == [][current' < current => overlap' \/ late' \/ split']_vars
=============================================================================
