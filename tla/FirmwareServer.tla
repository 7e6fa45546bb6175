--------------------------- MODULE FirmwareServer ---------------------------
(***************************************************************************)
(* The HTTP server of the firmware: the requests under way, which it       *)
(* counts to know when it may stop, and the file of the device's           *)
(* properties, which it writes without waiting and reads at once.          *)
(*                                                                         *)
(* What a request for the wifi starts is in AccessPoint.                   *)
(***************************************************************************)
EXTENDS Integers, Sequences

CONSTANTS
  Request,       \* requests; a POST of properties stands for what it posts
  PropertiesSize \* of each request: the length of what it would post

Operation == {"getProperties", "postProperties", "getWifiList", "other"}

VARIABLES
  server,   \* the process: "up", "leaving" after a SIGINT, then "off"; or "killed"
  requestsCount,
  op,       \* what each request asks for
  request,  \* of each request: where it is
  answer,   \* what getProperties() has given
  scanned,  \* have networks been found?
  writing,  \* the calls of fs.writeFile(): the step they are at
  file,     \* the characters of CUSTOM_PROPERTIES_FILE, by who wrote them
  last, disturbed \* history: the last post, and whether anything met its writing

vars == <<server, requestsCount, op, request, answer, scanned, writing, file, last, disturbed>>

Nothing == "nothing"

Init ==
  /\ server = "up" /\ requestsCount = 0
  /\ op \in [Request -> Operation]
  /\ request = [r \in Request |-> "new"] /\ answer = [r \in Request |-> Nothing]
  /\ scanned = FALSE
  /\ writing = [r \in Request |-> Nothing] /\ file = <<>>
  /\ last = Nothing /\ disturbed = FALSE

Running == server \in {"up", "leaving"}

\* A call of fs.writeFile() is under way.
Writing(r) == writing[r] \in {"open", "write"}

Goes(r, where) == request' = [request EXCEPT ![r] = where]

\* Content r, from its first character to its last and no more.
Whole(r) == file = [i \in 1 .. PropertiesSize[r] |-> r]

\* The server keeps accepting requests after a SIGINT.
Receive(r) ==
  /\ Running /\ request[r] = "new"
  /\ requestsCount' = requestsCount + 1
  /\ Goes(r, "parsing")
  /\ UNCHANGED <<server, op, answer, scanned, writing, file, last, disturbed>>

(* The body parser throws: nothing after `await next()` is run, so that the
   count keeps the request. *)
BodyFails(r) ==
  /\ Running /\ request[r] = "parsing"
  /\ Goes(r, "failed")
  /\ UNCHANGED <<server, requestsCount, op, answer, scanned, writing, file, last, disturbed>>

(* Mutant: the last but one request is taken for the last. *)
LeavesEarly(r) ==
  /\ requestsCount' = requestsCount - 1
  /\ IF requestsCount <= 2 /\ server = "leaving"
       THEN server' = "off" /\ Goes(r, "cut")
       ELSE UNCHANGED server /\ Goes(r, "answered")

(* The counting middleware has its turn after the answer is made and before koa
   sends it.  The last request ends a process that is to leave there and then,
   so that its own response is never sent. *)
Leaves(r) ==
  /\ requestsCount' = requestsCount - 1
  /\ IF requestsCount = 1 /\ server = "leaving"
       THEN server' = "off" /\ Goes(r, "cut")
       ELSE UNCHANGED server /\ Goes(r, "answered")

\* What properties-file read() gives: a file that does not parse gives {}.
Read == IF \E p \in Request : Whole(p) THEN CHOOSE p \in Request : Whole(p) ELSE Nothing

(* connect() calls the controller; all but a scan answer in the same stretch,
   and an error of theirs is an answer too. *)
Answer(r) ==
  /\ Running
  /\ \/ /\ request[r] = "parsing" /\ op[r] # "postProperties"
        /\ op[r] = "getWifiList" => scanned
        /\ answer' = [answer EXCEPT ![r] = IF op[r] = "getProperties" THEN Read ELSE Nothing]
        /\ UNCHANGED <<scanned, writing, last, disturbed>>
     \/ /\ request[r] = "parsing" /\ op[r] = "postProperties"
        /\ writing' = [writing EXCEPT ![r] = "open"]
        /\ last' = r /\ disturbed' = \E q \in Request : Writing(q)
        /\ UNCHANGED <<answer, scanned>>
     \/ /\ request[r] = "scanning"
        /\ scanned' \in {scanned, TRUE}
        /\ UNCHANGED <<answer, writing, last, disturbed>>
  /\ Leaves(r)
  /\ UNCHANGED <<op, file>>

\* The first scan is waited for.
Scan(r) ==
  /\ Running /\ request[r] = "parsing" /\ op[r] = "getWifiList" /\ ~scanned
  /\ Goes(r, "scanning")
  /\ UNCHANGED <<server, requestsCount, op, answer, scanned, writing, file, last, disturbed>>

(* Mutant: what was there is written over. *)
WriteOpenKeeps(r) ==
  /\ Running /\ writing[r] = "open"
  /\ writing' = [writing EXCEPT ![r] = "write"]
  /\ UNCHANGED <<server, requestsCount, op, request, answer, scanned, file, last, disturbed>>

(* fs.writeFile() in the thread pool: the file is opened, which empties it, and
   then written from its first character on. *)
WriteOpen(r) ==
  /\ Running /\ writing[r] = "open"
  /\ writing' = [writing EXCEPT ![r] = "write"]
  /\ file' = <<>>
  /\ UNCHANGED <<server, requestsCount, op, request, answer, scanned, last, disturbed>>

WriteData(r) ==
  /\ Running /\ writing[r] = "write"
  /\ writing' = [writing EXCEPT ![r] = "written"]
  /\ file' = [i \in 1 .. PropertiesSize[r] |-> r]
             \o SubSeq(file, PropertiesSize[r] + 1, Len(file))
  /\ UNCHANGED <<server, requestsCount, op, request, answer, scanned, last, disturbed>>

(* Opening the file or writing it fails, which is logged: of the content nothing
   or a beginning is there. *)
WriteFails(r) ==
  /\ Running /\ Writing(r)
  /\ writing' = [writing EXCEPT ![r] = "failed"]
  /\ \/ writing[r] = "open" /\ UNCHANGED file
     \/ /\ writing[r] = "write"
        /\ \E n \in 0 .. PropertiesSize[r] :
             file' = [i \in 1 .. n |-> r] \o SubSeq(file, n + 1, Len(file))
  /\ UNCHANGED <<server, requestsCount, op, request, answer, scanned, last, disturbed>>

\* pm2 restarts or stops the server.
Sigint ==
  /\ server = "up"
  /\ server' = IF requestsCount <= 0 THEN "off" ELSE "leaving"
  /\ UNCHANGED <<requestsCount, op, request, answer, scanned, writing, file, last, disturbed>>

\* The process is killed, or has no more power.
Killed ==
  /\ Running /\ server' = "killed"
  /\ UNCHANGED <<requestsCount, op, request, answer, scanned, writing, file, last, disturbed>>

(* It is started again; what it was doing when it ended is not gone on with. *)
Started ==
  /\ ~Running /\ server' = "up"
  /\ requestsCount' = 0 /\ scanned' = FALSE
  /\ request' = [r \in Request |-> IF request[r] = "new" THEN "new" ELSE "past"]
  /\ writing' = [r \in Request |-> IF Writing(r) THEN "cut" ELSE writing[r]]
  /\ disturbed' = (disturbed \/ \E r \in Request : Writing(r))
  /\ UNCHANGED <<op, answer, file, last>>

Work(r) == Answer(r) \/ Scan(r) \/ WriteOpen(r) \/ WriteData(r) \/ WriteFails(r)

Next ==
  \/ \E r \in Request : Receive(r) \/ BodyFails(r) \/ Work(r)
  \/ Sigint \/ Killed \/ Started

-----------------------------------------------------------------------------
InProgress(r) == request[r] \in {"parsing", "scanning"}

(* Every variable keeps its type. *)
TypeOK ==
  /\ server \in {"up", "leaving", "off", "killed"} /\ requestsCount \in Nat
  /\ op \in [Request -> Operation]
  /\ request \in [Request -> {"new", "parsing", "scanning", "answered", "cut", "failed", "past"}]
  /\ answer \in [Request -> Request \cup {Nothing}]
  /\ scanned \in BOOLEAN /\ disturbed \in BOOLEAN /\ last \in Request \cup {Nothing}
  /\ writing \in [Request -> {Nothing, "open", "write", "written", "failed", "cut"}]
  /\ file \in Seq(Request)

(* A server that stops because it was asked to is through with all requests but
   the one that it stops at, whose response is lost: it cuts off none that it is
   still at, and never a second response. *)
StopsWhenIdle ==
  /\ server = "off" => \A r \in Request : ~InProgress(r)
  /\ \A q, r \in Request : request[q] = "cut" /\ request[r] = "cut" => q = r
  /\ \A r \in Request : request[r] = "cut" => server = "off"

(* Properties that were posted are what a request reads from then on, if no
   other post and no end of the process met the writing of them. *)
SavedUnlessDisturbed ==
  last # Nothing /\ writing[last] = "written" /\ ~disturbed => Whole(last)

(* A server that was asked to stop and has not has a request to finish, or has
   had one whose body did not parse: it never waits for an end of the requests
   that has been already. *)
StopsInTheEnd ==
  server = "leaving" => \E r \in Request : InProgress(r) \/ request[r] = "failed"
=============================================================================
