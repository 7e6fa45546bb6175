------------------------------ MODULE Firmware ------------------------------
(***************************************************************************)
(* The two parts of the firmware: its wifi service (AccessPoint) and its   *)
(* HTTP server (FirmwareServer).  They share no state, so a behaviour      *)
(* takes the steps of one of them.                                         *)
(***************************************************************************)
EXTENDS AccessPoint

CONSTANTS
  Request,       \* requests to the server
  PropertiesSize \* of each request: the length of what it would post

ASSUME SizesAssumption == PropertiesSize \in [Request -> Nat]

VARIABLES server, requestsCount, op, request, answer, scanned, writing, file, posted, disturbed,
          part \* "wifi" or "server"

Server == INSTANCE FirmwareServer WITH last <- posted

serverVars == <<server, requestsCount, op, request, answer, scanned, writing, file, posted, disturbed>>

FirmwareInit == Init /\ Server!Init /\ part \in {"wifi", "server"}

FirmwareNext ==
  \/ part = "wifi" /\ Next /\ UNCHANGED <<part, serverVars>>
  \/ part = "server" /\ Server!Next /\ UNCHANGED <<part, vars>>

FirmwareSpec ==
  FirmwareInit /\ [][FirmwareNext]_<<vars, serverVars, part>> /\ WF_vars(\E p \in running : Finish(p))

-----------------------------------------------------------------------------
(* A server that is asked to stop does so with the last of its requests, whose
   response is the only one that is lost; and if it has not stopped there is a
   request to finish, or has been one whose body did not parse. *)
StopsAsAsked == Server!TypeOK /\ Server!StopsWhenIdle /\ Server!StopsInTheEnd

(* Properties that were posted are what is read from then on, if no other post
   and no end of the process met the writing of them. *)
SavedUnlessDisturbed == Server!SavedUnlessDisturbed
=============================================================================
