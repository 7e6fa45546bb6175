----------------------------- MODULE QueryHooks -----------------------------
(***************************************************************************)
(* A component that uses both hooks of fula-client-react: useLazyQuery()   *)
(* with requests that may overlap, and useSubscription() while the client  *)
(* of the provider is replaced, until the component is unmounted.          *)
(*                                                                         *)
(* Clients are numbered in the order in which the provider has them, 0 is  *)
(* none.  What a call comes to is given; instead, it may fail with its     *)
(* connection.  State is not set after the unmount: React ignores it.      *)
(***************************************************************************)
EXTENDS Naturals, Sequences

CONSTANTS
  Inputs,     \* arguments of the first call
  Later,      \* bound: arguments of later calls, among Inputs
  Answer(_),  \* the data graphql() resolves to for the arguments, or Rejected
  Rejected,
  None,       \* no data, or no error, so far
  MaxCalls, MaxClients \* bounds: calls, clients

Clients == 1 .. MaxClients

ASSUME HooksAssumption ==
  /\ Later \subseteq Inputs
  /\ MaxCalls \in Nat /\ MaxClients \in Nat

VARIABLES
  fula,                  \* the client of the provider
  mounted,               \* is the component there?
  calls,                 \* requests so far: [args, answer, pending]
  data, error, loading,  \* state of useLazyQuery()
  effects,               \* the effect of each client: [isMounted, reading]
  subData, subError,     \* state of useSubscription(): the client it is from
  overlap                \* history: was a request made before the last was answered?

provider == <<fula, mounted>>
lazy     == <<calls, data, error, loading, overlap>>
sub      == <<effects, subData, subError>>
vars     == <<provider, lazy, sub>>

Init ==
  /\ fula = 0 /\ mounted = TRUE
  /\ calls = <<>> /\ data = None /\ error = None /\ loading = FALSE
  /\ effects = [c \in Clients |-> [isMounted |-> FALSE, reading |-> FALSE]]
  /\ subData = None /\ subError = None
  /\ overlap = FALSE

-----------------------------------------------------------------------------
(* The provider has another client: the effects are cleaned up and run again. *)
ChangeClient ==
  /\ mounted /\ fula < MaxClients
  /\ fula' = fula + 1
  /\ effects' = [c \in Clients |-> [isMounted |-> c = fula',
                                    reading   |-> effects[c].reading \/ c = fula']]
  /\ UNCHANGED <<mounted, lazy, subData, subError>>

Unmount ==
  /\ mounted
  /\ mounted' = FALSE
  /\ effects' = [c \in Clients |-> [effects[c] EXCEPT !.isMounted = FALSE]]
  /\ UNCHANGED <<fula, lazy, subData, subError>>

-----------------------------------------------------------------------------
Pending == {i \in DOMAIN calls : calls[i].pending}

(* request(), with a client and a query with a source. *)
Request(a) ==
  /\ mounted /\ fula # 0 /\ Len(calls) < MaxCalls
  /\ calls # <<>> => a \in Later
  /\ calls' = Append(calls, [args |-> a, answer |-> Answer(a), pending |-> TRUE])
  /\ loading' = TRUE
  /\ overlap' = (overlap \/ Pending # {})
  /\ UNCHANGED <<provider, data, error, sub>>

(* Mutant: finally() is missing. *)
SettleOnly(i, d, e) ==
  /\ i \in Pending
  /\ calls' = [calls EXCEPT ![i].pending = FALSE]
  /\ IF mounted THEN data' = d /\ error' = e ELSE UNCHANGED <<data, error>>
  /\ UNCHANGED <<provider, loading, overlap, sub>>

(* Mutant: then() ends the loading, where finally() would. *)
SettleInThen(i, d, e) ==
  /\ i \in Pending
  /\ calls' = [calls EXCEPT ![i].pending = FALSE]
  /\ IF mounted THEN data' = d /\ error' = e /\ loading' = (loading /\ e = i)
                ELSE UNCHANGED <<data, error, loading>>
  /\ UNCHANGED <<provider, overlap, sub>>

Settle(i, d, e) ==
  /\ i \in Pending
  /\ calls' = [calls EXCEPT ![i].pending = FALSE]
  /\ IF mounted THEN data' = d /\ error' = e /\ loading' = FALSE
                ELSE UNCHANGED <<data, error, loading>>
  /\ UNCHANGED <<provider, overlap, sub>>

(* then() and finally(): the error of an earlier request stays. *)
Resolve(i) ==
  /\ i \in Pending /\ calls[i].answer # Rejected
  /\ Settle(i, calls[i].answer, error)

(* catch() and finally(): the data of an earlier request stay. *)
Reject(i) == Settle(i, data, i)

-----------------------------------------------------------------------------
(* Mutant: isMounted is not checked. *)
ValueUnchecked(c) ==
  /\ effects[c].reading
  /\ subData' = c
  /\ UNCHANGED <<provider, lazy, effects, subError>>

(* A value of the subscription arrives.  Only now does the effect see that it
   has been cleaned up. *)
Value(c) ==
  /\ effects[c].reading
  /\ IF effects[c].isMounted
       THEN subData' = c /\ UNCHANGED effects
       ELSE effects' = [effects EXCEPT ![c].reading = FALSE] /\ UNCHANGED subData
  /\ UNCHANGED <<provider, lazy, subError>>

(* The stream of the subscription ends, or fails: the error is set whether or
   not the effect has been cleaned up. *)
End(c) ==
  /\ effects[c].reading
  /\ effects' = [effects EXCEPT ![c].reading = FALSE]
  /\ \/ UNCHANGED subError
     \/ mounted /\ subError' = c
  /\ UNCHANGED <<provider, lazy, subData>>

-----------------------------------------------------------------------------
Next ==
  \/ ChangeClient \/ Unmount
  \/ \E a \in Inputs : Request(a)
  \/ \E i \in DOMAIN calls : Resolve(i) \/ Reject(i)
  \/ \E c \in Clients : Value(c) \/ End(c)

SafeSpec == Init /\ [][Next]_vars

(* A call is answered, or its connection is closed. *)
Spec == SafeSpec /\ \A i \in 1 .. MaxCalls : WF_vars(i \in DOMAIN calls /\ (Resolve(i) \/ Reject(i)))

-----------------------------------------------------------------------------
(* Every variable keeps its type. *)
TypeOK ==
  /\ fula \in 0 .. MaxClients /\ mounted \in BOOLEAN
  /\ Len(calls) <= MaxCalls
  /\ \A i \in DOMAIN calls : calls[i].args \in Inputs /\ calls[i].pending \in BOOLEAN
  /\ data = None \/ \E i \in DOMAIN calls : data = calls[i].answer
  /\ error \in {None} \cup DOMAIN calls
  /\ loading \in BOOLEAN /\ overlap \in BOOLEAN
  /\ effects \in [Clients -> [isMounted : BOOLEAN, reading : BOOLEAN]]
  /\ subData \in {None} \cup Clients /\ subError \in {None} \cup Clients

(* As long as a component asks one thing at a time, the hook tells the state
   of its last request: loading until it is answered, then its data or its
   error.  Requests that overlap may leave an older answer. *)
TellsLastRequest ==
  mounted /\ ~overlap /\ calls # <<>> =>
    /\ loading = (Pending # {})
    /\ ~loading => error = Len(calls) \/ data = calls[Len(calls)].answer

(* What a subscription shows comes from the client of the moment: nothing that
   an earlier client sends is shown once it has been replaced, and nothing
   after the unmount. *)
ShowsCurrentClient == [][subData' # subData => mounted /\ subData' = fula]_vars

(* A component that stays does not load for ever. *)
StopsLoading == []<>(mounted => ~loading)
=============================================================================
