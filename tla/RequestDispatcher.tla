-------------------------- MODULE RequestDispatcher --------------------------
(***************************************************************************)
(* onRequest (fw100-ril.c): libril calls it for one request at a time on  *)
(* its dispatch thread.  It rejects most requests with                     *)
(* RADIO_NOT_AVAILABLE while sState is OFF, then runs the handler for the  *)
(* request, which completes the request's token with                       *)
(* RIL_onRequestComplete.  The handlers' completion behaviour is the       *)
(* table of RequestHandlers; here each of their steps is an action of the  *)
(* dispatch thread.  The radio state is written by the other threads of    *)
(* the driver (module RadioSession) and is an input here.                  *)
(***************************************************************************)
EXTENDS Naturals, Sequences, RequestHandlers

CONSTANTS
  Requests,   \* request codes the host may submit (a subset of DOMAIN Dispatch)
  MaxTok      \* number of requests the host submits

NoReq == "none"
Tokens == 1..MaxTok

OFF == "OFF"
RadioValues == {OFF, "UNAVAILABLE", "SIM_NOT_READY"}

\* The switch of onRequest: request code to handler.
Dispatch == [
  GET_SIM_STATUS |-> getCardStatus,
  GET_CURRENT_CALLS |-> requestGetCurrentCallsEVDO,
  SCREEN_STATE |-> requestScreenState,
  DIAL |-> requestDial,
  HANGUP |-> requestHangup,
  CALL_CONTROL |-> CallControl,
  SEPARATE_CONNECTION |-> SeparateConnection,
  SIGNAL_STRENGTH |-> requestSignalStrength,
  REGISTRATION_STATE |-> requestRegistrationStateEVDO,
  GPRS_REGISTRATION_STATE |-> requestRegistrationStateEVDO,
  OPERATOR |-> requestOperator,
  RADIO_POWER |-> requestRadioPower,
  DTMF |-> Dtmf,
  SEND_SMS |-> requestSendSMSEVDO,
  SETUP_DATA_CALL |-> requestSetupDataCallEVDO,
  DEACTIVATE_DATA_CALL |-> requestDeactivateDataCallEVDO,
  LAST_DATA_CALL_FAIL_CAUSE |-> requestDataCallFailCause,
  SMS_ACKNOWLEDGE |-> requestSMSAcknowledge,
  GET_IMSI |-> requestGetIMSI,
  BASEBAND_VERSION |-> requestBasebandVersion,
  GET_IMEI |-> requestGetIMEI,
  SET_PREFERRED_NETWORK_TYPE |-> requestSetPreferredNetworkType,
  GET_PREFERRED_NETWORK_TYPE |-> requestGetPreferredNetworkType,
  SIM_IO |-> requestSIM_IO,
  SEND_USSD |-> requestSendUSSD,
  CANCEL_USSD |-> CancelUssd,
  QUERY_NETWORK_SELECTION_MODE |-> requestQueryNetworkSelectionMode,
  SET_NETWORK_SELECTION |-> SetNetworkSelection,
  QUERY_AVAILABLE_NETWORKS |-> requestQueryAvailableNetworks,
  DATA_CALL_LIST |-> requestDataCallList,
  OEM_HOOK |-> OemHook,
  WRITE_SMS_TO_SIM |-> requestWriteSmsToSim,
  DELETE_SMS_ON_SIM |-> DeleteSmsOnSim,
  ENTER_SIM_PIN |-> requestEnterSimPin,
  UNKNOWN_REQUEST |-> Unsupported ]

\* Requests served while the radio is OFF.
Bypass == {"RADIO_POWER", "GET_SIM_STATUS", "SCREEN_STATE"}

ASSUME Requests \subseteq DOMAIN Dispatch /\ MaxTok \in Nat \ {0}

VARIABLES
  sState,        \* fw100Ctx.sState as the dispatch thread reads it
  req,           \* request code of each token (NoReq: not submitted yet)
  completions,   \* RIL_onRequestComplete calls made for each token, in order
  cur,           \* token being dispatched (the last one submitted)
  pc,            \* "idle" (onRequest has returned), "args", "stage"
  k              \* index of the handler's current AT exchange

vars == <<sState, req, completions, cur, pc, k>>

H == Dispatch[req[cur]]

\* RIL_onRequestComplete for the current token, then return from onRequest.
CompleteAndReturn(seq) ==
  /\ completions' = [completions EXCEPT ![cur] = @ \o seq]
  /\ pc' = "idle"

TypeOK ==
  /\ sState \in RadioValues
  /\ req \in [Tokens -> Requests \cup {NoReq}]
  /\ completions \in [Tokens -> Seq(Statuses)]
  /\ cur \in 0..MaxTok
  /\ pc \in {"idle", "args", "stage"}
  /\ k \in Nat

Init ==
  /\ sState \in RadioValues
  /\ req = [t \in Tokens |-> NoReq]
  /\ completions = [t \in Tokens |-> <<>>]
  /\ cur = 0
  /\ pc = "idle"
  /\ k = 0

-----------------------------------------------------------------------------
\* libril hands the next request to onRequest, which applies the OFF gate.
onRequest(r) ==
  /\ pc = "idle"
  /\ cur < MaxTok
  /\ cur' = cur + 1
  /\ req' = [req EXCEPT ![cur + 1] = r]
  /\ IF sState = OFF /\ r \notin Bypass
       THEN /\ completions' = [completions EXCEPT ![cur + 1] = <<RNA>>]
            /\ UNCHANGED pc
       ELSE /\ pc' = "args"
            /\ UNCHANGED completions
  /\ UNCHANGED <<sState, k>>

\* The handler inspects its payload.
HandlerArgs ==
  /\ pc = "args"
  /\ \E o \in H.args :
       IF o = Go THEN /\ pc' = "stage"
                      /\ k' = 1
                      /\ UNCHANGED completions
                 ELSE /\ CompleteAndReturn(o)
                      /\ UNCHANGED k
  /\ UNCHANGED <<sState, req, cur>>

\* One AT exchange of the handler: it succeeds, fails, or its reply does
\* not parse; the handler carries on or completes and returns.
HandlerExchange ==
  /\ pc = "stage"
  /\ k <= Len(H.stages)
  /\ \E next \in {Cont, H.stages[k].onAt, H.stages[k].onParse} \ {Never} :
       IF next = Cont THEN /\ k' = k + 1
                           /\ UNCHANGED <<completions, pc>>
                      ELSE /\ CompleteAndReturn(next)
                           /\ UNCHANGED k
  /\ UNCHANGED <<sState, req, cur>>

\* Every exchange went through: the handler's final completions.
HandlerDone ==
  /\ pc = "stage"
  /\ k > Len(H.stages)
  /\ CompleteAndReturn(H.done)
  /\ UNCHANGED <<sState, req, cur, k>>

\* Another thread changes the radio state (setRadioState).
RadioChange ==
  /\ \E v \in RadioValues \ {sState} : sState' = v
  /\ UNCHANGED <<req, completions, cur, pc, k>>

Next ==
  \/ \E r \in Requests : onRequest(r)
  \/ HandlerArgs \/ HandlerExchange \/ HandlerDone
  \/ RadioChange

\* A handler, once called, runs to its end on the dispatch thread.
Fairness == WF_vars(HandlerArgs \/ HandlerExchange \/ HandlerDone)

Spec == Init /\ [][Next]_vars
FairSpec == Spec /\ Fairness

-----------------------------------------------------------------------------
(* Properties                                                              *)

\* Host contract (spec 4.3, RIL_onRequestComplete): no token is ever
\* completed twice, whichever handler, payload and AT failures occur.
CompletedAtMostOnce == \A t \in Tokens : Len(completions[t]) <= 1

\* Every request submitted is eventually completed, on every path of its
\* handler: an early return that forgets RIL_onRequestComplete leaves the
\* host waiting for ever.
EveryRequestCompleted ==
  \A t \in Tokens : (req[t] # NoReq) ~> (completions[t] # <<>>)

=============================================================================
