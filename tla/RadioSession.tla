---------------------------- MODULE RadioSession ----------------------------
(***************************************************************************)
(* The radio state machine of the fw100 RIL driver (fw100-ril.c) and the   *)
(* threads that drive it:                                                  *)
(*   Req  - the host's request thread, here running requestRadioPower;     *)
(*   Cb   - the host's timed-callback thread, running initializeCallback;  *)
(*   Rdr  - the AT reader thread, running onATReaderClosed (the same body  *)
(*          as onATTimeout) when the AT channel fails;                     *)
(*   Main - mainLoop, the connection supervisor that re-opens the channel. *)
(* setRadioState is a procedure shared by Req, Cb and Rdr: one atomic step *)
(* for the region under s_state_mutex, then two steps for the reads of     *)
(* sState it makes after unlocking (the notification, the side effects).  *)
(***************************************************************************)
EXTENDS Naturals, Integers

CONSTANTS
  MaxSessions     \* bound on at_open calls by mainLoop (so on channel faults)

ASSUME MaxSessions \in Nat \ {0}

\* RIL_RadioState values the driver uses.
OFF    == "OFF"
UNAV   == "UNAVAILABLE"
SNR    == "SIM_NOT_READY"
READY  == "SIM_READY"
LOCKED == "SIM_LOCKED_OR_ABSENT"
RadioStates == {OFF, UNAV, SNR, READY, LOCKED}

Req  == "Req"
Cb   == "Cb"
Rdr  == "Rdr"
Main == "Main"
Setters == {Req, Cb, Rdr}          \* threads that call setRadioState
Threads == Setters \cup {Main}

\* Outcome of one at_send_command: a closed channel always fails.
AtResults(open) == IF open THEN {"ok", "err"} ELSE {"err"}

\* isRadioOn: AT+VPON? and two booleans parsed from its reply; any failure
\* returns -1, a parsed reply returns stacken, which the "internal mode
\* workaround" fixes at 0 (ps_en is only logged).
isRadioOn(open) == IF open THEN {0, -1} ELSE {-1}

VARIABLES
  sState,        \* fw100Ctx.sState
  s_closed,      \* fw100Ctx.s_closed
  chanOpen,      \* the atchannel is open (between at_open and at_close)
  session,       \* number of successful at_open calls so far
  cbQueue,       \* initializeCallback invocations scheduled, not yet run
  pc,            \* program counter of each thread
  newSt,         \* setRadioState argument, per calling thread
  oldSt,         \* setRadioState local oldState, per calling thread
  ret,           \* label setRadioState returns to, per calling thread
  onOff,         \* requestRadioPower argument
  hostView,      \* radio state the host last read with currentState()
  hostPending,   \* RADIO_STATE_CHANGED delivered, host has not re-read
  netPending,    \* NETWORK_STATE_CHANGED delivered, host has not re-polled
  wrote          \* value setRadioState wrote under the mutex, per thread

vars == <<sState, s_closed, chanOpen, session, cbQueue, pc, newSt, oldSt,
          ret, onOff, hostView, hostPending, netPending, wrote>>

Labels == {"idle", "set_lock", "set_notify", "set_fx",
           "cpof", "cpon", "cb_init", "close_flag",
           "acquire", "loop", "exited"}

TypeOK ==
  /\ sState \in RadioStates
  /\ s_closed \in {0, 1}
  /\ chanOpen \in BOOLEAN
  /\ session \in 0..MaxSessions
  /\ cbQueue \in 0..MaxSessions
  /\ pc \in [Threads -> Labels]
  /\ newSt \in [Setters -> RadioStates]
  /\ oldSt \in [Setters -> RadioStates]
  /\ ret \in [Setters -> Labels]
  /\ onOff \in {0, 1}
  /\ hostView \in RadioStates
  /\ hostPending \in BOOLEAN
  /\ netPending \in BOOLEAN
  /\ wrote \in [Setters -> RadioStates]

\* initSessionContext: sState = RADIO_STATE_OFF, s_closed = 0; mainLoop
\* has not opened the channel yet.  The host starts from currentState().
Init ==
  /\ sState = OFF
  /\ s_closed = 0
  /\ chanOpen = FALSE
  /\ session = 0
  /\ cbQueue = 0
  /\ pc = [t \in Threads |-> IF t = Main THEN "acquire" ELSE "idle"]
  /\ newSt = [t \in Setters |-> OFF]
  /\ oldSt = [t \in Setters |-> OFF]
  /\ ret = [t \in Setters |-> "idle"]
  /\ onOff = 0
  /\ hostView = OFF
  /\ hostPending = FALSE
  /\ netPending = FALSE
  /\ wrote = [t \in Setters |-> OFF]

Goto(t, l) == pc' = [pc EXCEPT ![t] = l]

\* A call of setRadioState(s) by thread t that returns to label r.
CallSetRadioState(t, s, r) ==
  /\ newSt' = [newSt EXCEPT ![t] = s]
  /\ ret' = [ret EXCEPT ![t] = r]
  /\ Goto(t, "set_lock")

-----------------------------------------------------------------------------
(* Mutants: plausible miscodings of the operations below, each used to     *)
(* show that a property checked of the real operation can fail.            *)

\* setRadioState without the "if closed, only UNAVAILABLE" override.
SetRadioStateLock_NoForce(t) ==
  /\ pc[t] = "set_lock"
  /\ oldSt' = [oldSt EXCEPT ![t] = sState]
  /\ sState' = newSt[t]
  /\ wrote' = [wrote EXCEPT ![t] = newSt[t]]
  /\ Goto(t, "set_notify")
  /\ UNCHANGED <<s_closed, chanOpen, session, cbQueue, newSt, ret, onOff,
                 hostView, hostPending, netPending>>

\* setRadioState with "oldState = sState" moved below the write.
SetRadioStateLock_LateOld(t) ==
  LET target == IF s_closed > 0 THEN UNAV ELSE newSt[t] IN
  /\ pc[t] = "set_lock"
  /\ oldSt' = [oldSt EXCEPT ![t] = target]
  /\ sState' = target
  /\ wrote' = [wrote EXCEPT ![t] = target]
  /\ Goto(t, "set_notify")
  /\ UNCHANGED <<s_closed, chanOpen, session, cbQueue, newSt, ret, onOff,
                 hostView, hostPending, netPending>>

\* The notification decided by the requested value, not by sState.
SetRadioStateNotify_ByArg(t) ==
  /\ pc[t] = "set_notify"
  /\ IF newSt[t] # oldSt[t]
       THEN /\ hostPending' = TRUE
            /\ Goto(t, "set_fx")
       ELSE /\ UNCHANGED hostPending
            /\ Goto(t, ret[t])
  /\ UNCHANGED <<sState, s_closed, chanOpen, session, cbQueue, newSt, oldSt,
                 ret, onOff, hostView, netPending, wrote>>

\* Power-on reporting RADIO_STATE_ON, a value of newer ril.h headers.
RadioPowerOn_StateOn ==
  /\ pc[Req] = "cpon"
  /\ \E r \in AtResults(chanOpen) :
       IF r = "ok" THEN CallSetRadioState(Req, "ON", "idle")
                   ELSE /\ Goto(Req, "idle")
                        /\ UNCHANGED <<newSt, ret>>
  /\ UNCHANGED <<sState, s_closed, chanOpen, session, cbQueue, oldSt, onOff,
                 hostView, hostPending, netPending, wrote>>

-----------------------------------------------------------------------------
(* setRadioState                                                           *)

\* Under s_state_mutex: remember oldState, force UNAVAILABLE when closed,
\* write the new value.
SetRadioStateLock(t) ==
  LET target == IF s_closed > 0 THEN UNAV ELSE newSt[t] IN
  /\ pc[t] = "set_lock"
  /\ oldSt' = [oldSt EXCEPT ![t] = sState]
  /\ sState' = target
  /\ wrote' = [wrote EXCEPT ![t] = target]
  /\ Goto(t, "set_notify")
  /\ UNCHANGED <<s_closed, chanOpen, session, cbQueue, newSt, ret, onOff,
                 hostView, hostPending, netPending>>

\* After unlocking: compare the *current* sState with oldState and notify.
SetRadioStateNotify(t) ==
  /\ pc[t] = "set_notify"
  /\ IF sState # oldSt[t]
       THEN /\ hostPending' = TRUE
            /\ Goto(t, "set_fx")
       ELSE /\ UNCHANGED hostPending
            /\ Goto(t, ret[t])
  /\ UNCHANGED <<sState, s_closed, chanOpen, session, cbQueue, newSt, oldSt,
                 ret, onOff, hostView, netPending, wrote>>

\* Side effects chosen by a further read of sState: onSIMReady sends
\* AT+CNMI (no state here), onRadioPowerOn notifies NETWORK_STATE_CHANGED.
SetRadioStateFx(t) ==
  /\ pc[t] = "set_fx"
  /\ netPending' = (netPending \/ sState = SNR)
  /\ Goto(t, ret[t])
  /\ UNCHANGED <<sState, s_closed, chanOpen, session, cbQueue, newSt, oldSt,
                 ret, onOff, hostView, hostPending, wrote>>

-----------------------------------------------------------------------------
(* requestRadioPower, on the host's request thread                         *)

\* The host submits RIL_REQUEST_RADIO_POWER; the handler reads sState
\* (without the lock) to pick its branch.  A request with nothing to do
\* completes with success at once.
requestRadioPower ==
  /\ pc[Req] = "idle"
  /\ \E v \in {0, 1} :
       /\ onOff' = v
       /\ CASE v = 0 /\ sState # OFF -> Goto(Req, "cpof")
            [] v > 0 /\ sState = OFF -> Goto(Req, "cpon")
            [] OTHER                 -> UNCHANGED pc
  /\ UNCHANGED <<sState, s_closed, chanOpen, session, cbQueue, newSt, oldSt,
                 ret, hostView, hostPending, netPending, wrote>>

\* AT+CPOF; on success setRadioState(RADIO_STATE_OFF), else failure.
RadioPowerOff ==
  /\ pc[Req] = "cpof"
  /\ \E r \in AtResults(chanOpen) :
       IF r = "ok" THEN CallSetRadioState(Req, OFF, "idle")
                   ELSE /\ Goto(Req, "idle")
                        /\ UNCHANGED <<newSt, ret>>
  /\ UNCHANGED <<sState, s_closed, chanOpen, session, cbQueue, oldSt, onOff,
                 hostView, hostPending, netPending, wrote>>

\* AT+CPON; on error the handler asks isRadioOn() whether the RF came on
\* anyway, and fails the request unless it answers 1.
RadioPowerOn ==
  /\ pc[Req] = "cpon"
  /\ \E r \in AtResults(chanOpen), on \in isRadioOn(chanOpen) :
       IF r = "ok" \/ on = 1 THEN CallSetRadioState(Req, SNR, "idle")
                   ELSE /\ Goto(Req, "idle")
                        /\ UNCHANGED <<newSt, ret>>
  /\ UNCHANGED <<sState, s_closed, chanOpen, session, cbQueue, oldSt, onOff,
                 hostView, hostPending, netPending, wrote>>

-----------------------------------------------------------------------------
(* initializeCallback, on the host's timed-callback thread                 *)

\* setRadioState(RADIO_STATE_OFF) first.
initializeCallback ==
  /\ pc[Cb] = "idle"
  /\ cbQueue > 0
  /\ cbQueue' = cbQueue - 1
  /\ CallSetRadioState(Cb, OFF, "cb_init")
  /\ UNCHANGED <<sState, s_closed, chanOpen, session, oldSt, onOff,
                 hostView, hostPending, netPending, wrote>>

\* at_handshake and atcommand_init ignore their errors; isRadioOn() is 0
\* or -1, so the promotion to RADIO_STATE_SIM_NOT_READY never happens.
InitializeCallbackAt ==
  /\ pc[Cb] = "cb_init"
  /\ Goto(Cb, "idle")
  /\ UNCHANGED <<sState, s_closed, chanOpen, session, cbQueue, newSt, oldSt,
                 ret, onOff, hostView, hostPending, netPending, wrote>>

-----------------------------------------------------------------------------
(* Channel failure: onATReaderClosed / onATTimeout                          *)

\* at_close(): the channel fails and is closed.
onATReaderClosed ==
  /\ pc[Rdr] = "idle"
  /\ chanOpen
  /\ session < MaxSessions
  /\ chanOpen' = FALSE
  /\ Goto(Rdr, "close_flag")
  /\ UNCHANGED <<sState, s_closed, session, cbQueue, newSt, oldSt, ret, onOff,
                 hostView, hostPending, netPending, wrote>>

\* s_closed = 1 (outside the mutex), then setRadioState(UNAVAILABLE).
ReaderClosedFlag ==
  /\ pc[Rdr] = "close_flag"
  /\ s_closed' = 1
  /\ CallSetRadioState(Rdr, UNAV, "idle")
  /\ UNCHANGED <<sState, chanOpen, session, cbQueue, oldSt, onOff,
                 hostView, hostPending, netPending, wrote>>

-----------------------------------------------------------------------------
(* mainLoop                                                                *)

\* A transport handle has been acquired (failures only sleep and retry):
\* s_closed = 0, at_open, and schedule initializeCallback.  If at_open
\* fails the thread returns and the loop is over for good.
mainLoopAttach ==
  /\ pc[Main] = "acquire"
  /\ s_closed' = 0
  /\ \/ /\ chanOpen' = TRUE
        /\ session' = session + 1
        /\ cbQueue' = cbQueue + 1
        /\ Goto(Main, "loop")
     \/ /\ UNCHANGED <<chanOpen, session, cbQueue>>
        /\ Goto(Main, "exited")
  /\ UNCHANGED <<sState, newSt, oldSt, ret, onOff, hostView, hostPending,
                 netPending, wrote>>

\* After sleep(10): if s_closed, break out and re-acquire.
mainLoopClosed ==
  /\ pc[Main] = "loop"
  /\ s_closed > 0
  /\ Goto(Main, "acquire")
  /\ UNCHANGED <<sState, s_closed, chanOpen, session, cbQueue, newSt, oldSt,
                 ret, onOff, hostView, hostPending, netPending, wrote>>

-----------------------------------------------------------------------------
(* The host (libril's client), outside this repository                     *)

\* On RADIO_STATE_CHANGED the host calls currentState().
HostReadState ==
  /\ hostPending
  /\ hostView' = sState
  /\ hostPending' = FALSE
  /\ UNCHANGED <<sState, s_closed, chanOpen, session, cbQueue, pc, newSt,
                 oldSt, ret, onOff, netPending, wrote>>

\* On NETWORK_STATE_CHANGED the host re-polls registration.
HostReadNetwork ==
  /\ netPending
  /\ netPending' = FALSE
  /\ UNCHANGED <<sState, s_closed, chanOpen, session, cbQueue, pc, newSt,
                 oldSt, ret, onOff, hostView, hostPending, wrote>>

-----------------------------------------------------------------------------
SetterStep(t) ==
  \/ SetRadioStateLock(t)
  \/ SetRadioStateNotify(t)
  \/ SetRadioStateFx(t)

Next ==
  \/ \E t \in Setters : SetterStep(t)
  \/ requestRadioPower \/ RadioPowerOff \/ RadioPowerOn
  \/ initializeCallback \/ InitializeCallbackAt
  \/ onATReaderClosed \/ ReaderClosedFlag
  \/ mainLoopAttach \/ mainLoopClosed
  \/ HostReadState \/ HostReadNetwork

\* Threads that have started a step run it to completion; the host reacts
\* to notifications.  New requests and channel faults are never forced.
Fairness ==
  /\ \A t \in Setters : WF_vars(SetterStep(t))
  /\ WF_vars(RadioPowerOff) /\ WF_vars(RadioPowerOn)
  /\ WF_vars(initializeCallback) /\ WF_vars(InitializeCallbackAt)
  /\ WF_vars(ReaderClosedFlag)
  /\ WF_vars(mainLoopAttach) /\ WF_vars(mainLoopClosed)
  /\ WF_vars(HostReadState) /\ WF_vars(HostReadNetwork)

Spec == Init /\ [][Next]_vars
FairSpec == Spec /\ Fairness

-----------------------------------------------------------------------------
(* Properties                                                              *)

\* No thread is between its locked write in setRadioState and the unlocked
\* read that decides whether to notify.
Quiescent == \A t \in Setters : pc[t] # "set_notify"

\* setRadioState decides whether to send RADIO_STATE_CHANGED by re-reading
\* sState after unlocking, while other threads may have written it since.
\* Whatever the interleaving, once no thread is between its write and that
\* read and the host has handled every notification, the state the host
\* read with currentState() is the driver's state: no change goes unnotified.
HostViewConsistent == Quiescent /\ ~hostPending => hostView = sState

\* onATReaderClosed sets s_closed outside the mutex and then calls
\* setRadioState(UNAVAILABLE); a request or callback thread may write the
\* state later, from an AT exchange that finished before the close.  Once
\* the closing thread has written, and until mainLoop re-opens the channel,
\* the state stays UNAVAILABLE.
ClosedForcesUnavailable ==
  s_closed = 1 /\ pc[Rdr] \notin {"close_flag", "set_lock"} => sState = UNAV

\* Under the threads' fairness, every change of the radio state is
\* eventually seen by the host through RADIO_STATE_CHANGED/currentState().
HostEventuallyConsistent == (hostView # sState) ~> (hostView = sState)

\* Spec section 8: a setRadioState call that changes the value produces one
\* RADIO_STATE_CHANGED notification and a call that does not produces none:
\* when a caller makes its unlocked read, that read agrees with its own write.
NotifyPerChange ==
  \A t \in Setters :
    pc[t] = "set_notify" => ((sState # oldSt[t]) = (wrote[t] # oldSt[t]))

\* Spec section 4.2: UNAVAILABLE is what the fault callbacks write when the
\* transport is torn down.  Once mainLoop has re-attached (s_closed = 0,
\* channel open), this session's initializeCallback has run to its end and
\* no closer is between its flag and its write, the radio is not
\* UNAVAILABLE.  (From UNAVAILABLE only a host power-off request, which
\* requestRadioPower sends from any state but OFF, moves the radio.)
UnavailableOnlyWhenClosed ==
  (/\ chanOpen /\ s_closed = 0 /\ pc[Main] = "loop"
   /\ cbQueue = 0 /\ pc[Cb] = "idle" /\ pc[Rdr] = "idle")
    => sState # UNAV

=============================================================================
