------------------------------ MODULE DataCall ------------------------------
(***************************************************************************)
(* The data-call lifecycle of fw100-ril-data.c.  Two threads touch          *)
(* ctx->inDataCall with no lock:                                            *)
(*   Req - the dispatch thread, running requestSetupDataCallEVDO and        *)
(*         requestDeactivateDataCallEVDO;                                   *)
(*   Tm  - mainLoop's periodic modem timer, running pppAutomatic only     *)
(*         while ctx->screenState is on (set by requestScreenState, also  *)
(*         on the dispatch thread).                                       *)
(* pppd is an external process started with system("pppd call ...") and   *)
(* killed with SIGTERM by killPppd; the ppp0 interface comes up and goes   *)
(* down as pppd and the network decide.  hostActive is the data call as    *)
(* the host last heard of it: from a setup or deactivate completion or a   *)
(* DATA_CALL_LIST_CHANGED notification.  statusInDataCall is the          *)
(* InDataCall line of the status file that rilWriteStatus rewrites from   *)
(* ctx for programs outside the RIL.                                       *)
(***************************************************************************)
EXTENDS Naturals

CONSTANTS
  MaxPppd   \* pppd processes counted; more spawns saturate at this number

ASSUME MaxPppd \in Nat \ {0}

DISC == "DATA_STATE_DISCONNECTED"
CONN == "DATA_STATE_CONNECTED"
SCREEN_IS_ON  == 1
SCREEN_IS_OFF == 0

VARIABLES
  inDataCall,   \* ctx->inDataCall
  pppd,         \* pppd processes running (saturating at MaxPppd)
  link,         \* ppp0 has IFF_UP
  hostActive,   \* the host believes the data call is active
  reqPc,        \* dispatch thread
  tmPc,         \* timer thread
  tmUp,         \* pppAutomatic's local rc: poll_ppp_linkstate saw ppp0 up
  screenState,  \* ctx->screenState
  statusInDataCall, \* the status file says InDataCall=Yes
  reqSnap,      \* the InDataCall value rilWriteStatus has formatted on Req
  moduleIsActivated \* ctx->moduleIsActivated: 0 not yet, 1 yes, 2 failed

vars == <<inDataCall, pppd, link, hostActive, reqPc, tmPc, tmUp, screenState,
          statusInDataCall, reqSnap, moduleIsActivated>>

ReqLabels == {"idle", "s_poll", "s_done", "d_kill", "d_state", "d_done",
              "d_notify", "w_flush"}
TmLabels  == {"idle", "check", "notify_up", "notify_down", "spawn"}

TypeOK ==
  /\ inDataCall \in {DISC, CONN}
  /\ pppd \in 0..MaxPppd
  /\ link \in BOOLEAN
  /\ hostActive \in BOOLEAN
  /\ reqPc \in ReqLabels
  /\ tmPc \in TmLabels
  /\ tmUp \in BOOLEAN
  /\ screenState \in {SCREEN_IS_ON, SCREEN_IS_OFF}
  /\ statusInDataCall \in BOOLEAN
  /\ reqSnap \in BOOLEAN
  /\ moduleIsActivated \in 0..2

\* initSessionContext: not in a data call, no pppd, nothing reported, the
\* screen off until the host says otherwise.  The status file holds what
\* the first rilWriteStatus wrote (activateHelper's, before any data call).
Init ==
  /\ inDataCall = DISC
  /\ pppd = 0
  /\ link = FALSE
  /\ hostActive = FALSE
  /\ reqPc = "idle"
  /\ tmPc = "idle"
  /\ tmUp = FALSE
  /\ screenState = SCREEN_IS_OFF
  /\ statusInDataCall = FALSE
  /\ reqSnap = FALSE
  /\ moduleIsActivated = 0

\* rilWriteStatus formats every field of ctx; the one modelled is
\* "InDataCall=Yes" when ctx->inDataCall is set, "No" otherwise.
InDataCallYes == inDataCall = CONN

\* system("pppd call <dev>"): one more pppd, unless fork/exec fails.
Spawned(n) == IF n < MaxPppd THEN n + 1 ELSE n

-----------------------------------------------------------------------------
(* Mutants: plausible miscodings of the operations below.                  *)

\* killPppd without "if (pid > 0)": kill(-1, SIGTERM) when none is found.
DeactivateKill_NoPidCheck ==
  /\ reqPc = "d_kill"
  /\ pppd' = pppd - 1
  /\ link' \in IF pppd <= 1 THEN {FALSE} ELSE {link, FALSE}
  /\ reqPc' = "d_state"
  /\ UNCHANGED <<inDataCall, hostActive, tmPc, tmUp, screenState,
                 statusInDataCall, reqSnap, moduleIsActivated>>

\* pppAutomatic's link-down branch clearing the address and notifying but
\* not resetting inDataCall.
PppCheck_NoDownReset ==
  /\ tmPc = "check"
  /\ IF tmUp
       THEN IF inDataCall # CONN
              THEN /\ inDataCall' = CONN
                   /\ tmPc' = "notify_up"
              ELSE /\ UNCHANGED inDataCall
                   /\ tmPc' = "idle"
       ELSE IF inDataCall = CONN
              THEN /\ UNCHANGED inDataCall
                   /\ tmPc' = "notify_down"
              ELSE /\ UNCHANGED inDataCall
                   /\ tmPc' = "spawn"
  /\ UNCHANGED <<pppd, link, hostActive, reqPc, tmUp, screenState,
                 statusInDataCall, reqSnap, moduleIsActivated>>

\* mainLoop's modem-timer gate written "screenState == 0".
PppPoll_GateInverted ==
  /\ tmPc = "idle"
  /\ screenState = SCREEN_IS_OFF
  /\ tmUp' = link
  /\ tmPc' = "check"
  /\ UNCHANGED <<inDataCall, pppd, link, hostActive, reqPc, screenState,
                 statusInDataCall, reqSnap, moduleIsActivated>>

-----------------------------------------------------------------------------
(* requestSetupDataCallEVDO                                                *)

\* Start pppd.  (rc < 0 completes GENERIC_FAILURE and changes nothing
\* modelled here: a stutter.)
SetupSpawn ==
  /\ reqPc = "idle"
  /\ pppd' = Spawned(pppd)
  /\ reqPc' = "s_poll"
  /\ UNCHANGED <<inDataCall, link, hostActive, tmPc, tmUp, screenState,
                 statusInDataCall, reqSnap, moduleIsActivated>>

\* What poll_ppp_linkstate can return: not up when ppp0 is down, and
\* also when it is up but ifc_init or every ifc_get_info failed.
PollSeen == IF link THEN BOOLEAN ELSE {FALSE}

\* poll_ppp_linkstate("ppp0", 30): up gives CONNECTED; otherwise the
\* request completes GENERIC_FAILURE and leaves pppd running.
SetupPoll ==
  /\ reqPc = "s_poll"
  /\ \E up \in PollSeen :
       IF up THEN /\ inDataCall' = CONN
                  /\ reqPc' = "s_done"
             ELSE /\ UNCHANGED inDataCall
                  /\ reqPc' = "idle"
  /\ UNCHANGED <<pppd, link, hostActive, tmPc, tmUp, screenState,
                 statusInDataCall, reqSnap, moduleIsActivated>>

\* RIL_onRequestComplete(SUCCESS) with cid, ppp0, address, DNS, gateway.
SetupComplete ==
  /\ reqPc = "s_done"
  /\ hostActive' = TRUE
  /\ reqPc' = "idle"
  /\ UNCHANGED <<inDataCall, pppd, link, tmPc, tmUp, screenState,
                 statusInDataCall, reqSnap, moduleIsActivated>>

-----------------------------------------------------------------------------
(* requestDeactivateDataCallEVDO                                           *)

\* ATH (result ignored), sleep(2).
DeactivateHangup ==
  /\ reqPc = "idle"
  /\ reqPc' = "d_kill"
  /\ UNCHANGED <<inDataCall, pppd, link, hostActive, tmPc, tmUp, screenState,
                 statusInDataCall, reqSnap, moduleIsActivated>>

\* killPppd: SIGTERM to the first pppd findPidByName meets, if any.  ppp0
\* goes down when no pppd is left, and may go down if others remain.
DeactivateKill ==
  /\ reqPc = "d_kill"
  /\ IF pppd > 0
       THEN /\ pppd' = pppd - 1
            /\ link' \in IF pppd = 1 THEN {FALSE} ELSE {link, FALSE}
       ELSE UNCHANGED <<pppd, link, moduleIsActivated>>
  /\ reqPc' = "d_state"
  /\ UNCHANGED <<inDataCall, hostActive, tmPc, tmUp, screenState,
                 statusInDataCall, reqSnap, moduleIsActivated>>

\* ctx->inDataCall = DATA_STATE_DISCONNECTED.
DeactivateState ==
  /\ reqPc = "d_state"
  /\ inDataCall' = DISC
  /\ reqPc' = "d_done"
  /\ UNCHANGED <<pppd, link, hostActive, tmPc, tmUp, screenState,
                 statusInDataCall, reqSnap, moduleIsActivated>>

\* RIL_onRequestComplete(SUCCESS).
DeactivateComplete ==
  /\ reqPc = "d_done"
  /\ hostActive' = FALSE
  /\ reqPc' = "d_notify"
  /\ UNCHANGED <<inDataCall, pppd, link, tmPc, tmUp, screenState,
                 statusInDataCall, reqSnap, moduleIsActivated>>

\* sleep(2), NETWORK_STATE_CHANGED (the host re-polls registration only).
DeactivateNotify ==
  /\ reqPc = "d_notify"
  /\ reqPc' = "idle"
  /\ UNCHANGED <<inDataCall, pppd, link, hostActive, tmPc, tmUp, screenState,
                 statusInDataCall, reqSnap, moduleIsActivated>>

-----------------------------------------------------------------------------
(* requestScreenState                                                      *)

\* The host asks for the screen on (1) or off (0).  Four AT commands switch
\* the modem's unsolicited reports; the first that fails completes
\* GENERIC_FAILURE with ctx->screenState untouched, and so does any other
\* value.  Only when all four succeed is ctx->screenState written (after
\* NETWORK_STATE_CHANGED when turning on).
ScreenState ==
  /\ reqPc = "idle"
  /\ \E req \in {SCREEN_IS_ON, SCREEN_IS_OFF}, allOk \in BOOLEAN :
       screenState' = IF allOk THEN req ELSE screenState
  /\ UNCHANGED <<inDataCall, pppd, link, hostActive, reqPc, tmPc, tmUp,
                 statusInDataCall, reqSnap, moduleIsActivated>>

-----------------------------------------------------------------------------
(* pppAutomatic, on the timer thread                                       *)

\* mainLoop calls fw100ModemTimer, and so pppAutomatic, only when
\* ctx->screenState == 1; pppAutomatic starts with
\* poll_ppp_linkstate("ppp0", 30): rc is 0 if the up flag was seen.
PppPoll ==
  /\ tmPc = "idle"
  /\ screenState = SCREEN_IS_ON
  /\ tmUp' = link
  /\ tmPc' = "check"
  /\ UNCHANGED <<inDataCall, pppd, link, hostActive, reqPc, screenState,
                 statusInDataCall, reqSnap, moduleIsActivated>>

\* The same poll when ifc_init or ifc_get_info fails: rc -1, "not up",
\* although ppp0 is up.
PppPollError ==
  /\ tmPc = "idle"
  /\ screenState = SCREEN_IS_ON
  /\ link
  /\ tmUp' = FALSE
  /\ tmPc' = "check"
  /\ UNCHANGED <<inDataCall, pppd, link, hostActive, reqPc, screenState,
                 statusInDataCall, reqSnap, moduleIsActivated>>

\* Link up: if inDataCall != CONNECTED, set it (then notify); return.
\* Link down: if inDataCall == CONNECTED, set DISCONNECTED (then notify);
\* fall through to respawn pppd.
PppCheck ==
  /\ tmPc = "check"
  /\ IF tmUp
       THEN IF inDataCall # CONN
              THEN /\ inDataCall' = CONN
                   /\ tmPc' = "notify_up"
              ELSE /\ UNCHANGED inDataCall
                   /\ tmPc' = "idle"
       ELSE IF inDataCall = CONN
              THEN /\ inDataCall' = DISC
                   /\ tmPc' = "notify_down"
              ELSE /\ UNCHANGED inDataCall
                   /\ tmPc' = "spawn"
  /\ UNCHANGED <<pppd, link, hostActive, reqPc, tmUp, screenState,
                 statusInDataCall, reqSnap, moduleIsActivated>>

\* DATA_CALL_LIST_CHANGED with active = 2, rilWriteStatus; return 0.
PppNotifyUp ==
  /\ tmPc = "notify_up"
  /\ hostActive' = TRUE
  /\ tmPc' = "idle"
  /\ statusInDataCall' = InDataCallYes
  /\ UNCHANGED <<inDataCall, pppd, link, reqPc, tmUp, screenState,
                 reqSnap, moduleIsActivated>>

\* DATA_CALL_LIST_CHANGED with active = 0, rilWriteStatus.
PppNotifyDown ==
  /\ tmPc = "notify_down"
  /\ hostActive' = FALSE
  /\ tmPc' = "spawn"
  /\ statusInDataCall' = InDataCallYes
  /\ UNCHANGED <<inDataCall, pppd, link, reqPc, tmUp, screenState,
                 reqSnap, moduleIsActivated>>

\* system("pppd call <dev>") with no check for a pppd already running;
\* rc < 0 returns -1 without one.
PppSpawn ==
  /\ tmPc = "spawn"
  /\ pppd' \in {Spawned(pppd), pppd}
  /\ tmPc' = "idle"
  /\ UNCHANGED <<inDataCall, link, hostActive, reqPc, tmUp, screenState,
                 statusInDataCall, reqSnap, moduleIsActivated>>

-----------------------------------------------------------------------------
(* The other writers of the status file                                    *)

\* getNetworkInfo, run by requestOperator, requestGetIMSI and
\* requestQueryAvailableNetworks on the dispatch thread: after a resolved
\* carrier it calls rilWriteStatus, which fopen("wb")s the file and
\* fprintf's the fields from ctx.  (Its AT error path writes nothing and
\* changes no state modelled here.)
GetNetworkInfo ==
  /\ reqPc = "idle"
  /\ reqSnap' = InDataCallYes
  /\ reqPc' = "w_flush"
  /\ UNCHANGED <<inDataCall, pppd, link, hostActive, tmPc, tmUp, screenState,
                 statusInDataCall, moduleIsActivated>>

\* fclose: the formatted lines reach the file.
GetNetworkInfoFlush ==
  /\ reqPc = "w_flush"
  /\ statusInDataCall' = reqSnap
  /\ reqPc' = "idle"
  /\ UNCHANGED <<inDataCall, pppd, link, hostActive, tmPc, tmUp, screenState,
                 reqSnap, moduleIsActivated>>

\* activateHelper, called by mainLoop between timer passes while
\* ctx->moduleIsActivated is 0, may set it to 1 or 2 (or leave it) and
\* ends with rilWriteStatus.
HelperWriteStatus ==
  /\ tmPc = "idle"
  /\ moduleIsActivated = 0
  /\ moduleIsActivated' \in 0..2
  /\ statusInDataCall' = InDataCallYes
  /\ UNCHANGED <<inDataCall, pppd, link, hostActive, reqPc, tmPc, tmUp,
                 screenState, reqSnap>>

-----------------------------------------------------------------------------
(* pppd and the network                                                    *)

\* pppd negotiates the link and ppp0 comes up.
LinkUp ==
  /\ pppd > 0
  /\ ~link
  /\ link' = TRUE
  /\ UNCHANGED <<inDataCall, pppd, hostActive, reqPc, tmPc, tmUp, screenState,
                 statusInDataCall, reqSnap, moduleIsActivated>>

\* The carrier drops the session and pppd exits.
LinkDrop ==
  /\ link
  /\ link' = FALSE
  /\ pppd' = pppd - 1
  /\ UNCHANGED <<inDataCall, hostActive, reqPc, tmPc, tmUp, screenState,
                 statusInDataCall, reqSnap, moduleIsActivated>>

-----------------------------------------------------------------------------
ReqStep == SetupPoll \/ SetupComplete \/ DeactivateKill \/ DeactivateState
           \/ DeactivateComplete \/ DeactivateNotify \/ GetNetworkInfoFlush
TmStep  == PppPoll \/ PppCheck \/ PppNotifyUp \/ PppNotifyDown \/ PppSpawn

Next ==
  \/ SetupSpawn \/ DeactivateHangup \/ ScreenState \/ GetNetworkInfo
  \/ ReqStep
  \/ HelperWriteStatus
  \/ TmStep \/ PppPollError
  \/ LinkUp \/ LinkDrop

\* A started request runs to its end; mainLoop's loop calls the modem timer
\* every 10 s while the channel is open (assumed here), so a timer pass
\* that the screen gate lets through is not postponed forever.  Requests
\* from the host, the screen among them, and the network are not forced.
\* The interface queries are assumed not to fail on every pass: a poll
\* that reads ppp0 as it is, possible on every pass the gate lets
\* through, is eventually taken (strong fairness on PppPoll).
Fairness == WF_vars(ReqStep) /\ WF_vars(TmStep) /\ SF_vars(PppPoll)

Spec == Init /\ [][Next]_vars
FairSpec == Spec /\ Fairness

-----------------------------------------------------------------------------
(* Properties                                                              *)

\* While the screen stays on, pppAutomatic notices a link that has come
\* up, whether pppd was started by a setup request that timed out or by
\* pppAutomatic itself, and records the data call as CONNECTED.  With the
\* screen off mainLoop skips the modem timer and nothing is promised.
LinkUpDetected ==
  (link /\ inDataCall = DISC /\ screenState = SCREEN_IS_ON)
    ~> (inDataCall = CONN \/ ~link \/ screenState = SCREEN_IS_OFF)

\* While the screen stays on, a data call recorded CONNECTED whose link has
\* gone is eventually recorded DISCONNECTED (and reported inactive), even
\* across setup, deactivate and screen requests racing the timer.
LinkDownDetected ==
  (~link /\ inDataCall = CONN /\ screenState = SCREEN_IS_ON)
    ~> (inDataCall = DISC \/ link \/ screenState = SCREEN_IS_OFF)

\* Once neither thread is between its write of inDataCall and the matching
\* completion or notification, the host's view of the data call is the
\* driver's (spec 3: no silent transition).
Settled == reqPc = "idle" /\ tmPc \in {"idle", "spawn"}
HostDataViewConsistent == Settled => (hostActive = (inDataCall = CONN))

\* Spec 3 and 5: the status file is rewritten on every data-call
\* transition, so once neither thread is inside a transition or a
\* rewrite, its InDataCall line is ctx->inDataCall.  The writers are
\* pppAutomatic's notifications, getNetworkInfo on the dispatch thread
\* and activateHelper; the setup and deactivate requests are not.
StatusFileCurrent ==
  (Settled /\ tmPc = "idle") => (statusInDataCall = InDataCallYes)

\* Spec 4.5: pppAutomatic respawns pppd only when no session process is
\* running, so at most one pppd runs.
AtMostOnePppd == pppd <= 1

=============================================================================
