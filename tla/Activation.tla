----------------------------- MODULE Activation -----------------------------
(***************************************************************************)
(* Over-the-air activation: activateHelper (fw100-ril-utils.c), called by  *)
(* mainLoop every cycle while moduleIsActivated == 0, and the ^OTACMSG     *)
(* branch of onUnsolicited (fw100-ril.c) on the AT reader thread, which    *)
(* counts and keeps the activation messages the helper waits for.  The     *)
(* modem's OTASP session, started by AT+CDV=*22899, sends messages; the    *)
(* last one of a successful session is MSG:8, when the modem commits the   *)
(* new MDN.  The channel may close and reopen at any time: commands then   *)
(* fail and onUnsolicited drops lines (sState is UNAVAILABLE).             *)
(***************************************************************************)
EXTENDS Naturals

CONSTANTS
  Carriers,       \* carrier strings the $QCMIPGETP reply may contain
  MaxOtaMsgs      \* bound on the messages of one OTASP session

MAX_AUTO_ACTIVATE_RETRY == 6        \* fw100-ril.h
OTA_MSG_WAIT == 5                   \* messages activateHelper waits for

NOT_ACT == 0
ACT     == 1
FAILED  == 2

OtaKinds == {"MSG:1", "MSG:8"}      \* a progress message, the commit

ASSUME {"sprint", "vzw"} \subseteq Carriers /\ MaxOtaMsgs \in Nat \ {0}

VARIABLES
  moduleIsActivated,
  moduleActivateRetry,
  otaMsgCnt,
  otaMsg,          \* last ^OTACMSG line kept, "none" before any
  mainPc,          \* mainLoop thread inside activateHelper
  rdPc,            \* reader thread inside the ^OTACMSG branch
  rdTmp,           \* value of otaMsgCnt the reader's ++ loaded
  rdMsg,           \* line the reader is handling
  carrier,         \* the modem's provisioning carrier
  autoActivate,    \* moduleAutoActivate from the control file
  chanOpen,        \* the AT channel is open
  otaLeft,         \* messages the modem's current OTASP session still sends
  provisioned,     \* the modem holds a real MDN
  attempts,        \* AT+CDV=*22899 commands sent so far
  sinceReset       \* ^OTACMSG lines counted since the last otaMsgCnt = 0

vars == <<moduleIsActivated, moduleActivateRetry, otaMsgCnt, otaMsg, mainPc,
          rdPc, rdTmp, rdMsg, carrier, autoActivate, chanOpen, otaLeft,
          provisioned, attempts, sinceReset>>

MaxCnt == MAX_AUTO_ACTIVATE_RETRY * MaxOtaMsgs
MainLabels == {"idle", "meid", "mdn", "carrier", "reset", "cdv", "wait",
               "decide", "verify", "done"}

\* Outcome of a command: a closed channel always fails.
AtOk(open) == IF open THEN {TRUE, FALSE} ELSE {FALSE}

TypeOK ==
  /\ moduleIsActivated \in {NOT_ACT, ACT, FAILED}
  /\ moduleActivateRetry \in 0..MAX_AUTO_ACTIVATE_RETRY
  /\ otaMsgCnt \in 0..MaxCnt
  /\ otaMsg \in OtaKinds \cup {"none"}
  /\ mainPc \in MainLabels
  /\ rdPc \in {"idle", "write", "copy"}
  /\ rdTmp \in 0..MaxCnt
  /\ rdMsg \in OtaKinds \cup {"none"}
  /\ carrier \in Carriers
  /\ autoActivate \in BOOLEAN
  /\ chanOpen \in BOOLEAN
  /\ otaLeft \in 0..MaxOtaMsgs
  /\ provisioned \in BOOLEAN
  /\ attempts \in 0..MAX_AUTO_ACTIVATE_RETRY - 1
  /\ sinceReset \in 0..MaxCnt

\* The values rilReadControl can leave in ctx->moduleAutoActivate: the 1 of
\* initSessionContext when the file is missing or has no AutoActivate
\* line, else (strstr "Yes" ? 1 : 0) + (strstr "yes" ? 1 : 0) of the last
\* such line.  activateHelper only tests it for non-zero.
ControlAutoActivate == {1} \cup {yes1 + yes2 : yes1, yes2 \in {0, 1}}

\* initSessionContext and rilReadControl: not activated, full retry budget;
\* the modem may already hold an MDN.
Init ==
  /\ moduleIsActivated = NOT_ACT
  /\ moduleActivateRetry = MAX_AUTO_ACTIVATE_RETRY
  /\ otaMsgCnt = 0
  /\ otaMsg = "none"
  /\ mainPc = "idle"
  /\ rdPc = "idle"
  /\ rdTmp = 0
  /\ rdMsg = "none"
  /\ carrier \in Carriers
  /\ autoActivate \in {v # 0 : v \in ControlAutoActivate}
  /\ chanOpen = TRUE
  /\ otaLeft = 0
  /\ provisioned \in BOOLEAN
  /\ attempts = 0
  /\ sinceReset = 0

Goto(l) == mainPc' = l

\* Everything the modem and the reader thread own.
env == <<chanOpen, otaLeft, provisioned>>
reader == <<rdPc, rdTmp, rdMsg>>
fixed == <<carrier, autoActivate>>

-----------------------------------------------------------------------------
(* Mutants: plausible miscodings of the actions below.                     *)

Decide_AnyMsg ==
  /\ mainPc = "decide"
  /\ IF otaMsg # "none"
       THEN /\ moduleIsActivated' = ACT
            /\ Goto("verify")
       ELSE /\ Goto("done")
            /\ UNCHANGED moduleIsActivated
  /\ UNCHANGED <<moduleActivateRetry, otaMsgCnt, otaMsg, reader, fixed, env,
                 attempts, sinceReset>>

\* The wait loop written without its 30 s bound,
\* while (ctx->otaMsgCnt < 5) sleep(1): it leaves only on the count.
WaitTimeout_NoBound ==
  /\ mainPc = "wait"
  /\ otaMsgCnt >= OTA_MSG_WAIT
  /\ Goto("decide")
  /\ UNCHANGED <<moduleIsActivated, moduleActivateRetry, otaMsgCnt, otaMsg,
                 reader, fixed, env, attempts, sinceReset>>

-----------------------------------------------------------------------------
(* mainLoop and activateHelper                                             *)

\* mainLoop, every 10 s: if (!moduleIsActivated) activateHelper(1).
ActivateStart ==
  /\ mainPc = "idle"
  /\ moduleIsActivated = NOT_ACT
  /\ Goto("meid")
  /\ UNCHANGED <<moduleIsActivated, moduleActivateRetry, otaMsgCnt, otaMsg,
                 reader, fixed, env, attempts, sinceReset>>

\* AT^MEID; a failure goes to done.
QueryMeid ==
  /\ mainPc = "meid"
  /\ \E ok \in AtOk(chanOpen) : Goto(IF ok THEN "mdn" ELSE "done")
  /\ UNCHANGED <<moduleIsActivated, moduleActivateRetry, otaMsgCnt, otaMsg,
                 reader, fixed, env, attempts, sinceReset>>

\* AT+VMDN?: a reply other than "000..." is a valid MDN, the module is
\* activated; "000" goes on to the carrier query.
QueryMdn ==
  /\ mainPc = "mdn"
  /\ \E ok \in AtOk(chanOpen) :
       IF ~ok THEN /\ Goto("done")
                   /\ UNCHANGED moduleIsActivated
       ELSE IF provisioned THEN /\ moduleIsActivated' = ACT
                                /\ Goto("done")
       ELSE /\ Goto("carrier")
            /\ UNCHANGED moduleIsActivated
  /\ UNCHANGED <<moduleActivateRetry, otaMsgCnt, otaMsg, reader, fixed, env,
                 attempts, sinceReset>>

\* AT$QCMIPGETP=0: sprint and unknown carriers, a failure, or auto
\* activation off go to done.  For vzw the retry budget is decremented
\* first and then tested: reaching zero marks the module failed.
QueryCarrier ==
  /\ mainPc = "carrier"
  /\ \E ok \in AtOk(chanOpen) :
       IF ok /\ carrier = "vzw" /\ autoActivate
         THEN LET r == IF moduleActivateRetry > 0
                         THEN moduleActivateRetry - 1
                         ELSE moduleActivateRetry
              IN /\ moduleActivateRetry' = r
                 /\ IF r = 0 THEN /\ moduleIsActivated' = FAILED
                                  /\ Goto("done")
                             ELSE /\ Goto("reset")
                                  /\ UNCHANGED moduleIsActivated
         ELSE /\ Goto("done")
              /\ UNCHANGED <<moduleIsActivated, moduleActivateRetry>>
  /\ UNCHANGED <<otaMsgCnt, otaMsg, reader, fixed, env, attempts, sinceReset>>

\* ctx->otaMsgCnt = 0, a plain store racing the reader's ++.
ResetCount ==
  /\ mainPc = "reset"
  /\ otaMsgCnt' = 0
  /\ sinceReset' = 0
  /\ Goto("cdv")
  /\ UNCHANGED <<moduleIsActivated, moduleActivateRetry, otaMsg, reader,
                 fixed, env, attempts>>

\* AT+CDV=*22899, its error ignored: on an open channel with no OTASP call
\* in progress the modem starts a session of some number of messages.
DialOtasp ==
  /\ mainPc = "cdv"
  /\ attempts' = attempts + 1
  /\ IF chanOpen /\ otaLeft = 0
       THEN otaLeft' \in 0..MaxOtaMsgs
       ELSE UNCHANGED otaLeft
  /\ Goto("wait")
  /\ UNCHANGED <<moduleIsActivated, moduleActivateRetry, otaMsgCnt, otaMsg,
                 reader, fixed, chanOpen, provisioned, sinceReset>>

\* The wait loop ends when otaMsgCnt reaches 5 ...
WaitCount ==
  /\ mainPc = "wait"
  /\ otaMsgCnt >= OTA_MSG_WAIT
  /\ Goto("decide")
  /\ UNCHANGED <<moduleIsActivated, moduleActivateRetry, otaMsgCnt, otaMsg,
                 reader, fixed, env, attempts, sinceReset>>

\* ... or after 30 one-second sleeps, whatever has arrived by then.
WaitTimeout ==
  /\ mainPc = "wait"
  /\ otaMsgCnt < OTA_MSG_WAIT
  /\ Goto("decide")
  /\ UNCHANGED <<moduleIsActivated, moduleActivateRetry, otaMsgCnt, otaMsg,
                 reader, fixed, env, attempts, sinceReset>>

\* strstr(ctx->otaMsg, "MSG:8"): the last line kept decides.
Decide ==
  /\ mainPc = "decide"
  /\ IF otaMsg = "MSG:8"
       THEN /\ moduleIsActivated' = ACT
            /\ Goto("verify")
       ELSE /\ Goto("done")
            /\ UNCHANGED moduleIsActivated
  /\ UNCHANGED <<moduleActivateRetry, otaMsgCnt, otaMsg, reader, fixed, env,
                 attempts, sinceReset>>

\* AT+VMDN? to save the new MDN; its result changes nothing modelled.
VerifyMdn ==
  /\ mainPc = "verify"
  /\ Goto("done")
  /\ UNCHANGED <<moduleIsActivated, moduleActivateRetry, otaMsgCnt, otaMsg,
                 reader, fixed, env, attempts, sinceReset>>

\* done: free the responses, rilWriteStatus, return to mainLoop.
HelperDone ==
  /\ mainPc = "done"
  /\ Goto("idle")
  /\ UNCHANGED <<moduleIsActivated, moduleActivateRetry, otaMsgCnt, otaMsg,
                 reader, fixed, env, attempts, sinceReset>>

-----------------------------------------------------------------------------
(* The modem and the AT reader thread                                      *)

\* The OTASP session sends its next ^OTACMSG line; the last line of a
\* session is either the commit (MSG:8, the MDN is now stored) or not.  The
\* reader hands it to onUnsolicited, which returns at once while the channel
\* is down (sState UNAVAILABLE); otherwise the ++ loads otaMsgCnt.
OtaMessage ==
  /\ otaLeft > 0
  /\ rdPc = "idle"
  /\ \E m \in IF otaLeft = 1 THEN OtaKinds ELSE {"MSG:1"} :
       /\ otaLeft' = otaLeft - 1
       /\ provisioned' = (provisioned \/ m = "MSG:8")
       /\ IF chanOpen
            THEN /\ rdPc' = "write"
                 /\ rdTmp' = otaMsgCnt
                 /\ rdMsg' = m
            ELSE UNCHANGED reader
  /\ UNCHANGED <<moduleIsActivated, moduleActivateRetry, otaMsgCnt, otaMsg,
                 mainPc, fixed, chanOpen, attempts, sinceReset>>

\* The ++ stores the loaded value plus one.
OtaStore ==
  /\ rdPc = "write"
  /\ otaMsgCnt' = rdTmp + 1
  /\ sinceReset' = sinceReset + 1
  /\ rdPc' = "copy"
  /\ UNCHANGED <<rdTmp, rdMsg, otaMsg, moduleIsActivated, moduleActivateRetry,
                 mainPc, fixed, env, attempts>>

\* Then strncpy keeps the line in ctx->otaMsg.
OtaCopy ==
  /\ rdPc = "copy"
  /\ otaMsg' = rdMsg
  /\ rdPc' = "idle"
  /\ UNCHANGED <<rdTmp, rdMsg, otaMsgCnt, moduleIsActivated,
                 moduleActivateRetry, mainPc, fixed, env, attempts, sinceReset>>

\* The channel closes (onATReaderClosed) at any time.
ChannelClose ==
  /\ chanOpen
  /\ chanOpen' = FALSE
  /\ UNCHANGED <<moduleIsActivated, moduleActivateRetry, otaMsgCnt, otaMsg,
                 mainPc, reader, fixed, otaLeft, provisioned, attempts,
                 sinceReset>>

\* mainLoop sees s_closed only after activateHelper returns, leaves its
\* inner loop and reopens the channel.
ChannelReopen ==
  /\ ~chanOpen
  /\ mainPc = "idle"
  /\ chanOpen' = TRUE
  /\ UNCHANGED <<moduleIsActivated, moduleActivateRetry, otaMsgCnt, otaMsg,
                 mainPc, reader, fixed, otaLeft, provisioned, attempts,
                 sinceReset>>

-----------------------------------------------------------------------------
MainStep ==
  \/ QueryMeid \/ QueryMdn \/ QueryCarrier \/ ResetCount \/ DialOtasp
  \/ WaitCount \/ WaitTimeout \/ Decide \/ VerifyMdn \/ HelperDone

Next ==
  \/ ActivateStart \/ MainStep
  \/ OtaMessage \/ OtaStore \/ OtaCopy \/ ChannelClose \/ ChannelReopen

Spec == Init /\ [][Next]_vars

\* The mainLoop thread waits on nothing but its own sleeps and the AT
\* channel, which answers or fails every command (a closed channel fails
\* at once, a silent one by the AT timeout), so a started activateHelper
\* keeps taking steps.  mainLoop's next call, the modem's OTA lines and the
\* channel are not forced.
FairSpec == Spec /\ WF_vars(MainStep)

-----------------------------------------------------------------------------
(* Properties                                                              *)

\* The driver reports the module activated (status file "Yes", no further
\* activateHelper calls) only when the modem really holds an MDN: the
\* decision on the last ^OTACMSG line kept never credits a session that
\* did not commit.
ActivatedOnlyIfProvisioned == moduleIsActivated = ACT => provisioned

\* The workflow implements ActivationSpec: moduleIsActivated maps to the
\* outcome, the AT+CDV=*22899 calls to the attempts, and the budget is
\* MAX_AUTO_ACTIVATE_RETRY - 1 calls, since the decrement comes before
\* the test.
Abstract == INSTANCE ActivationSpec WITH
  Budget <- MAX_AUTO_ACTIVATE_RETRY - 1,
  status <- CASE moduleIsActivated = ACT -> "Activated"
              [] moduleIsActivated = FAILED -> "Failed"
              [] OTHER -> "NotActivated",
  tries <- attempts

HelperPassEnds == (mainPc # "idle") ~> (mainPc = "idle")

\* The wait loop counts the ^OTACMSG lines of this attempt: while the
\* helper is past ctx->otaMsgCnt = 0 and the reader is between lines,
\* otaMsgCnt is the number of lines stored since that reset.
CountIsSinceReset ==
  (mainPc \in {"cdv", "wait", "decide"} /\ rdPc = "idle")
    => otaMsgCnt = sinceReset

\* A module the driver marks Failed (status file "Failed", never retried)
\* is one the modem did not provision.
FailedOnlyIfUnprovisioned == moduleIsActivated = FAILED => ~provisioned

=============================================================================
