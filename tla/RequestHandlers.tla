--------------------------- MODULE RequestHandlers ---------------------------
(***************************************************************************)
(* The completion behaviour of every handler onRequest dispatches to       *)
(* (fw100-ril.c, fw100-ril-rqst.c, fw100-ril-data.c).  A handler is        *)
(* abstracted to its control flow as far as RIL_onRequestComplete is       *)
(* concerned:                                                              *)
(*   args   - the outcomes of its check of the request payload: Go, or    *)
(*            the completions it makes before returning;                  *)
(*   stages - its AT exchanges in order; for each, what the handler does  *)
(*            when the exchange fails (onAt: err < 0 or success == 0, as  *)
(*            the handler tests it) and when parsing the reply fails      *)
(*            (onParse: an at_tok_* error): Cont carries on, Never means  *)
(*            the handler has no such path, a sequence lists the          *)
(*            completions made before it returns;                         *)
(*   done   - the completions made when every stage went through.         *)
(* The parsed values, the formatted responses and the fields the handlers *)
(* store (screenState, networkSelectMode, carrier, inDataCall) are left   *)
(* out: the dispatcher's properties are about completions only.           *)
(***************************************************************************)
EXTENDS Sequences

\* RIL_Errno values the handlers complete with.
S   == "SUCCESS"
GF  == "GENERIC_FAILURE"
RNA == "RADIO_NOT_AVAILABLE"
PI  == "PASSWORD_INCORRECT"
NS  == "REQUEST_NOT_SUPPORTED"
Statuses == {S, GF, RNA, PI, NS}

\* Markers, as one-element sequences so that they compare with completion
\* sequences.
Go    == <<"go">>
Cont  == <<"cont">>
Never == <<"never">>

Stage(a, p) == [onAt |-> a, onParse |-> p]
Handler(args, stages, done) == [args |-> args, stages |-> stages, done |-> done]

\* An exchange whose reply is tokenised: any failure jumps to the error
\* label, which completes GENERIC_FAILURE.
Query == Stage(<<GF>>, <<GF>>)
\* An exchange whose error is tested but whose reply is not parsed.
Command == Stage(<<GF>>, Never)
\* An exchange whose result the handler ignores.
Fire == Stage(Cont, Never)

-----------------------------------------------------------------------------
(* Mutants: plausible miscodings of handlers below.                        *)

\* A PIN failure reported with RIL_E_SIM_PUK2, an errno this driver never
\* uses.
requestEnterSimPin_Puk2 ==
  Handler({Go, <<"SIM_PUK2">>}, <<Stage(<<PI>>, Never)>>, <<S>>)

\* requestWriteSmsToSim without the return after its success completion.
requestWriteSmsToSim_NoReturn == Handler({Go}, <<Command>>, <<S, GF>>)

\* requestGetCurrentCallsEVDO returning on an AT+CLCC error without
\* completing the request.
requestGetCurrentCallsEVDO_NoComplete ==
  Handler({Go}, <<Stage(<<>>, Never)>>, <<S>>)

-----------------------------------------------------------------------------
(* Handlers in fw100-ril.c                                                 *)

\* getCardStatus: getSIMStatus returns SIM_READY before any AT command and
\* getCardStatus always answers RIL_E_SUCCESS.
getCardStatus == Handler({Go}, <<>>, <<S>>)

\* onOff == 0 with the radio not OFF sends AT+CPOF, onOff > 0 with the
\* radio OFF sends AT+CPON (an error is rescued only if isRadioOn() == 1,
\* which never happens); any other combination succeeds at once.
requestRadioPower == Handler({Go, <<S>>}, <<Command>>, <<S>>)

requestQueryNetworkSelectionMode == Handler({Go}, <<Query>>, <<S>>)

\* ATD...; the result is ignored.
requestDial == Handler({Go}, <<Fire>>, <<S>>)

requestWriteSmsToSim == Handler({Go}, <<Command>>, <<S>>)

\* AT+CHLD=1x; the result is ignored.
requestHangup == Handler({Go}, <<Fire>>, <<S>>)

\* On AT+CSQ failure the handler completes GENERIC_FAILURE and then jumps
\* to the error label, which completes GENERIC_FAILURE again.
requestSignalStrength == Handler({Go}, <<Stage(<<GF, GF>>, <<GF>>)>>, <<S>>)

\* AT+CNMA=1 or =2 (result ignored), complete SUCCESS, then fall through
\* the error label into a second completion.  Any other argument jumps to
\* the label directly.
requestSMSAcknowledge == Handler({Go, <<GF>>}, <<Fire>>, <<S, GF>>)

requestSIM_IO == Handler({Go}, <<Query>>, <<S>>)

\* A payload of neither one nor two strings jumps into the failure branch.
requestEnterSimPin == Handler({Go, <<PI>>}, <<Stage(<<PI>>, Never)>>, <<S>>)

requestSendUSSD == Handler({Go}, <<>>, <<NS>>)

\* The cases onRequest handles inline.
CallControl == Handler({Go}, <<Fire>>, <<S>>)           \* CHLD=0..3, ATA, ATH
SeparateConnection == Handler({Go, <<GF>>}, <<Fire>>, <<S>>)
Dtmf == Handler({Go}, <<Fire>>, <<S>>)
CancelUssd == Handler({Go}, <<Command>>, <<S>>)
SetNetworkSelection == Handler({Go}, <<Fire>>, <<S>>)   \* COPS=0 / COPS=1
OemHook == Handler({Go}, <<>>, <<S>>)
DeleteSmsOnSim == Handler({Go}, <<Command>>, <<S>>)
Unsupported == Handler({Go}, <<>>, <<RNA>>)

-----------------------------------------------------------------------------
(* Handlers in fw100-ril-rqst.c                                            *)

requestBasebandVersion == Handler({Go}, <<Query, Query, Query>>, <<S>>)

requestGetIMEI == Handler({Go}, <<Query>>, <<S>>)

\* AT+VMCCMNC? and, when the table has no match, AT$QCMIPGETP=0, whose
\* reply is only searched; both failures make getNetworkInfo return -1.
getNetworkInfo == <<Query, Command>>

requestGetIMSI == Handler({Go}, getNetworkInfo \o <<Query>>, <<S>>)

requestOperator == Handler({Go}, getNetworkInfo, <<S>>)

requestQueryAvailableNetworks == Handler({Go}, getNetworkInfo, <<S>>)

\* AT+CREG?, AT^SYSINFO, AT+CSNID?, AT+VROM?, each parsed.
requestRegistrationStateEVDO ==
  Handler({Go}, <<Query, Query, Query, Query>>, <<S>>)

\* An unmapped mode still completes SUCCESS (with 0).
requestGetPreferredNetworkType == Handler({Go}, <<Query>>, <<S>>)

\* An unmapped mode jumps to the error label before any command.
requestSetPreferredNetworkType == Handler({Go, <<GF>>}, <<Command>>, <<S>>)

\* Four commands for screen on, four for off; another value is an error.
\* Only err < 0 is tested.
requestScreenState ==
  Handler({Go, <<GF>>}, <<Command, Command, Command, Command>>, <<S>>)

\* AT+CMGF=1 (ignored), then AT^HCMGS with the PDU.
requestSendSMSEVDO == Handler({Go}, <<Fire, Command>>, <<S>>)

\* AT+CLCC; lines that do not parse are skipped.
requestGetCurrentCallsEVDO == Handler({Go}, <<Command>>, <<S>>)

-----------------------------------------------------------------------------
(* Handlers in fw100-ril-data.c                                            *)

\* Completes SUCCESS and falls through the error label: GENERIC_FAILURE.
requestDataCallList == Handler({Go}, <<>>, <<S, GF>>)

\* system("pppd call ...") failing, then 30 polls of ppp0 without the up
\* flag, each fail the request.
requestSetupDataCallEVDO == Handler({Go}, <<Command, Command>>, <<S>>)

\* ATH (ignored), kill pppd, SUCCESS; the error label is unreachable.
requestDeactivateDataCallEVDO == Handler({Go}, <<Fire>>, <<S>>)

requestDataCallFailCause == Handler({Go}, <<>>, <<S>>)

=============================================================================
