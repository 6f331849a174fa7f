------------------------------- MODULE CloudFS -------------------------------
(***************************************************************************)
(* The cloud client, core 0: the WiFi state machine, the command slot core *)
(* 1 fills, and the one HTTP exchange, which is abandoned when it takes    *)
(* too long while lwIP goes on with it.  One step is what core 0 does      *)
(* between two words it shares with core 1 or with the lwIP callbacks; the *)
(* callbacks run inside cyw43_arch_poll() on the same core.                *)
(***************************************************************************)
EXTENDS Integers

CONSTANTS
    CloudNames, \* paths under cloud:
    MaxRetries, \* g_cfg.maxRetries
    Room,       \* parts the sink's buffer has room for
    Whole,      \* parts the file's own header announces
    Windows     \* subset of {"restart", "stalecopy"}: see below

(***************************************************************************)
(* The runs choose which of the windows known to go wrong they look into:  *)
(*   "restart"    a request that cannot be started, after an abandoned one *)
(*                whose callbacks have finished;                           *)
(*   "stalecopy"  a cloud file opened after a COPY from the cloud failed.  *)
(***************************************************************************)
ASSUME CloudAssumption ==
    /\ MaxRetries \in Nat
    /\ Room \in Nat /\ Whole \in 1 .. Room
    /\ Windows \subseteq {"restart", "stalecopy"}

-----------------------------------------------------------------------------
VARIABLES
    wifi, attempt, linking, \* g_state, wifi_state.attempt, .connect_pending
    pending, slot,          \* g_cloud_cmd.pending, and the command in it
    pc0,                    \* where core 0 is
    verdict,                \* what cloud_list_dir or cloud_download returned
    armed,                  \* g_http_cb_armed
    inFlight,               \* g_http_in_flight
    complete, outcome,      \* g_http_req.complete and .result
    wire,                   \* lwIP: the exchanges whose callbacks may still come
    landed, over            \* what is in the sink; more came than fits

link == <<wifi, attempt, linking>>
request == <<pending, slot>>
exchange == <<armed, inFlight, complete, outcome, wire>>
sink == <<landed, over>>
cloudVars == <<link, request, pc0, verdict, exchange, sink>>

Request == [kind : {"dir", "file"}, name : CloudNames]

LinkTypeOK ==
    /\ wifi \in {"init", "starting", "connecting", "connected", "error"}
    /\ attempt \in 0 .. MaxRetries /\ linking \in BOOLEAN

ExchangeTypeOK ==
    /\ pending \in BOOLEAN /\ slot \in Request
    /\ pc0 \in {"loop", "exchange", "answer", "stored"}
    /\ verdict \in {"ok", "unconnected", "timeout", "failed"}
    /\ armed \in BOOLEAN /\ inFlight \in BOOLEAN
    /\ complete \in BOOLEAN /\ outcome \in {"ok", "failed"}
    /\ wire \in 0 .. 1
    /\ landed \in 0 .. Room /\ over \in BOOLEAN

CloudInit ==
    /\ wifi = "init" /\ attempt = 0 /\ linking = FALSE
    /\ pending = FALSE /\ slot \in Request
    /\ pc0 = "loop" /\ verdict = "ok"
    /\ armed = FALSE /\ inFlight = FALSE
    /\ complete = FALSE /\ outcome = "ok" /\ wire = 0
    /\ landed = 0 /\ over = FALSE

-----------------------------------------------------------------------------
\* The WiFi state machine, one call per turn of the poll loop.

AtLoop(state) ==
    /\ pc0 = "loop" /\ wifi = state
    /\ UNCHANGED <<request, pc0, verdict, exchange, sink>>

WifiInit ==
    /\ AtLoop("init")
    /\ wifi' = "starting"
    /\ UNCHANGED <<attempt, linking>>

WifiStart ==
    /\ AtLoop("starting")
    /\ \/ wifi' = "error" /\ UNCHANGED <<attempt, linking>> \* no hardware
       \/ wifi' = "connecting" /\ attempt' = 0 /\ linking' = FALSE

\* Called once the backoff is over: the step waits as long as it lasts.
WifiAttempt ==
    /\ AtLoop("connecting") /\ ~linking
    /\ \/ attempt >= MaxRetries /\ wifi' = "error" /\ UNCHANGED <<attempt, linking>>
       \/ attempt < MaxRetries /\ attempt' = attempt + 1 /\ UNCHANGED <<wifi, linking>>
       \/ attempt < MaxRetries /\ linking' = TRUE /\ UNCHANGED <<wifi, attempt>>

\* Refused, failed, or not up within WIFI_CONNECT_TIMEOUT_MS.
LinkDown ==
    linking' = FALSE /\ attempt' = attempt + 1 /\ UNCHANGED wifi

WifiStatus ==
    /\ AtLoop("connecting") /\ linking
    /\ \/ wifi' = "connected" /\ linking' = FALSE /\ UNCHANGED attempt
       \/ LinkDown

-----------------------------------------------------------------------------
\* The command slot.  Core 1 may submit while nothing is pending and no
\* exchange is under way.

ExchangeActive == inFlight /\ ~complete

MaySubmit == ~pending /\ ~ExchangeActive

Submit(r) == slot' = r /\ pending' = TRUE

\* Mutant: commands are served only while WiFi is connected.
TakeableConnected == pc0 = "loop" /\ pending /\ wifi = "connected"

Takeable == pc0 = "loop" /\ pending

Answer(v) == pc0' = "answer" /\ verdict' = v

Prepare == complete' = FALSE /\ outcome' = "ok"     \* memset(&g_http_req)

NotStarted ==
    /\ inFlight => "restart" \in Windows
    /\ Prepare /\ armed' = FALSE
    /\ Answer("timeout")
    /\ UNCHANGED <<inFlight, wire>>

Started ==
    /\ Prepare /\ armed' = TRUE
    /\ inFlight' = TRUE /\ wire' = wire + 1
    /\ pc0' = "exchange" /\ UNCHANGED verdict

\* The slot is given back.  Without a network that is all; else the sink's
\* context is cleared and the exchange started, if none is under way.
Take ==
    /\ Takeable
    /\ pending' = FALSE
    /\ IF wifi # "connected" THEN Answer("unconnected") /\ UNCHANGED <<exchange, sink>>
       ELSE /\ landed' = 0 /\ over' = FALSE
            /\ IF ExchangeActive THEN Answer("timeout") /\ UNCHANGED exchange
                                 ELSE NotStarted \/ Started
    /\ UNCHANGED <<link, slot>>

-----------------------------------------------------------------------------
\* lwIP, inside cyw43_arch_poll().

Polling == pc0 \in {"loop", "exchange"} /\ wifi = "connected"

\* A part of the answer: dropped when the request has been abandoned.
Deliver ==
    /\ Polling /\ wire > 0 /\ armed
    /\ IF landed < Room THEN landed' = landed + 1 /\ UNCHANGED over
                        ELSE over' = TRUE /\ UNCHANGED landed
    /\ UNCHANGED <<link, request, pc0, verdict, exchange>>

\* Mutant: the result of an abandoned request is ignored.
CompleteIfArmed == complete' = armed

SetComplete == complete' = TRUE

WireEnds ==
    /\ Polling /\ wire > 0
    /\ wire' = wire - 1
    /\ SetComplete /\ outcome' \in {"ok", "failed"}
    /\ UNCHANGED <<link, request, pc0, verdict, armed, inFlight, sink>>

\* Result, overflow, and for a file its own length, are looked at.
Judge ==
    IF outcome = "ok" /\ ~over /\ (slot.kind = "file" => landed >= Whole)
    THEN "ok" ELSE "failed"

Collect ==
    /\ pc0 = "exchange" /\ complete
    /\ inFlight' = FALSE /\ armed' = FALSE
    /\ Answer(Judge)
    /\ UNCHANGED <<link, request, complete, outcome, wire, sink>>

Disarm == armed' = FALSE

\* The deadline is looked at after the poll, whatever the poll brought.
Abandon ==
    /\ pc0 = "exchange"
    /\ Disarm
    /\ Answer("timeout")
    /\ UNCHANGED <<link, request, inFlight, complete, outcome, wire, sink>>

-----------------------------------------------------------------------------
WifiStep == WifiInit \/ WifiStart \/ WifiAttempt \/ WifiStatus
CloudStep == Take \/ Collect \/ Abandon
CloudNext == WifiStep \/ CloudStep \/ Deliver \/ WireEnds

\* The loop of core 0 goes on, and every turn of it runs the WiFi machine
\* (strong fairness: a command only delays it); both waits have a deadline;
\* lwIP gives up an exchange in the end.
CloudFairness ==
    /\ SF_cloudVars(WifiStep) /\ WF_cloudVars(CloudStep) /\ WF_cloudVars(WireEnds)

-----------------------------------------------------------------------------
(***************************************************************************)
(* The callbacks of two exchanges are never alive together: they share one *)
(* request structure and one context, and an abandoned exchange whose data *)
(* arrives after the next one is armed would be taken for its answer.      *)
(***************************************************************************)
OneExchange == wire > 0 => inFlight /\ ~complete /\ wire = 1

(***************************************************************************)
(* A request is refused as busy only while an exchange is really under way *)
(* ("until its lwIP callbacks finish", cloud_fs.cpp:229): otherwise nothing *)
(* would ever end the refusals.                                            *)
(***************************************************************************)
BusyIsBounded == ExchangeActive => wire > 0

=============================================================================
