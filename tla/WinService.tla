------------------------------ MODULE WinService ------------------------------
(***************************************************************************)
(* The server as a Windows service (src/src/winMain.cpp): service_main()   *)
(* on its thread, serviceCtrlFunction() on the dispatcher's, both of which *)
(* report through the one global serviceStatus.                            *)
(*                                                                         *)
(* A report fills serviceStatus in two steps and then calls                *)
(* SetServiceStatus(), which reads it.  The service control manager (SCM)  *)
(* is external: it keeps what it was told last, sends a stop only while    *)
(* stops are accepted and an interrogation at any time, one control after  *)
(* the other.  The checkpoint, a tick for progress bars, is left out.      *)
(* The names begin with service where module Daemon has the same.          *)
(***************************************************************************)
EXTENDS Integers

CONSTANT MaxInterrogate     \* bound: interrogations in a run

ASSUME ServiceAssumption == MaxInterrogate \in Nat

VARIABLES
    main,           \* where service_main() is
    handler,        \* where serviceCtrlFunction() is
    report,         \* the report each of them is making, if any
    status,         \* the global serviceStatus
    scm,            \* what the SCM knows
    event,          \* serviceStopEvent
    server,
    stopAsked,      \* a stop was delivered
    interrogated,   \* interrogations delivered
    early           \* one of them was, before the service was said to run

asked == <<stopAsked, interrogated, early>>

serviceVars == <<main, handler, report, status, scm, event, server, asked>>

Thread == {"main", "handler"}

ServiceState == {"none", "START_PENDING", "RUNNING", "STOP_PENDING", "STOPPED"}

Status == [state : ServiceState, accepts : BOOLEAN]

NoReport == [step |-> "none", state |-> "none"]

ServiceInit ==
    /\ main = "configure" /\ handler = "idle"
    /\ report = [t \in Thread |-> NoReport]
    /\ status = [state |-> "none", accepts |-> FALSE]
    /\ scm = [state |-> "START_PENDING", accepts |-> FALSE]
    /\ event = "none" /\ server = "none"
    /\ stopAsked = FALSE /\ interrogated = 0 /\ early = FALSE

Reporting(t) == report[t].step # "none"

(* service_report_status( state): called ... *)
Calls(t, state) == report' = [report EXCEPT ![t] = [step |-> "fill", state |-> state]]

Advance(t, step) == report' = [report EXCEPT ![t].step = step]

(* Bug: what is accepted stays as it was at the start. *)
FillState(t) ==
    /\ report[t].step = "fill"
    /\ Advance(t, "adjust")
    /\ status' = [status EXCEPT !.state = report[t].state]
    /\ UNCHANGED <<main, handler, scm, event, server, asked>>

(* ... fills in the state, and that stops are accepted ... *)
Fill(t) ==
    /\ report[t].step = "fill"
    /\ Advance(t, "adjust")
    /\ status' = [state |-> report[t].state, accepts |-> TRUE]
    /\ UNCHANGED <<main, handler, scm, event, server, asked>>

(* ... but not during the start ... *)
Adjust(t) ==
    /\ report[t].step = "adjust"
    /\ Advance(t, "send")
    /\ status' = [status EXCEPT
            !.accepts = @ /\ report[t].state # "START_PENDING"]
    /\ UNCHANGED <<main, handler, scm, event, server, asked>>

(* ... and sends what is there now.  The SCM refuses what is no state, and *)
(* a service that is stopped stays so.                                     *)
Send(t) ==
    /\ report[t].step = "send"
    /\ report' = [report EXCEPT ![t] = NoReport]
    /\ scm' = IF scm.state = "STOPPED" \/ status.state = "none"
              THEN scm ELSE status
    /\ UNCHANGED <<main, handler, status, event, server, asked>>

-------------------------------------------------------------------------------
(* serviceCtrlFunction()                                                   *)
Registered == main \notin {"configure", "gone"} \/ status.state # "none"

DeliverStop ==
    /\ handler = "idle" /\ Registered
    /\ scm.accepts /\ scm.state \notin {"STOP_PENDING", "STOPPED"}
    /\ handler' = "signal"
    /\ stopAsked' = TRUE
    /\ Calls("handler", "STOP_PENDING")
    /\ UNCHANGED <<main, status, scm, event, server, interrogated, early>>

DeliverInterrogate ==
    /\ handler = "idle" /\ Registered
    /\ scm.state # "STOPPED" /\ interrogated < MaxInterrogate
    /\ handler' = "again"
    /\ interrogated' = interrogated + 1
    /\ early' = (early \/ scm.state = "START_PENDING")
    /\ UNCHANGED <<main, report, status, scm, event, server, stopAsked>>

(* Bug: SetEvent() is left out. *)
SignalNobody ==
    /\ handler = "signal" /\ ~Reporting("handler")
    /\ handler' = "again"
    /\ UNCHANGED <<main, report, status, scm, event, server, asked>>

(* SetEvent(), which does nothing without an event. *)
Signal ==
    /\ handler = "signal" /\ ~Reporting("handler")
    /\ handler' = "again"
    /\ event' = IF event = "none" THEN "none" ELSE "set"
    /\ UNCHANGED <<main, report, status, scm, server, asked>>

(* The state is read, and reported again. *)
ReportAgain ==
    /\ handler = "again"
    /\ handler' = "idle"
    /\ Calls("handler", status.state)
    /\ UNCHANGED <<main, status, scm, event, server, asked>>

-------------------------------------------------------------------------------
(* service_main(): at goes on to to, by way of a report of state.          *)
At(at) == main = at /\ ~Reporting("main")

Step(at, to) ==
    /\ At(at)
    /\ main' = to
    /\ UNCHANGED <<handler, status, scm, asked>>

Tell(at, to, state) ==
    /\ Step(at, to)
    /\ Calls("main", state)
    /\ UNCHANGED <<event, server>>

(* The configuration is read, the logs are set, the control handler is     *)
(* registered; what fails here ends service_main() without a word.         *)
Configure ==
    /\ \/ Step("configure", "begin")
       \/ Step("configure", "gone")
    /\ UNCHANGED <<report, event, server>>

Begin == Tell("begin", "event", "START_PENDING")

CreateStopEvent ==
    /\ \/ Step("event", "server") /\ event' = "clear"
       \/ Step("event", "down") /\ UNCHANGED event
    /\ UNCHANGED <<report, server>>

(* The constructor of the server may throw. *)
StartService ==
    /\ \/ Step("server", "up") /\ server' = "running"
       \/ Step("server", "down") /\ UNCHANGED server
    /\ UNCHANGED <<report, event>>

Up == Tell("up", "wait", "RUNNING")

(* WaitForSingleObject(); when its timeout is over it waits again. *)
StopService ==
    /\ \/ Step("wait", "stopping") /\ event = "set"
       \/ Step("wait", "down")      \* the wait failed
    /\ server' = "stopping"
    /\ UNCHANGED <<report, event>>

Stopping == Tell("stopping", "down", "STOP_PENDING")

Down == Tell("down", "gone", "STOPPED")

ServiceNext ==
    \/ \E t \in Thread : Fill(t) \/ Adjust(t) \/ Send(t)
    \/ DeliverStop
    \/ DeliverInterrogate
    \/ Signal
    \/ ReportAgain
    \/ Configure \/ Begin \/ CreateStopEvent \/ StartService
    \/ Up \/ StopService \/ Stopping \/ Down

ServiceSpec == ServiceInit /\ [][ServiceNext]_serviceVars

(* Both threads run; nothing makes the SCM send a control, and the wait    *)
(* need not fail.                                                          *)
ServiceFairSpec ==
    /\ ServiceSpec
    /\ \A t \in Thread : WF_serviceVars(Fill(t) \/ Adjust(t) \/ Send(t))
    /\ WF_serviceVars(Signal \/ ReportAgain)
    /\ WF_serviceVars(event = "set" /\ StopService)
    /\ WF_serviceVars(Configure \/ Begin \/ CreateStopEvent \/ StartService
               \/ Up \/ Stopping \/ Down)

-------------------------------------------------------------------------------
(* Every variable has its type. *)
ServiceTypeOK ==
    /\ main \in {"configure", "begin", "event", "server", "up", "wait",
                 "stopping", "down", "gone"}
    /\ handler \in {"idle", "signal", "again"}
    /\ report \in [Thread -> [step : {"none", "fill", "adjust", "send"},
                              state : ServiceState]]
    /\ status \in Status /\ scm \in Status
    /\ event \in {"none", "clear", "set"}
    /\ server \in {"none", "running", "stopping"}
    /\ stopAsked \in BOOLEAN
    /\ interrogated \in 0 .. MaxInterrogate
    /\ early \in BOOLEAN

(* Unless it is interrogated while it starts, a service that waits for its *)
(* end is known to the SCM as one that runs and can be stopped.            *)
CanBeStopped ==
    main = "wait" /\ ~Reporting("main") /\ ~stopAsked /\ ~early =>
        scm = [state |-> "RUNNING", accepts |-> TRUE]

(* Unless it is interrogated while it starts, a stop the SCM was allowed   *)
(* to send is not lost: the server is stopped and service_main() ends.     *)
StopStopsServer == stopAsked /\ ~early ~> server = "stopping" /\ main = "gone"

(* "signal the SCM that we are done": after service_main()'s last report   *)
(* the SCM knows that the service is stopped.                              *)
StoppedIsReported ==
    main = "gone" /\ server = "stopping" /\ ~Reporting("main")
        => scm.state = "STOPPED"
===============================================================================
