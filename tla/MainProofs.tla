------------------------------ MODULE MainProofs ------------------------------
(***************************************************************************)
(* Proofs about the main programs.  Daemon, Posix: for any number of       *)
(* starts, in the foreground or as daemons.  WinService, Windows: for any  *)
(* number of interrogations.  Startup: for any command lines, any files at *)
(* any places, and whatever an uninitialised field holds.                  *)
(***************************************************************************)
EXTENDS Daemon, WinService, Startup, TLAPS

-------------------------------------------------------------------------------
(***************************************************************************)
(* The daemon.                                                             *)
(***************************************************************************)

(* The daemons that have passed the test of the pid file. *)
Owns(p) ==
    /\ p \notin Foreground
    /\ pc[p] \in {"daemonize", "create", "write", "start", "remove"} \cup Serving

OneStarts == \A p, q \in Proc : pc[p] \in Starting /\ pc[q] \in Starting => p = q

OneOwns == \A p, q \in Proc : Owns(p) /\ Owns(q) => p = q

(* From its first byte to its removal the pid file is the owner's. *)
OwnersFile ==
    \A p \in Proc :
        /\ Owns(p) /\ pc[p] = "write" => opened[p] = removed /\ pidFile # "none"
        /\ Owns(p) /\ pc[p] \in {"start", "remove"} \cup Serving => pidFile = p

ForegroundSkips ==
    \A p \in Foreground :
        pc[p] \notin {"check", "lock", "refusing", "daemonize", "create",
                      "write", "remove"}

SerialInv ==
    /\ TypeOK
    /\ ForegroundSkips
    /\ ~overlapped => OneStarts /\ OneOwns /\ OwnersFile

(* A pid file that exists belongs to a daemon on its way, or to one that   *)
(* came to a bad end.                                                      *)
FileAccounted ==
    pidFile # "none" =>
        \E p \in Proc :
            \/ pc[p] \in {"failed", "killed"}
            \/ /\ p \notin Foreground
               /\ pc[p] \in {"write", "start", "remove"} \cup Serving

-------------------------------------------------------------------------------
LEMMA InitSerialInv == Init => SerialInv
<1> SUFFICES ASSUME Init PROVE SerialInv
  OBVIOUS
<1>1. TypeOK
  <2>1. overlapped \in BOOLEAN
    BY DEF Init
  <2> QED
    BY <2>1 DEF Init, TypeOK, Where
<1>2. ForegroundSkips /\ OneStarts /\ OneOwns /\ OwnersFile
  BY DaemonAssumption
     DEF Init, ForegroundSkips, OneStarts, OneOwns, Owns, OwnersFile,
         Starting, Serving
<1> QED
  BY <1>1, <1>2 DEF SerialInv

LEMMA NextTypeOK == TypeOK /\ [Next]_vars => TypeOK'
<1> SUFFICES ASSUME TypeOK, [Next]_vars PROVE TypeOK'
  OBVIOUS
<1> USE DaemonAssumption DEF TypeOK, Go, Exit, Where, Starting, Serving, Ended
<1>1. ASSUME NEW p \in Proc, Launch(p) PROVE TypeOK'
  BY <1>1 DEF Launch
<1>2. ASSUME NEW p \in Proc, CheckPidFile(p) PROVE TypeOK'
  BY <1>2 DEF CheckPidFile
<1>3. ASSUME NEW p \in Proc, TryLock(p) PROVE TypeOK'
  BY <1>3 DEF TryLock
<1>4. ASSUME NEW p \in Proc, Refuse(p) PROVE TypeOK'
  BY <1>4 DEF Refuse
<1>5. ASSUME NEW p \in Proc, Daemonize(p) PROVE TypeOK'
  BY <1>5 DEF Daemonize
<1>6. ASSUME NEW p \in Proc, CreatePidFile(p) PROVE TypeOK'
  BY <1>6 DEF CreatePidFile
<1>7. ASSUME NEW p \in Proc, WritePid(p) PROVE TypeOK'
  BY <1>7 DEF WritePid
<1>8. ASSUME NEW p \in Proc, StartServer(p) PROVE TypeOK'
  BY <1>8 DEF StartServer
<1>9. ASSUME NEW p \in Proc, BlockSignals(p) \/ Terminate(p) PROVE TypeOK'
  BY <1>9 DEF BlockSignals, Terminate
<1>10. ASSUME NEW p \in Proc, StopServer(p) PROVE TypeOK'
  BY <1>10 DEF StopServer
<1>11. ASSUME NEW p \in Proc, DeleteFile(p) PROVE TypeOK'
  BY <1>11 DEF DeleteFile
<1>12. ASSUME NEW p \in Proc, Kill(p) PROVE TypeOK'
  BY <1>12 DEF Kill
<1>13. CASE UNCHANGED vars
  BY <1>13 DEF vars
<1> QED
  BY <1>1, <1>2, <1>3, <1>4, <1>5, <1>6, <1>7, <1>8, <1>9, <1>10, <1>11, <1>12,
     <1>13 DEF Next

LEMMA NextForeground ==
    TypeOK /\ ForegroundSkips /\ [Next]_vars => ForegroundSkips'
<1> USE DaemonAssumption
        DEF TypeOK, ForegroundSkips, Go, Exit, Starting, Serving, Where, Ended
<1>1. ASSUME TypeOK, ForegroundSkips, NEW p \in Proc,
             \/ Launch(p) \/ CheckPidFile(p) \/ TryLock(p) \/ Refuse(p)
             \/ Daemonize(p) \/ CreatePidFile(p) \/ WritePid(p)
             \/ StartServer(p) \/ BlockSignals(p)
             \/ Terminate(p) \/ StopServer(p) \/ DeleteFile(p) \/ Kill(p)
      PROVE  ForegroundSkips'
  BY <1>1 DEF Launch, CheckPidFile, TryLock, Refuse, Daemonize, CreatePidFile,
              WritePid, StartServer, BlockSignals, Terminate, StopServer,
              DeleteFile, Kill
<1>2. ASSUME ForegroundSkips, UNCHANGED vars PROVE ForegroundSkips'
  BY <1>2 DEF vars
<1> QED
  BY <1>1, <1>2 DEF Next

-------------------------------------------------------------------------------
(* What starts that do not overlap keep true. *)
Turns == OneStarts /\ OneOwns /\ OwnersFile

(* The pid file of the one owner keeps every other start from becoming a   *)
(* second one.                                                             *)
LEMMA NextTurns ==
    TypeOK /\ ForegroundSkips /\ (~overlapped => Turns) /\ [Next]_vars
        => (~overlapped => Turns)'
<1>0. ~overlapped' /\ [Next]_vars => ~overlapped
  BY DEF Next, vars, Launch, CheckPidFile, TryLock, Refuse, Daemonize,
         CreatePidFile, WritePid, StartServer, BlockSignals, Terminate,
         StopServer, DeleteFile, Kill
<1> SUFFICES ASSUME TypeOK, ForegroundSkips, Turns, ~overlapped', [Next]_vars
             PROVE  Turns'
  BY <1>0
<1> USE DaemonAssumption
        DEF TypeOK, ForegroundSkips, Turns, OneStarts, OneOwns, OwnersFile, Owns,
            Go, Exit, Starting, Serving
<1>1. ASSUME NEW p \in Proc, Launch(p) PROVE Turns'
  <2>1. \A q \in Proc : pc[q] \notin Starting
    <3>1. overlapped' <=> (overlapped \/ \E q \in Proc : pc[q] \in Starting)
      BY <1>1 DEF Launch
    <3> QED
      BY <3>1, Zenon
  <2>2. pc[p] = "none" /\ UNCHANGED <<pidFile, removed, opened>>
    BY <1>1 DEF Launch
  <2>3. \/ pc' = [pc EXCEPT ![p] = "start"] /\ p \in Foreground
        \/ pc' = [pc EXCEPT ![p] = "check"]
        \/ pc' = [pc EXCEPT ![p] = "left"]
    BY <1>1 DEF Launch
  <2> QED
    BY <2>1, <2>2, <2>3
<1>2. ASSUME NEW p \in Proc, CheckPidFile(p) PROVE Turns'
  BY <1>2 DEF CheckPidFile
<1>3. ASSUME NEW p \in Proc, TryLock(p) PROVE Turns'
  BY <1>3 DEF TryLock
<1>4. ASSUME NEW p \in Proc, Refuse(p) PROVE Turns'
  BY <1>4 DEF Refuse
<1>5. ASSUME NEW p \in Proc, Daemonize(p) PROVE Turns'
  BY <1>5 DEF Daemonize
<1>6. ASSUME NEW p \in Proc, CreatePidFile(p) PROVE Turns'
  BY <1>6 DEF CreatePidFile
<1>7. ASSUME NEW p \in Proc, WritePid(p) PROVE Turns'
  BY <1>7 DEF WritePid
<1>8. ASSUME NEW p \in Proc, StartServer(p) PROVE Turns'
  BY <1>8 DEF StartServer
<1>9. ASSUME NEW p \in Proc, BlockSignals(p) PROVE Turns'
  BY <1>9 DEF BlockSignals
<1>10. ASSUME NEW p \in Proc, Terminate(p) PROVE Turns'
  BY <1>10 DEF Terminate
<1>11. ASSUME NEW p \in Proc, StopServer(p) PROVE Turns'
  BY <1>11 DEF StopServer
<1>12. ASSUME NEW p \in Proc, DeleteFile(p) PROVE Turns'
  BY <1>12 DEF DeleteFile
<1>13. ASSUME NEW p \in Proc, Kill(p) PROVE Turns'
  BY <1>13 DEF Kill
<1>14. CASE UNCHANGED vars
  BY <1>14 DEF vars
<1> QED
  BY <1>1, <1>2, <1>3, <1>4, <1>5, <1>6, <1>7,
     <1>8, <1>9, <1>10, <1>11, <1>12, <1>13, <1>14 DEF Next

LEMMA NextFileAccounted ==
    TypeOK /\ ForegroundSkips /\ FileAccounted /\ [Next]_vars => FileAccounted'
<1> SUFFICES ASSUME TypeOK, ForegroundSkips, FileAccounted, [Next]_vars
             PROVE  FileAccounted'
  OBVIOUS
<1> USE DaemonAssumption
        DEF TypeOK, ForegroundSkips, FileAccounted, Go, Exit, Starting, Serving
<1>1. ASSUME NEW p \in Proc, Launch(p) PROVE FileAccounted'
  BY <1>1 DEF Launch
<1>2. ASSUME NEW p \in Proc, CheckPidFile(p) PROVE FileAccounted'
  BY <1>2 DEF CheckPidFile
<1>3. ASSUME NEW p \in Proc, TryLock(p) PROVE FileAccounted'
  BY <1>3 DEF TryLock
<1>4. ASSUME NEW p \in Proc, Refuse(p) PROVE FileAccounted'
  BY <1>4 DEF Refuse
<1>5. ASSUME NEW p \in Proc, Daemonize(p) PROVE FileAccounted'
  BY <1>5 DEF Daemonize
<1>6. ASSUME NEW p \in Proc, CreatePidFile(p) PROVE FileAccounted'
  BY <1>6 DEF CreatePidFile
<1>7. ASSUME NEW p \in Proc, WritePid(p) PROVE FileAccounted'
  BY <1>7 DEF WritePid
<1>8. ASSUME NEW p \in Proc, StartServer(p) PROVE FileAccounted'
  BY <1>8 DEF StartServer
<1>9. ASSUME NEW p \in Proc, BlockSignals(p) PROVE FileAccounted'
  BY <1>9 DEF BlockSignals
<1>10. ASSUME NEW p \in Proc, Terminate(p) PROVE FileAccounted'
  BY <1>10 DEF Terminate
<1>11. ASSUME NEW p \in Proc, StopServer(p) PROVE FileAccounted'
  BY <1>11 DEF StopServer
<1>12. ASSUME NEW p \in Proc, DeleteFile(p) PROVE FileAccounted'
  BY <1>12 DEF DeleteFile
<1>13. ASSUME NEW p \in Proc, Kill(p) PROVE FileAccounted'
  BY <1>13 DEF Kill
<1>14. CASE UNCHANGED vars
  BY <1>14 DEF vars
<1> QED
  BY <1>1, <1>2, <1>3, <1>4, <1>5, <1>6, <1>7,
     <1>8, <1>9, <1>10, <1>11, <1>12, <1>13, <1>14 DEF Next

-------------------------------------------------------------------------------
(* The inductive invariant of the daemon. *)
THEOREM DaemonInvariant == Spec => [](SerialInv /\ FileAccounted)
<1>1. Init => FileAccounted
  BY DEF Init, FileAccounted
<1>2. SerialInv /\ FileAccounted /\ [Next]_vars => (SerialInv /\ FileAccounted)'
  BY NextTypeOK, NextForeground, NextTurns, NextFileAccounted DEF SerialInv, Turns
<1> QED
  BY <1>1, <1>2, InitSerialInv, PTL DEF Spec

(* If starts do not overlap the pid file names the daemon that serves.     *)
THEOREM PidFileIsTrue == Spec => []PidFileNamesDaemon
<1>1. SerialInv => PidFileNamesDaemon
  BY DEF SerialInv, OwnersFile, Owns, PidFileNamesDaemon
<1> QED
  BY <1>1, DaemonInvariant, PTL

(* Processes that all ended in order leave no pid file. *)
THEOREM CleanStopIsClean == Spec => []CleanStopLeavesNoFile
<1>1. FileAccounted => CleanStopLeavesNoFile
  BY DEF FileAccounted, CleanStopLeavesNoFile, Serving
<1> QED
  BY <1>1, DaemonInvariant, PTL

-------------------------------------------------------------------------------
(***************************************************************************)
(* The Windows service.  Two threads report through one serviceStatus, and *)
(* nothing orders their reports.  Unless the service is interrogated while *)
(* it starts, though, the handler has nothing to report before the SCM was *)
(* told that the service runs, so that what main sends is what it filled   *)
(* in; and afterwards both report the same, until a stop.                  *)
(***************************************************************************)
NotYetRunning ==
    \/ main \in {"configure", "begin", "event", "server", "up"}
    \/ main = "wait" /\ Reporting("main")
    \/ main \in {"down", "gone"} /\ server = "none"

(* What service_main() has at hand at each place, and what it reports.     *)
MainInPlace ==
    /\ main \in {"configure", "begin", "event", "server"} => server = "none"
    /\ main \in {"up", "wait"} => server = "running"
    /\ main = "stopping" => server = "stopping"
    /\ main \in {"down", "gone"} => server \in {"none", "stopping"}
    /\ main = "server" \/ server # "none" => event # "none"
    /\ Reporting("main") =>
          \/ main = "event" /\ report["main"].state = "START_PENDING"
          \/ main = "wait" /\ report["main"].state = "RUNNING"
          \/ main = "down" /\ server = "stopping"
          \/ main = "gone" /\ report["main"].state = "STOPPED"

UndisturbedStart ==
    ~early /\ NotYetRunning =>
        /\ handler = "idle" /\ ~Reporting("handler") /\ ~stopAsked
        /\ \/ scm.state = "START_PENDING" /\ ~scm.accepts
           \/ main = "gone" /\ scm.state = "STOPPED"
        /\ report["main"].step = "adjust" =>
              status.state = report["main"].state /\ status.accepts
        /\ report["main"].step = "send" =>
              /\ status.state = report["main"].state
              /\ status.accepts <=> report["main"].state # "START_PENDING"

UndisturbedService ==
    ~early /\ ~stopAsked /\ main = "wait" /\ ~Reporting("main") =>
        /\ scm.state = "RUNNING" /\ scm.accepts
        /\ status.state = "RUNNING" /\ status.accepts
        /\ handler # "signal"
        /\ Reporting("handler") => report["handler"].state = "RUNNING"

(* Once serviceCtrlFunction() has dealt with it, a stop has set the event. *)
StopIsKept == stopAsked /\ ~early /\ handler # "signal" => event = "set"

ServiceInv ==
    /\ ServiceTypeOK
    /\ MainInPlace
    /\ UndisturbedStart
    /\ UndisturbedService
    /\ StopIsKept

LEMMA InitServiceInv == ServiceInit => ServiceInv
<1> SUFFICES ASSUME ServiceInit PROVE ServiceInv
  OBVIOUS
<1>1. ServiceTypeOK
  <2>1. stopAsked \in BOOLEAN /\ early \in BOOLEAN
    BY DEF ServiceInit
  <2>2. status \in Status /\ scm \in Status
    BY DEF ServiceInit, Status, ServiceState
  <2> QED
    BY <2>1, <2>2, ServiceAssumption
       DEF ServiceInit, ServiceTypeOK, Thread, ServiceState, NoReport
<1>2. ~Reporting("main") /\ ~Reporting("handler")
  BY DEF ServiceInit, Reporting, Thread, NoReport
<1>3. report["main"].step = "none"
  BY DEF ServiceInit, Thread, NoReport
<1>4. MainInPlace
  BY <1>2 DEF ServiceInit, MainInPlace
<1>5. UndisturbedStart
  BY <1>2, <1>3 DEF ServiceInit, UndisturbedStart
<1>6. UndisturbedService /\ StopIsKept
  BY DEF ServiceInit, UndisturbedService, StopIsKept
<1> QED
  BY <1>1, <1>4, <1>5, <1>6 DEF ServiceInv

LEMMA NextServiceType == ServiceTypeOK /\ [ServiceNext]_serviceVars => ServiceTypeOK'
<1> SUFFICES ASSUME ServiceTypeOK, [ServiceNext]_serviceVars PROVE ServiceTypeOK'
  OBVIOUS
<1> USE DEF ServiceTypeOK, asked, Thread, ServiceState, Status, NoReport
<1>1. ASSUME NEW t \in Thread, Fill(t) \/ Adjust(t) \/ Send(t) PROVE ServiceTypeOK'
  <2>1. CASE Fill(t)
    BY <2>1 DEF Fill, Advance
  <2>2. CASE Adjust(t)
    <3>1. (status.accepts /\ report[t].state # "START_PENDING") \in BOOLEAN
      OBVIOUS
    <3>2. status' \in Status
      BY <2>2, <3>1 DEF Adjust
    <3> QED
      BY <2>2, <3>2 DEF Adjust, Advance
  <2>3. CASE Send(t)
    BY <2>3 DEF Send
  <2> QED
    BY <1>1, <2>1, <2>2, <2>3
<1>2. CASE DeliverStop
  BY <1>2 DEF DeliverStop, Calls
<1>3. CASE DeliverInterrogate
  BY <1>3, ServiceAssumption DEF DeliverInterrogate
<1>4. CASE Signal
  BY <1>4 DEF Signal
<1>5. CASE ReportAgain
  BY <1>5 DEF ReportAgain, Calls
<1>6. CASE Configure \/ CreateStopEvent \/ StartService \/ StopService
  BY <1>6 DEF Configure, CreateStopEvent, StartService, StopService, Step
<1>7. CASE Begin \/ Up \/ Stopping \/ Down
  BY <1>7 DEF Begin, Up, Stopping, Down, Tell, Step, Calls
<1>8. CASE UNCHANGED serviceVars
  BY <1>8 DEF serviceVars
<1> QED
  BY <1>1, <1>2, <1>3, <1>4, <1>5, <1>6, <1>7, <1>8 DEF ServiceNext

(* A step of a report, of either thread. *)
LEMMA ReportKeepsServiceInv ==
    ASSUME ServiceInv, ServiceTypeOK', NEW t \in Thread,
           Fill(t) \/ Adjust(t) \/ Send(t)
    PROVE  ServiceInv'
<1> USE DEF ServiceInv, Reporting
<1>1. /\ UNCHANGED <<main, handler, event, server, stopAsked, early>>
      /\ t \in {"main", "handler"}
      /\ \A u \in Thread \ {t} : report'[u] = report[u]
      /\ report[t].step # "none"
  BY DEF Fill, Adjust, Send, Advance, asked, Thread, ServiceTypeOK
<1>2. CASE Fill(t)
  <2>1. /\ report'[t].step = "adjust" /\ report'[t].state = report[t].state
        /\ status' = [state |-> report[t].state, accepts |-> TRUE]
        /\ scm' = scm /\ report[t].step = "fill"
    BY <1>2 DEF Fill, Advance, ServiceTypeOK
  <2> QED
    BY <1>1, <2>1
       DEF Thread, MainInPlace, UndisturbedStart, UndisturbedService, StopIsKept,
           NotYetRunning
<1>3. CASE Adjust(t)
  <2>1. /\ report'[t].step = "send" /\ report'[t].state = report[t].state
        /\ status' = [status EXCEPT
               !.accepts = status.accepts /\ report[t].state # "START_PENDING"]
        /\ scm' = scm /\ report[t].step = "adjust"
    BY <1>3 DEF Adjust, Advance, ServiceTypeOK
  <2>2. /\ status'.state = status.state
        /\ status'.accepts <=> status.accepts /\ report[t].state # "START_PENDING"
    BY <2>1 DEF ServiceTypeOK, Status
  <2> QED
    BY <1>1, <2>1, <2>2
       DEF Thread, MainInPlace, UndisturbedStart, UndisturbedService, StopIsKept,
           NotYetRunning
<1>4. CASE Send(t)
  <2>1. /\ report'[t].step = "none"
        /\ status' = status /\ report[t].step = "send"
        /\ scm' = IF scm.state = "STOPPED" \/ status.state = "none" THEN scm ELSE status
    BY <1>4 DEF Send, NoReport, ServiceTypeOK
  <2>2. MainInPlace' /\ StopIsKept'
    BY <1>1, <2>1 DEF Thread, MainInPlace, StopIsKept
  <2>3. CASE t = "handler"
    <3>1. report'["main"] = report["main"]
      BY <1>1, <2>3 DEF Thread
    <3> QED
      BY <1>1, <2>1, <2>2, <2>3, <3>1
         DEF UndisturbedStart, UndisturbedService, NotYetRunning
  <2>4. CASE t = "main"
    <3>1. report'["handler"] = report["handler"]
      BY <1>1, <2>4 DEF Thread
    <3>2. UndisturbedStart'
      BY <1>1, <2>1, <2>4, <3>1
         DEF MainInPlace, UndisturbedStart, NotYetRunning
    <3>3. UndisturbedService'
      BY <1>1, <2>1, <2>4, <3>1
         DEF MainInPlace, UndisturbedStart, UndisturbedService, NotYetRunning
    <3> QED
      BY <2>2, <3>2, <3>3
  <2> QED
    BY <1>1, <2>3, <2>4
<1> QED
  BY <1>2, <1>3, <1>4

(* What the SCM sends, and what serviceCtrlFunction() makes of it. *)
LEMMA HandlerKeepsServiceInv ==
    ASSUME ServiceInv, ServiceTypeOK',
           DeliverStop \/ DeliverInterrogate \/ Signal \/ ReportAgain
    PROVE  ServiceInv'
<1> USE DEF ServiceInv, Reporting
<1>1. /\ UNCHANGED <<main, status, scm, server>>
      /\ report'["main"] = report["main"]
  BY DEF DeliverStop, DeliverInterrogate, Signal, ReportAgain, Calls, asked,
         Thread, ServiceTypeOK
<1>2. CASE DeliverStop
  <2>1. ~early /\ NotYetRunning => FALSE
    BY <1>2 DEF DeliverStop, UndisturbedStart
  <2> QED
    BY <1>1, <1>2, <2>1
       DEF DeliverStop, MainInPlace, UndisturbedStart, UndisturbedService, StopIsKept,
           NotYetRunning
<1>3. CASE DeliverInterrogate
  <2>1. NotYetRunning /\ ~early => scm.state = "START_PENDING"
    BY <1>3 DEF DeliverInterrogate, UndisturbedStart
  <2>2. early \/ scm.state = "START_PENDING" => early'
    BY <1>3 DEF DeliverInterrogate
  <2> QED
    BY <1>1, <1>3, <2>1, <2>2
       DEF DeliverInterrogate, MainInPlace, UndisturbedStart, UndisturbedService,
           StopIsKept, NotYetRunning
<1>4. CASE Signal
  <2>1. ~early => ~NotYetRunning
    BY <1>4 DEF Signal, UndisturbedStart
  <2>2. ~NotYetRunning => event # "none"
    BY DEF NotYetRunning, MainInPlace, ServiceTypeOK
  <2> QED
    BY <1>1, <1>4, <2>1, <2>2
       DEF Signal, asked, MainInPlace, UndisturbedStart, UndisturbedService, StopIsKept,
           NotYetRunning
<1>5. CASE ReportAgain
  <2>1. ~early => ~NotYetRunning
    BY <1>5 DEF ReportAgain, UndisturbedStart
  <2>2. report'["handler"].state = status.state
    BY <1>5 DEF ReportAgain, Calls, Thread, ServiceTypeOK
  <2> QED
    BY <1>1, <1>5, <2>1, <2>2
       DEF ReportAgain, asked, MainInPlace, UndisturbedStart, UndisturbedService,
           StopIsKept, NotYetRunning
<1> QED
  BY <1>2, <1>3, <1>4, <1>5

(* A step of service_main().                                               *)
LEMMA MainKeepsServiceInv ==
    ASSUME ServiceInv, ServiceTypeOK',
           \/ Configure \/ Begin \/ CreateStopEvent \/ StartService
           \/ Up \/ StopService \/ Stopping \/ Down
    PROVE  ServiceInv'
<1> USE DEF ServiceInv, Reporting
<1>1. /\ UNCHANGED <<handler, status, scm, stopAsked, early>>
      /\ report["main"].step = "none"
      /\ report'["handler"] = report["handler"]
  BY DEF Configure, Begin, CreateStopEvent, StartService, Up, StopService, Stopping,
         Down, Tell, Step, At, Calls, asked, Thread, ServiceTypeOK
<1>2. CASE Configure \/ CreateStopEvent \/ StartService
  BY <1>1, <1>2
     DEF Configure, CreateStopEvent, StartService, Step, At, MainInPlace,
         UndisturbedStart, UndisturbedService, StopIsKept, NotYetRunning
<1>3. CASE StopService
  BY <1>1, <1>3
     DEF StopService, Step, At, MainInPlace,
         UndisturbedStart, UndisturbedService, StopIsKept, NotYetRunning
<1>4. CASE Begin \/ Up \/ Stopping \/ Down
  <2>1. report'["main"] \in {[step |-> "fill", state |-> s] :
                                s \in {"START_PENDING", "RUNNING", "STOP_PENDING", "STOPPED"}}
    BY <1>4 DEF Begin, Up, Stopping, Down, Tell, Calls, Thread, ServiceTypeOK
  <2>2. CASE Begin
    BY <1>1, <2>2 DEF Begin, Tell, Step, At, Calls, Thread, ServiceTypeOK, MainInPlace,
         UndisturbedStart, UndisturbedService, StopIsKept, NotYetRunning
  <2>3. CASE Up
    BY <1>1, <2>3 DEF Up, Tell, Step, At, Calls, Thread, ServiceTypeOK, MainInPlace,
         UndisturbedStart, UndisturbedService, StopIsKept, NotYetRunning
  <2>4. CASE Stopping
    BY <1>1, <2>4 DEF Stopping, Tell, Step, At, Calls, Thread, ServiceTypeOK, MainInPlace,
         UndisturbedStart, UndisturbedService, StopIsKept, NotYetRunning
  <2>5. CASE Down
    BY <1>1, <2>5 DEF Down, Tell, Step, At, Calls, Thread, ServiceTypeOK, MainInPlace,
         UndisturbedStart, UndisturbedService, StopIsKept, NotYetRunning
  <2> QED
    BY <1>4, <2>2, <2>3, <2>4, <2>5
<1> QED
  BY <1>2, <1>3, <1>4

LEMMA ServiceInvariant == ServiceSpec => []ServiceInv
<1>1. ServiceInv /\ [ServiceNext]_serviceVars => ServiceInv'
  <2> SUFFICES ASSUME ServiceInv, [ServiceNext]_serviceVars PROVE ServiceInv'
    OBVIOUS
  <2>1. ServiceTypeOK'
    BY NextServiceType DEF ServiceInv
  <2>2. CASE UNCHANGED serviceVars
    BY <2>2
       DEF serviceVars, asked, ServiceInv, ServiceTypeOK, MainInPlace, UndisturbedStart,
           UndisturbedService, StopIsKept, NotYetRunning, Reporting
  <2> QED
    BY <2>1, <2>2, ReportKeepsServiceInv, HandlerKeepsServiceInv, MainKeepsServiceInv
       DEF ServiceNext
<1> QED
  BY <1>1, InitServiceInv, PTL DEF ServiceSpec

(* Every variable of the service keeps its type. *)
THEOREM ServiceTypeCorrect == ServiceSpec => []ServiceTypeOK
<1>1. ServiceInv => ServiceTypeOK
  BY DEF ServiceInv
<1> QED
  BY <1>1, ServiceInvariant, PTL

(* However many interrogations there are, a service that waits for its end *)
(* is known to run and to accept a stop.                                   *)
THEOREM ServiceCanBeStopped == ServiceSpec => []CanBeStopped
<1>1. ServiceInv => CanBeStopped
  <2>1. ServiceTypeOK /\ scm.accepts => scm = [state |-> scm.state, accepts |-> TRUE]
    BY DEF ServiceTypeOK, Status
  <2> QED
    BY <2>1 DEF ServiceInv, UndisturbedService, CanBeStopped
<1> QED
  BY <1>1, ServiceInvariant, PTL

(* The safe half of StopStopsServer: when serviceCtrlFunction() has dealt  *)
(* with a stop, the event service_main() waits for is set, and stays so.   *)
THEOREM StopSignalIsKept == ServiceSpec => []StopIsKept
<1>1. ServiceInv => StopIsKept
  BY DEF ServiceInv
<1> QED
  BY <1>1, ServiceInvariant, PTL

-------------------------------------------------------------------------------
(***************************************************************************)
(* The start: from the command line and the file to the server.            *)
(***************************************************************************)

(* A configuration comes from the file that was chosen, and nothing of it  *)
(* changes but that a service without a service manager is in the          *)
(* foreground.                                                             *)
IsRead ==
    \/ phase \in {"command", "daemon", "service", "console", "running"}
    \/ answer = "Configuration OK"

FromFile ==
    IsRead => \E c \in Parsed : \E a \in ApplicationConfigurations(line, build, c) :
                 config = [a EXCEPT !.foreground = config.foreground]

(* Who gets where. *)
WayThere ==
    /\ phase = "command" => config.foreground = InForeground(line, build)
    /\ phase = "daemon" =>
          /\ build = "posix" /\ Command(line) = "default"
          /\ ~config.foreground /\ config.foreground = InForeground(line, build)
    /\ phase = "service" =>
          build = "windows" /\ Command(line) = "service" /\ ~config.foreground
    /\ phase = "console" =>
          build = "windows" /\ Command(line) = "service" /\ config.foreground
    /\ phase = "running" =>
          \/ Command(line) = "service" /\ build = "windows"
          \/ Command(line) = "default" /\ config.foreground = InForeground(line, build)

OnConsole == log.level.console = config.log.console.level

Silent == log.level.system = UndefinedLevel /\ ~log.fileOpen

InLogs ==
    /\ log.level.file = config.log.file.level
    /\ log.level.system = config.log.system.level

(* Every log is silent, or has the level of the configuration: the console *)
(* on Posix at once, the others where their log is opened.                 *)
LogsFollow ==
    /\ phase \in {"arguments", "file", "command", "service", "console"} => Silent
    /\ phase \in {"command", "daemon"} /\ build = "posix" => OnConsole
    /\ phase = "daemon" => log.level.system = config.log.system.level /\ ~log.fileOpen
    /\ phase = "running" =>
          /\ Command(line) = "default" \/ config.foreground => OnConsole
          /\ IF config.foreground THEN Silent ELSE InLogs

StartupInv == StartupTypeOK /\ FromFile /\ WayThere /\ LogsFollow

(* What a name of a level stands for. *)
LEMMA LevelOfName ==
    /\ UndefinedLevel = 11 /\ Level = 0..11
    /\ \A text : Str2LogLevel(text) \in Level
    /\ Str2LogLevel("WARNING") = 5
<1>1. UndefinedLevel = 11 /\ Level = 0..11
  BY DEF UndefinedLevel, LevelNames, Level
<1>2. ASSUME NEW text PROVE Str2LogLevel(text) \in Level
  <2>1. CASE Contains(LevelNames, text)
    <3>1. PICK i \in 1..11 : LevelNames[i] = text
      BY <1>1, <2>1 DEF Contains, UndefinedLevel
    <3>2. i - 1 \in Level \ {UndefinedLevel} /\ LevelNames[(i - 1) + 1] = text
      BY <1>1, <3>1
    <3>3. \E l \in Level \ {UndefinedLevel} : LevelNames[l + 1] = text
      BY <3>2
    <3> QED
      BY <2>1, <3>3 DEF Str2LogLevel
  <2>2. CASE ~ Contains(LevelNames, text)
    BY <1>1, <2>2 DEF Str2LogLevel
  <2> QED
    BY <2>1, <2>2
<1>3. Str2LogLevel("WARNING") = 5
  <2>1. LevelNames[6] = "WARNING" /\ Len(LevelNames) = 11
    BY DEF LevelNames
  <2>2. Contains(LevelNames, "WARNING")
    BY <2>1 DEF Contains
  <2>3. \A l \in 0..10 : LevelNames[l + 1] = "WARNING" => l = 5
    BY DEF LevelNames
  <2>4. 5 \in Level \ {UndefinedLevel}
    BY <1>1
  <2>5. \A l \in Level \ {UndefinedLevel} : LevelNames[l + 1] = "WARNING" <=> l = 5
    BY <1>1, <2>1, <2>3
  <2> QED
    BY <2>2, <2>4, <2>5 DEF Str2LogLevel
<1> QED
  BY <1>1, <1>2, <1>3

(* What a file yields that was parsed. *)
LEMMA ParsedFile ==
    ASSUME NEW c \in Parsed
    PROVE  /\ HasFile /\ ~ BadFile(Written, build)
           /\ c.endpoints = [i \in DOMAIN Written.listen |-> Endpoint(Written.listen[i])]
           /\ c.facility \in ToSet(FacilityNames) \cup {"UNDEFINED"}
           /\ c.log.console \in Setting(Written.stderr, "NOTICE")
           /\ c.log.file \in Setting(Written.logFile, "ERROR")
           /\ c.log.system \in Setting(Sections(Written).system, "NOTICE")
<1>1. HasFile /\ ~ BadFile(Written, build) /\ c \in ParseFile(Written, build)
  BY DEF Parsed
<1>2. /\ c.endpoints = [i \in DOMAIN Written.listen |-> Endpoint(Written.listen[i])]
      /\ c.facility \in IF build = "posix" /\ Written.syslog # "none"
                        THEN {Str2SyslogFacility(Written.facility)} ELSE GarbageFacility
      /\ c.log.console \in Setting(Written.stderr, "NOTICE")
      /\ c.log.file \in Setting(Written.logFile, "ERROR")
      /\ c.log.system \in Setting(IF build = "posix" THEN Written.syslog
                                  ELSE Written.eventlog, "NOTICE")
  BY <1>1 DEF ParseFile
<1>3. c.facility \in ToSet(FacilityNames) \cup {"UNDEFINED"}
  <2>1. Str2SyslogFacility(Written.facility) \in ToSet(FacilityNames) \cup {"UNDEFINED"}
    BY DEF Str2SyslogFacility, Contains, ToSet
  <2> QED
    BY <1>2, <2>1, GarbageAssumption
<1> QED
  BY <1>1, <1>2, <1>3 DEF Sections

(* And what the server is given of it. *)
LEMMA ConfiguredFile ==
    ASSUME NEW c, NEW a \in ApplicationConfigurations(line, build, c)
    PROVE  /\ a = [a EXCEPT !.foreground = InForeground(line, build)]
           /\ a.foreground = InForeground(line, build)
           /\ a.endpoints = c.endpoints
           /\ a.facility = c.facility
           /\ a.log \in LogConfiguration(line, build, c)
BY DEF ApplicationConfigurations

LEMMA SettingType ==
    ASSUME NEW section, NEW default, NEW s \in Setting(section, default)
    PROVE  /\ s.level \in Level
           /\ section # "none" => s.level = SectionLevel(section, default)
<1>1. CASE section = "none"
  BY <1>1, GarbageAssumption DEF Setting
<1>2. CASE section # "none"
  BY <1>2, LevelOfName DEF Setting, SectionLevel
<1> QED
  BY <1>1, <1>2

LEMMA LogConfigured ==
    ASSUME NEW c \in Parsed, NEW l \in LogConfiguration(line, build, c)
    PROVE  /\ l.console.level \in Level /\ l.file.level \in Level /\ l.system.level \in Level
           /\ InForeground(line, build) => l.console.level = DebugLevel(line)
           /\ ~ InForeground(line, build) =>
                 /\ l.console.level = c.log.console.level
                 /\ l.file.level = c.log.file.level
                 /\ l.system.level = c.log.system.level
<1>1. /\ c.log.console.level \in Level /\ c.log.file.level \in Level
      /\ c.log.system.level \in Level
  BY ParsedFile, SettingType
<1>2. DebugLevel(line) \in Level
  BY LevelOfName DEF DebugLevel
<1>3. CASE InForeground(line, build)
  <2>1. l.console.level = DebugLevel(line)
    BY <1>3 DEF LogConfiguration
  <2>2. l.file \in Off /\ (l.system \in Off \/ l.system.level = c.log.system.level)
    BY <1>3 DEF LogConfiguration
  <2>3. \A o \in Off : o.level \in Level
    BY GarbageAssumption DEF Off
  <2> QED
    BY <1>1, <1>2, <1>3, <2>1, <2>2, <2>3
<1>4. CASE ~ InForeground(line, build)
  BY <1>1, <1>4 DEF LogConfiguration
<1> QED
  BY <1>3, <1>4

LEMMA FacilityType ==
    ASSUME NEW f \in ToSet(FacilityNames) \cup {"UNDEFINED"}
    PROVE  SyslogFacility(f) \in ToSet(FacilityNames)
<1>1. FacilityNames[4] = "DAEMON" /\ FacilityNames[5] = "AUTH" /\ {4, 5} \subseteq DOMAIN FacilityNames
  BY DEF FacilityNames
<1>2. {"DAEMON", "AUTH"} \subseteq ToSet(FacilityNames)
  BY <1>1 DEF ToSet
<1> QED
  BY <1>2 DEF SyslogFacility

(* The configuration in use, wherever there is one. *)
LEMMA ConfigInUse ==
    ASSUME FromFile, IsRead
    PROVE  /\ \E c \in Parsed :
                 /\ config.endpoints = c.endpoints
                 /\ ~ InForeground(line, build) =>
                       /\ config.log.console.level = c.log.console.level
                       /\ config.log.file.level = c.log.file.level
                       /\ config.log.system.level = c.log.system.level
           /\ InForeground(line, build) => config.log.console.level = DebugLevel(line)
           /\ config.log.console.level \in Level
           /\ config.log.file.level \in Level
           /\ config.log.system.level \in Level
           /\ config.facility \in ToSet(FacilityNames) \cup {"UNDEFINED"}
<1>1. PICK c \in Parsed : \E a \in ApplicationConfigurations(line, build, c) :
                               config = [a EXCEPT !.foreground = config.foreground]
  BY DEF FromFile
<1>2. PICK a \in ApplicationConfigurations(line, build, c) :
               config = [a EXCEPT !.foreground = config.foreground]
  BY <1>1
<1>3. /\ config.endpoints = a.endpoints /\ config.log = a.log
      /\ config.facility = a.facility
  BY <1>2 DEF ApplicationConfigurations
<1>4. /\ a.endpoints = c.endpoints /\ a.facility = c.facility
      /\ a.log \in LogConfiguration(line, build, c)
  BY ConfiguredFile
<1>5. c.facility \in ToSet(FacilityNames) \cup {"UNDEFINED"}
  BY ParsedFile
<1>6. /\ a.log.console.level \in Level /\ a.log.file.level \in Level
      /\ a.log.system.level \in Level
      /\ InForeground(line, build) => a.log.console.level = DebugLevel(line)
      /\ ~ InForeground(line, build) =>
            /\ a.log.console.level = c.log.console.level
            /\ a.log.file.level = c.log.file.level
            /\ a.log.system.level = c.log.system.level
  BY <1>4, LogConfigured
<1> QED
  BY <1>3, <1>4, <1>5, <1>6

(* Any such configuration will do. *)
LEMMA ConfigRead ==
    ASSUME NEW c \in Parsed, config' \in ApplicationConfigurations(line, build, c),
           UNCHANGED <<build, line, disk>>
    PROVE  /\ FromFile'
           /\ config'.foreground = InForeground(line, build)
           /\ config'.log.console.level \in Level
           /\ config'.log.file.level \in Level
           /\ config'.log.system.level \in Level
<1>1. c \in Parsed'
  BY DEF Parsed, HasFile, Written, ConfigFile, ChooseFile
<1>2. /\ config' = [config' EXCEPT !.foreground = config'.foreground]
      /\ config'.foreground = InForeground(line, build)
      /\ config'.log \in LogConfiguration(line, build, c)
  BY ConfiguredFile
<1>3. FromFile'
  BY <1>1, <1>2 DEF FromFile
<1> QED
  BY <1>2, <1>3, LogConfigured

LEMMA InitStartup == StartupInit => StartupInv
<1> SUFFICES ASSUME StartupInit PROVE StartupInv
  OBVIOUS
<1> USE DEF StartupInit
<1>1. "USER" \in ToSet(FacilityNames)
  <2>1. FacilityNames[2] = "USER" /\ 2 \in DOMAIN FacilityNames
    BY DEF FacilityNames
  <2> QED
    BY <2>1 DEF ToSet
<1>2. StartupTypeOK
  <2>1. log \in [level : [console : Level, file : Level, system : Level],
                 fileOpen : BOOLEAN, facility : ToSet(FacilityNames)]
    BY <1>1, LevelOfName DEF LogInit
  <2>2. installed \in [service : BOOLEAN, events : BOOLEAN]
    <3>1. CASE Command(line) \in {"install", "remove"}
      BY <3>1
    <3>2. CASE Command(line) \notin {"install", "remove"}
      <4>1. installed = [service |-> TRUE, events |-> TRUE]
        BY <3>2
      <4> QED
        BY <4>1
    <3> QED
      BY <3>1, <3>2
  <2> QED
    BY <2>1, <2>2 DEF StartupTypeOK, LogType
<1>3. FromFile /\ WayThere
  BY DEF FromFile, IsRead, WayThere
<1>4. LogsFollow
  BY DEF LogInit, LogsFollow, Silent
<1> QED
  BY <1>2, <1>3, <1>4 DEF StartupInv

(* Nothing but the place in the program changes. *)
LEMMA FileKept ==
    ASSUME FromFile, UNCHANGED <<build, line, disk, config>>, IsRead' => IsRead
    PROVE  FromFile'
<1>1. Parsed' = Parsed
  BY DEF Parsed, HasFile, Written, ConfigFile, ChooseFile
<1> QED
  BY <1>1 DEF FromFile

LEMMA NextStartup ==
    ASSUME StartupInv, [StartupNext]_startupVars
    PROVE  StartupInv'
<1> USE DEF StartupInv, StartupTypeOK, Proceed, Leave
<1>1. ASSUME ParseCommandLine PROVE StartupInv'
  <2> USE <1>1 DEF ParseCommandLine
  <2>1. FromFile'
    BY FileKept DEF IsRead
  <2>2. WayThere' /\ LogsFollow' /\ LogType'
    BY DEF WayThere, LogsFollow, LogType, Silent
  <2> QED
    BY <2>1, <2>2
<1>2. ASSUME ReadConfiguration PROVE StartupInv'
  <2>1. CASE phase' = "exit"
    BY <1>2, <2>1
       DEF ReadConfiguration, FromFile, IsRead, WayThere, LogsFollow, LogType
  <2>2. CASE phase' # "exit"
    <3> USE <1>2, <2>2 DEF ReadConfiguration
    <3>1. PICK c \in Parsed : config' \in ApplicationConfigurations(line, build, c)
      BY DEF Configured
    <3>2. /\ FromFile'
          /\ config'.foreground = InForeground(line, build)
          /\ config'.log.console.level \in Level
      BY <3>1, ConfigRead
    <3>3. log' = [log EXCEPT !.level.console = config'.log.console.level]
      BY DEF SetConsoleLevel
    <3>4. LogType'
      BY <3>2, <3>3 DEF LogType
    <3>5. OnConsole' /\ Silent'
      BY <3>3 DEF LogsFollow, OnConsole, Silent, LogType
    <3>6. LogsFollow' /\ WayThere'
      BY <3>2, <3>5 DEF LogsFollow, WayThere, InForeground
    <3> QED
      BY <3>2, <3>4, <3>6
  <2> QED
    BY <2>1, <2>2
<1>3. ASSUME ReadConfigurationOnWindows PROVE StartupInv'
  <2>1. CASE phase' = "exit"
    BY <1>3, <2>1
       DEF ReadConfigurationOnWindows, FromFile, IsRead, WayThere, LogsFollow, LogType
  <2>2. CASE phase' # "exit"
    <3> USE <1>3, <2>2 DEF ReadConfigurationOnWindows
    <3>1. PICK c \in Parsed : config' \in ApplicationConfigurations(line, build, c)
      BY DEF Configured
    <3>2. FromFile' /\ config'.foreground = InForeground(line, build)
      BY <3>1, ConfigRead
    <3>3. LogsFollow' /\ WayThere' /\ LogType'
      BY <3>2 DEF LogsFollow, WayThere, InForeground, Silent, LogType
    <3> QED
      BY <3>2, <3>3
  <2> QED
    BY <2>1, <2>2
<1>4. ASSUME Obey PROVE StartupInv'
  <2> USE <1>4 DEF Obey
  <2>1. FromFile'
    BY FileKept DEF IsRead
  <2>2. WayThere' /\ LogsFollow' /\ LogType'
    BY DEF WayThere, LogsFollow, LogType
  <2> QED
    BY <2>1, <2>2
<1>5. ASSUME Install \/ RemoveService PROVE StartupInv'
  <2>1. /\ phase' = "exit" /\ answer' = "OK"
        /\ UNCHANGED <<build, line, disk, config, log>>
        /\ installed' \in [service : BOOLEAN, events : BOOLEAN]
    BY <1>5 DEF Install, RemoveService
  <2> QED
    BY <2>1 DEF FromFile, IsRead, WayThere, LogsFollow, LogType
<1>6. ASSUME RunInForeground PROVE StartupInv'
  <2> USE <1>6 DEF RunInForeground
  <2>1. FromFile'
    BY FileKept DEF IsRead
  <2>2. WayThere' /\ LogsFollow' /\ LogType'
    BY DEF WayThere, LogsFollow, OnConsole, Silent, LogType, InForeground
  <2> QED
    BY <2>1, <2>2
<1>7. ASSUME BecomeDaemon PROVE StartupInv'
  <2> USE <1>7 DEF BecomeDaemon
  <2>1. FromFile'
    BY FileKept DEF IsRead
  <2>2. /\ config.log.system.level \in Level
        /\ SyslogFacility(config.facility) \in ToSet(FacilityNames)
    BY ConfigInUse, FacilityType DEF IsRead
  <2>3. log' = [log EXCEPT !.level.system = config.log.system.level,
                           !.facility = SyslogFacility(config.facility)]
    BY DEF SetSyslog
  <2>4. LogType'
    BY <2>2, <2>3 DEF LogType
  <2>5. WayThere' /\ LogsFollow'
    BY <2>3 DEF WayThere, LogsFollow, OnConsole, Silent, LogType
  <2> QED
    BY <2>1, <2>4, <2>5
<1>8. ASSUME StartFails PROVE StartupInv'
  BY <1>8 DEF StartFails, FromFile, IsRead, WayThere, LogsFollow, LogType
<1>9. ASSUME OpenLogfile PROVE StartupInv'
  <2> USE <1>9 DEF OpenLogfile
  <2>1. FromFile'
    BY FileKept DEF IsRead
  <2>2. config.log.file.level \in Level
    BY ConfigInUse DEF IsRead
  <2>3. PICK open \in BOOLEAN :
            log' = [log EXCEPT !.level.file = config.log.file.level, !.fileOpen = open]
    BY DEF SetLogfile, LogfileOpened
  <2>4. LogType'
    BY <2>2, <2>3 DEF LogType
  <2>5. WayThere' /\ LogsFollow'
    BY <2>3 DEF WayThere, LogsFollow, OnConsole, Silent, InLogs, LogType
  <2> QED
    BY <2>1, <2>4, <2>5
<1>10. ASSUME DispatchService PROVE StartupInv'
  <2> USE <1>10 DEF DispatchService
  <2>1. ~InForeground(line, build) /\ ~config.foreground
    <3>1. ~InForeground(line, build)
      BY DEF InForeground
    <3>2. config.foreground = InForeground(line, build)
      BY DEF WayThere
    <3> QED
      BY <3>1, <3>2
  <2>2. CASE phase' # "console"
    <3>1. FromFile'
      BY <2>2, FileKept DEF IsRead
    <3>2. WayThere' /\ LogsFollow' /\ LogType'
      BY <2>1, <2>2 DEF WayThere, LogsFollow, LogType, Silent
    <3> QED
      BY <3>1, <3>2
  <2>3. CASE phase' = "console"
    <3>1. PICK c \in Parsed : \E a \in ApplicationConfigurations(line, build, c) :
                                  config = [a EXCEPT !.foreground = config.foreground]
      BY DEF FromFile, IsRead
    <3>2. PICK a \in ApplicationConfigurations(line, build, c) :
                  config = [a EXCEPT !.foreground = config.foreground]
      BY <3>1
    <3>3. a = [foreground |-> a.foreground, user |-> a.user, endpoints |-> a.endpoints,
               threads |-> a.threads, maxConnections |-> a.maxConnections,
               facility |-> a.facility, log |-> a.log]
      BY DEF ApplicationConfigurations
    <3>4. config' = [a EXCEPT !.foreground = TRUE] /\ config'.foreground = TRUE
      <4>1. config' = [config EXCEPT !.foreground = TRUE]
        BY <2>3
      <4> QED
        BY <3>2, <3>3, <4>1
    <3>5. Parsed' = Parsed
      BY DEF Parsed, HasFile, Written, ConfigFile, ChooseFile
    <3>6. FromFile'
      BY <3>4, <3>5 DEF FromFile
    <3>7. WayThere' /\ LogsFollow' /\ LogType'
      BY <2>3, <3>4 DEF WayThere, LogsFollow, LogType, Silent
    <3> QED
      BY <2>3, <3>6, <3>7
  <2> QED
    BY <2>2, <2>3
<1>11. ASSUME ServiceMain PROVE StartupInv'
  <2> USE <1>11 DEF ServiceMain
  <2>1. PICK c \in Parsed, open \in BOOLEAN :
            /\ config' \in ApplicationConfigurations(line, build, c)
            /\ SetLogfileAndEventlog(config'.log.file, open, config'.log.system.level)
    OBVIOUS
  <2>2. /\ FromFile'
        /\ config'.foreground = InForeground(line, build)
        /\ config'.log.file.level \in Level /\ config'.log.system.level \in Level
    BY <2>1, ConfigRead
  <2>3. log' = [log EXCEPT !.level.file = config'.log.file.level, !.fileOpen = open,
                           !.level.system = config'.log.system.level]
    BY <2>1 DEF SetLogfileAndEventlog
  <2>4. LogType'
    BY <2>2, <2>3 DEF LogType
  <2>5. build = "windows" /\ Command(line) = "service" /\ ~InForeground(line, build)
    BY DEF WayThere, InForeground
  <2>6. InLogs'
    BY <2>3 DEF InLogs, LogType
  <2>7. WayThere' /\ LogsFollow'
    BY <2>2, <2>5, <2>6 DEF WayThere, LogsFollow
  <2> QED
    BY <2>2, <2>4, <2>7
<1>12. ASSUME StartConsole PROVE StartupInv'
  <2> USE <1>12 DEF StartConsole
  <2>1. FromFile'
    BY FileKept DEF IsRead
  <2>2. config.log.console.level \in Level
    BY ConfigInUse DEF IsRead
  <2>3. log' = [log EXCEPT !.level.console = config.log.console.level]
    BY DEF SetConsoleLevel
  <2>4. LogType'
    BY <2>2, <2>3 DEF LogType
  <2>5. WayThere' /\ LogsFollow'
    BY <2>3 DEF WayThere, LogsFollow, OnConsole, Silent, InLogs, LogType, InForeground
  <2> QED
    BY <2>1, <2>4, <2>5
<1>13. ASSUME ServerEnds PROVE StartupInv'
  BY <1>13 DEF ServerEnds, FromFile, IsRead, WayThere, LogsFollow, LogType
<1>14. ASSUME UNCHANGED startupVars PROVE StartupInv'
  <2>1. FromFile'
    BY <1>14, FileKept DEF startupVars, IsRead
  <2> QED
    BY ZenonT(40), <1>14, <2>1 DEF startupVars, WayThere, LogsFollow, LogType, OnConsole, Silent, InLogs
<1> QED
  BY <1>1, <1>2, <1>3, <1>4, <1>5, <1>6, <1>7, <1>8, <1>9, <1>10, <1>11, <1>12, <1>13, <1>14
     DEF StartupNext, ObeyCommand, ObeyCommandOnWindows

LEMMA StartupInvariant == StartupSpec => []StartupInv
BY InitStartup, NextStartup, PTL DEF StartupSpec

(* Every variable of the start keeps its type. *)
THEOREM StartupTypeCorrect == StartupSpec => []StartupTypeOK
<1>1. StartupInv => StartupTypeOK
  BY DEF StartupInv
<1> QED
  BY <1>1, StartupInvariant, PTL

(* A number that a conversion takes becomes one of the type, and 0 only if *)
(* it was 0. *)
LEMMA WrappedNumber ==
    ASSUME NEW max \in Nat, NEW n, Converts(n, max)
    PROVE  /\ n \in Int /\ -max <= n /\ n <= max
           /\ n # 0 => Wrapped(n, max) \in 1 .. max
           /\ Wrapped(n, max) \in 0 .. max
BY DEF Converts, Wrapped

(* Wrapping around is counting modulo the size of the type. *)
LEMMA WrappedWord ==
    ASSUME NEW n, Converts(n, WordMax)
    PROVE  Wrapped(n, WordMax) = n % (WordMax + 1)
<1>1. WordMax \in Nat /\ WordMax + 1 = 65536
  BY SMT DEF WordMax
<1>2. n \in Int /\ -WordMax <= n /\ n <= WordMax
  BY <1>1, WrappedNumber
<1>3. CASE n < 0
  <2>1. n % 65536 = n + 65536
    BY <1>2, <1>3 DEF WordMax
  <2> QED
    BY <1>1, <1>2, <1>3, <2>1 DEF Wrapped
<1>4. CASE n >= 0
  <2>1. n % 65536 = n
    BY <1>2, <1>4 DEF WordMax
  <2> QED
    BY <1>1, <1>2, <1>4, <2>1 DEF Wrapped
<1> QED
  BY <1>2, <1>3, <1>4

(* A socket that the parser lets pass is the one that is written. *)
LEMMA EndpointAsWritten ==
    ASSUME NEW e, ~ BadEndpoint(e)
    PROVE  e.address # "" /\ AsWritten(Endpoint(e), e)
<1>1. e.address # ""
  BY DEF BadEndpoint
<1>2. Endpoint(e).secure = (e.type = "SSLsocket")
  BY DEF Endpoint, Secure
<1>3. /\ Endpoint(e).port = IF e.port # Missing THEN e.port % (WordMax + 1)
                            ELSE IF e.type = "SSLsocket" THEN 7960 ELSE 7660
      /\ Endpoint(e).port \in 1 .. WordMax
  <2>1. CASE e.port = Missing
    <3>1. Endpoint(e).port = IF e.type = "SSLsocket" THEN 7960 ELSE 7660
      BY <2>1 DEF Endpoint, Secure
    <3>2. 7960 \in 1 .. WordMax /\ 7660 \in 1 .. WordMax
      BY SMT DEF WordMax
    <3> QED
      BY <2>1, <3>1, <3>2
  <2>2. CASE e.port # Missing
    <3>1. Converts(e.port, WordMax) /\ e.port # 0
      <4>1. ~ BadPort(e.port)
        BY <2>2 DEF BadEndpoint
      <4> QED
        BY <4>1 DEF BadPort
    <3>2. Endpoint(e).port = Wrapped(e.port, WordMax)
      BY <2>2 DEF Endpoint
    <3>3. Wrapped(e.port, WordMax) \in 1 .. WordMax
      <4>1. WordMax \in Nat
        BY SMT DEF WordMax
      <4> QED
        BY <3>1, <4>1, WrappedNumber
    <3>4. Wrapped(e.port, WordMax) = e.port % (WordMax + 1)
      BY <3>1, WrappedWord
    <3> QED
      BY <2>2, <3>2, <3>3, <3>4
  <2> QED
    BY <2>1, <2>2
<1>4. e.type = "SSLsocket" /\ ~ Endpoint(e).verify => SaysNo(e.verify)
  <2>1. Endpoint(e).verify = (Secure(e) /\ ~ SaysNo(e.verify))
    BY DEF Endpoint
  <2> QED
    BY <2>1, ZenonT(40) DEF Secure
<1>5. ASSUME e.maxConnections \in 1 .. UnsignedMax
      PROVE  Endpoint(e).maxConnections = e.maxConnections
  <2>1. Endpoint(e).maxConnections = Unsigned(e.maxConnections)
    BY DEF Endpoint
  <2>2. Unsigned(e.maxConnections) = e.maxConnections
    BY <1>5, NumberAssumption DEF Unsigned, Converts, Wrapped
  <2> QED
    BY <2>1, <2>2
<1>6. AsWritten(Endpoint(e), e)
  BY <1>2, <1>3, <1>4, <1>5 DEF AsWritten
<1> QED
  BY <1>1, <1>6

(* Whatever the file says and whatever is asked for, what a server listens *)
(* on, and what --check-config calls OK, are the sockets of the file that  *)
(* was named, or of the first that exists of the global one, the one in a  *)
(* directory called "~" and the local one.                                 *)
THEOREM StartServesWhatIsWritten == StartupSpec => []ServesWhatIsWritten
<1> DEFINE place == IF line.file THEN "option"
                    ELSE CHOOSE p \in {"global", "tilde", "local"} :
                            /\ disk[p] # NoFile
                            /\ disk["global"] # NoFile => p = "global"
                            /\ p = "local" => disk["tilde"] = NoFile
           listen == Content[disk[place]].listen
<1>1. ASSUME StartupInv, phase = "running" \/ answer = "Configuration OK"
      PROVE  /\ disk[place] # NoFile
             /\ Len(config.endpoints) = Len(listen)
             /\ \A i \in DOMAIN listen :
                   /\ listen[i].address # ""
                   /\ AsWritten(config.endpoints[i], listen[i])
  <2>1. PICK c \in Parsed : config.endpoints = c.endpoints
    BY <1>1, ConfigInUse DEF StartupInv, IsRead
  <2>2. /\ HasFile /\ ~ BadFile(Written, build)
        /\ c.endpoints = [i \in DOMAIN Written.listen |-> Endpoint(Written.listen[i])]
    BY ParsedFile
  <2>3. ConfigFile = place
    <3>1. CASE line.file
      BY <3>1 DEF ConfigFile
    <3>2. CASE ~ line.file
      <4>1. ConfigFile = ChooseFile /\ ChooseFile # "none"
        BY <2>2, <3>2 DEF HasFile, ConfigFile
      <4>2. \A p \in {"global", "tilde", "local"} :
                 (/\ disk[p] # NoFile
                  /\ disk["global"] # NoFile => p = "global"
                  /\ p = "local" => disk["tilde"] = NoFile) <=> p = ChooseFile
        BY <4>1 DEF ChooseFile
      <4>3. ChooseFile \in {"global", "tilde", "local"}
        BY <4>1 DEF ChooseFile
      <4> QED
        BY <3>2, <4>1, <4>2, <4>3
    <3> QED
      BY <3>1, <3>2
  <2>4. place \in Places
    BY <2>2, <2>3 DEF HasFile, ConfigFile, ChooseFile, Places
  <2> HIDE DEF place
  <2>5. disk[place] # NoFile /\ disk[place] \in DOMAIN Content
    <3>1. disk[place] # NoFile
      BY <2>2, <2>3 DEF HasFile
    <3>2. disk[place] \in DOMAIN Content \cup {NoFile}
      BY <1>1, <2>4, StartupAssumption DEF StartupInv, StartupTypeOK
    <3> QED
      BY <3>1, <3>2
  <2>6. listen \in Seq(WrittenSocket) /\ Written.listen = listen
    BY <2>3, <2>5, StartupAssumption DEF Written
  <2> HIDE DEF listen
  <2>7. DOMAIN listen = 1 .. Len(listen) /\ Len(listen) \in Nat
    BY <2>6
  <2>8. config.endpoints = [i \in 1 .. Len(listen) |-> Endpoint(listen[i])]
    BY <2>1, <2>2, <2>6, <2>7
  <2>9. Len(config.endpoints) = Len(listen)
    <3> DEFINE n == Len(listen)
               sockets == [i \in 1..n |-> Endpoint(listen[i])]
    <3>1. n \in Nat /\ DOMAIN sockets = 1..n
      BY <2>7
    <3> HIDE DEF n
    <3>2. Len(sockets) = n
      BY <3>1
    <3> QED
      BY <2>8, <3>2 DEF n
  <2>10. ASSUME NEW i \in DOMAIN listen
         PROVE  listen[i].address # "" /\ AsWritten(config.endpoints[i], listen[i])
    <3>1. config.endpoints[i] = Endpoint(listen[i])
      BY <2>7, <2>8
    <3>2. ~ BadEndpoint(listen[i])
      BY <2>2, <2>6 DEF BadFile
    <3>3. listen[i].address # "" /\ AsWritten(Endpoint(listen[i]), listen[i])
      BY EndpointAsWritten, <3>2
    <3> QED
      BY <3>1, <3>3
  <2> QED
    BY <2>5, <2>9, <2>10
<1>2. StartupInv => ServesWhatIsWritten
  <2> SUFFICES ASSUME StartupInv PROVE ServesWhatIsWritten
    OBVIOUS
  <2> QED
    BY <1>1, Zenon DEF ServesWhatIsWritten
<1> QED
  BY <1>2, StartupInvariant, PTL

(* No less severe record is more urgent. *)
LEMMA UrgencyFollowsSeverity == Urgency
<1>1. Level \ {UndefinedLevel} = 0..10
  BY LevelOfName
<1>2. ASSUME NEW m \in 0..10, NEW l \in 0..m
      PROVE  SyslogPriority(l) >= SyslogPriority(m)
  <2>1. /\ SyslogPriority(0) = 7 /\ SyslogPriority(1) = 7 /\ SyslogPriority(2) = 7
        /\ SyslogPriority(3) = 6 /\ SyslogPriority(4) = 5 /\ SyslogPriority(5) = 4
        /\ SyslogPriority(6) = 3 /\ SyslogPriority(7) = 2 /\ SyslogPriority(8) = 2
        /\ SyslogPriority(9) = 1 /\ SyslogPriority(10) = 0
    BY DEF SyslogPriority
  <2>2. /\ m \in {0, 1, 2, 3, 4, 5, 6, 7, 8, 9, 10}
        /\ l \in {0, 1, 2, 3, 4, 5, 6, 7, 8, 9, 10} /\ l <= m
    OBVIOUS
  <2> QED
    BY <2>1, <2>2
<1>3. ASSUME NEW m \in 0..10, NEW l \in 0..m
      PROVE  EventlogType(l) >= EventlogType(m)
  BY LevelOfName DEF EventlogType, EventTypes
<1> QED
  BY <1>1, <1>2, <1>3 DEF Urgency

(* Where a record of a level goes. *)
LEMMA WhoReaches ==
    ASSUME NEW level
    PROVE  /\ "console" \in Reaches(level) <=> level >= log.level.console
           /\ "file" \in Reaches(level) <=> log.fileOpen /\ level >= log.level.file
           /\ "system" \in Reaches(level) <=> level >= log.level.system
           /\ Reaches(level) \subseteq Logs
BY DEF Reaches, Logs, ConsoleTakes, FileTakes, SystemTakes

(* The levels of the configuration, where the file has the section.        *)
LEMMA LevelsOfSections ==
    ASSUME FromFile, IsRead, ~ InForeground(line, build)
    PROVE  \A l \in Logs :
              Sections(Written)[l] # "none" =>
                  config.log[l].level =
                      SectionLevel(Sections(Written)[l],
                                   IF l = "file" THEN "ERROR" ELSE "NOTICE")
<1>1. PICK c \in Parsed :
             /\ config.log.console.level = c.log.console.level
             /\ config.log.file.level = c.log.file.level
             /\ config.log.system.level = c.log.system.level
  BY ConfigInUse
<1>2. /\ c.log.console \in Setting(Written.stderr, "NOTICE")
      /\ c.log.file \in Setting(Written.logFile, "ERROR")
      /\ c.log.system \in Setting(Sections(Written).system, "NOTICE")
  BY ParsedFile
<1>3. Sections(Written).console = Written.stderr /\ Sections(Written).file = Written.logFile
  BY DEF Sections
<1>4. Sections(Written).console # "none" =>
          config.log.console.level = SectionLevel(Sections(Written).console, "NOTICE")
  BY <1>1, <1>2, <1>3, SettingType
<1>5. Sections(Written).file # "none" =>
          config.log.file.level = SectionLevel(Sections(Written).file, "ERROR")
  BY <1>1, <1>2, <1>3, SettingType
<1>6. Sections(Written).system # "none" =>
          config.log.system.level = SectionLevel(Sections(Written).system, "NOTICE")
  BY <1>1, <1>2, SettingType
<1> QED
  BY <1>4, <1>5, <1>6 DEF Logs

(* A log has the level of the configuration where a section sets it up. *)
LEMMA LevelsInUse ==
    ASSUME StartupInv, phase = "running", NEW l \in SetUp
    PROVE  ~ InForeground(line, build) /\ l \in Logs /\ log.level[l] = config.log[l].level
<1>1. CASE Command(line) = "service" /\ build = "windows"
  <2>1. ~ InForeground(line, build)
    BY <1>1 DEF InForeground
  <2>2. CASE config.foreground
    <3>1. l = "console" /\ OnConsole
      BY <1>1, <2>2 DEF SetUp, StartupInv, LogsFollow
    <3> QED
      BY <2>1, <3>1 DEF OnConsole, Logs
  <2>3. CASE ~ config.foreground
    <3>1. l \in {"file", "system"} /\ InLogs
      BY <1>1, <2>3 DEF SetUp, StartupInv, LogsFollow
    <3> QED
      BY <2>1, <3>1 DEF InLogs, Logs
  <2> QED
    BY <2>2, <2>3
<1>2. CASE Command(line) = "default" /\ config.foreground = InForeground(line, build)
  <2>1. ~ config.foreground /\ l \in Logs
    BY <1>2 DEF SetUp
  <2>2. OnConsole /\ InLogs
    BY <1>2, <2>1 DEF StartupInv, LogsFollow
  <2> QED
    BY <1>2, <2>1, <2>2 DEF OnConsole, InLogs, Logs
<1> QED
  BY <1>1, <1>2 DEF StartupInv, WayThere

(* Whatever the file says and whatever is asked for: a log that the file   *)
(* sets up takes the records of its level and above, and in the foreground *)
(* without --use-config-logging the console alone takes any.               *)
THEOREM StartLogsAsWritten == StartupSpec => []LogsAsWritten
<1>1. ASSUME StartupInv, phase = "running"
      PROVE  \A l \in SetUp, level \in Level \ {UndefinedLevel} :
                LET section == Sections(Written)[l] IN
                section # "none" /\ (l = "file" => log.fileOpen) =>
                   (l \in Reaches(level) <=>
                       level >= SectionLevel(section,
                                    IF l = "file" THEN "ERROR" ELSE "NOTICE"))
  <2> TAKE l \in SetUp, level \in Level \ {UndefinedLevel}
  <2> DEFINE section == Sections(Written)[l]
             due == SectionLevel(section, IF l = "file" THEN "ERROR" ELSE "NOTICE")
  <2> SUFFICES ASSUME section # "none", l = "file" => log.fileOpen
               PROVE  l \in Reaches(level) <=> level >= due
    OBVIOUS
  <2>1. ~ InForeground(line, build) /\ l \in Logs /\ log.level[l] = config.log[l].level
    BY <1>1, LevelsInUse
  <2>2. config.log[l].level = due
    BY <1>1, <2>1, LevelsOfSections DEF StartupInv, IsRead
  <2>3. l \in Reaches(level) <=> level >= log.level[l]
    BY <2>1, WhoReaches DEF Logs
  <2> QED
    BY <2>1, <2>2, <2>3
<1>2. ASSUME StartupInv, phase = "running", Command(line) = "default", config.foreground,
             NEW level \in Level \ {UndefinedLevel}
      PROVE  Reaches(level) = IF level >= DebugLevel(line) THEN {"console"} ELSE {}
  <2>1. InForeground(line, build) /\ OnConsole /\ Silent
    BY <1>2 DEF StartupInv, WayThere, LogsFollow
  <2>2. log.level.console = DebugLevel(line)
    BY <1>2, <2>1, ConfigInUse DEF StartupInv, IsRead, OnConsole
  <2>3. "file" \notin Reaches(level)
    BY <2>1, WhoReaches DEF Silent
  <2>4. "system" \notin Reaches(level)
    <3>1. ~ (level >= UndefinedLevel)
      BY LevelOfName
    <3> QED
      BY <2>1, <3>1, WhoReaches DEF Silent
  <2>5. "console" \in Reaches(level) <=> level >= DebugLevel(line)
    BY <2>2, WhoReaches
  <2> QED
    BY <2>3, <2>4, <2>5, WhoReaches DEF Logs
<1>3. StartupInv => LogsAsWritten
  BY <1>1, <1>2, UrgencyFollowsSeverity DEF LogsAsWritten
<1> QED
  BY <1>3, StartupInvariant, PTL
===============================================================================
