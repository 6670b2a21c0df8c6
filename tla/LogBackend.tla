------------------------------ MODULE LogBackend ------------------------------
(***************************************************************************)
(* The one log backend of the process (src/src/logBackend.cpp): the levels *)
(* of the console, of the log file and of the system's log (syslog, or the *)
(* event log on Windows), and where a record of a level goes.              *)
(***************************************************************************)
EXTENDS Configuration

VARIABLE log

Logs == {"console", "file", "system"}

(* The backends as constructed: no file is open. *)
LogInit ==
    log = [level |-> [console |-> Str2LogLevel("ERROR"),
                      file |-> UndefinedLevel,
                      system |-> UndefinedLevel],
           fileOpen |-> FALSE,
           facility |-> "USER"]

SetConsoleLevel(level) == log' = [log EXCEPT !.level.console = level]

(* setSyslogLevel(), setSyslogFacility() and setSyslogIdent(): Linux has   *)
(* no facilities of these names.                                           *)
SyslogFacility(f) ==
    CASE f \in {"SECURITY", "AUDIT"} -> "AUTH"
      [] f \in {"CONSOLE", "NTP", "UNDEFINED"} -> "DAEMON"
      [] OTHER -> f

SetSyslog(level, facility) ==
    log' = [log EXCEPT !.level.system = level,
                       !.facility = SyslogFacility(facility)]

(* setLogfileLevel() and setLogfileName(), whose reopen() may fail and     *)
(* then only says so on stderr.  Without a name it always fails.           *)
LogfileOpened(setting) == IF setting.on THEN BOOLEAN ELSE {FALSE}

SetLogfile(setting, open) ==
    log' = [log EXCEPT !.level.file = setting.level, !.fileOpen = open]

SetLogfileAndEventlog(setting, open, level) ==
    log' = [log EXCEPT !.level.file = setting.level, !.fileOpen = open,
                       !.level.system = level]

(* log( level, msg) of each backend: does it write the record? *)
ConsoleTakes(level) == level >= log.level.console

FileTakes(level) == log.fileOpen /\ level >= log.level.file

SystemTakes(level) == level >= log.level.system

(* LogBackend::log() offers the record to every one of them. *)
Reaches(level) ==
    {l \in Logs : \/ l = "console" /\ ConsoleTakes(level)
                  \/ l = "file" /\ FileTakes(level)
                  \/ l = "system" /\ SystemTakes(level)}

(* The priority syslog() is given for a level, 0 being the highest, and    *)
(* the type and the identifier ReportEvent() is.  The identifier is made   *)
(* of the level where a type is asked for.                                 *)
SyslogPriority(level) == <<7, 7, 7, 6, 5, 4, 3, 2, 2, 1, 0, 3>>[level + 1]

EventTypes == [error |-> 1, warning |-> 2, information |-> 4]

EventlogType(level) ==
    CASE level < Str2LogLevel("WARNING") -> EventTypes.information
      [] level = Str2LogLevel("WARNING") -> EventTypes.warning
      [] OTHER -> EventTypes.error

IdOfType(type) ==
    IF type \in {EventTypes.warning, EventTypes.information} THEN type
    ELSE EventTypes.error

EventlogId(level) == IdOfType(level)

LogType ==
    log \in [level : [console : Level, file : Level, system : Level],
             fileOpen : BOOLEAN,
             facility : ToSet(FacilityNames)]
===============================================================================
