----------------------------- MODULE Configuration -----------------------------
(***************************************************************************)
(* What the program makes of its command line (src/src/commandLine.cpp)    *)
(* and of its configuration file (src/src/configFile.cpp), and the         *)
(* configuration put together from both (src/src/appConfig.cpp).           *)
(*                                                                         *)
(* A text is taken as it is after trimming and upper-casing.  A number in  *)
(* the file is an integer, Missing or NotANumber; it is converted to an    *)
(* unsigned type, which wraps a negative one around.  A logging section is *)
(* "none", or the text of its level, "default" if it gives none.  A field  *)
(* the code leaves uninitialised holds any member of Garbage or of         *)
(* GarbageFacility.                                                        *)
(***************************************************************************)
EXTENDS Integers, Sequences, SequencesExt

CONSTANTS
    Garbage,            \* levels an uninitialised field may happen to hold
    GarbageFacility,    \* and facilities
    Missing,            \* in place of a number that is not given
    NotANumber,         \* and of a text that is none
    UnsignedMax         \* the largest unsigned, 2^32 - 1 in the builds

LevelNames == <<"DATA", "TRACE", "DEBUG", "INFO", "NOTICE", "WARNING",
                "ERROR", "SEVERE", "CRITICAL", "ALERT", "FATAL">>

UndefinedLevel == Len(LevelNames)

Level == 0 .. UndefinedLevel

Str2LogLevel(text) ==
    IF Contains(LevelNames, text)
    THEN CHOOSE l \in Level \ {UndefinedLevel} : LevelNames[l + 1] = text
    ELSE UndefinedLevel

FacilityNames ==
    <<"KERN", "USER", "MAIL", "DAEMON", "AUTH", "SYSLOG", "LPR", "NEWS",
      "UUCP", "CRON", "AUTHPRIV", "FTP", "NTP", "SECURITY", "CONSOLE",
      "AUDIT", "LOCAL0", "LOCAL1", "LOCAL2", "LOCAL3", "LOCAL4", "LOCAL5",
      "LOCAL6", "LOCAL7">>

ASSUME GarbageAssumption ==
    /\ Garbage \subseteq Level /\ Garbage # {}
    /\ GarbageFacility \subseteq ToSet(FacilityNames) \cup {"UNDEFINED"}
    /\ GarbageFacility # {}

ASSUME NumberAssumption ==
    /\ Missing \notin Int /\ NotANumber \notin Int /\ Missing # NotANumber
    /\ UnsignedMax \in Nat

(* str2SyslogFacility(): a facility is known by its name. *)
Str2SyslogFacility(text) ==
    IF Contains(FacilityNames, text) THEN text ELSE "UNDEFINED"

-------------------------------------------------------------------------------
(* The command line: line.given is the set of the options on it, debug the *)
(* text of --debug, user that of --user and --group, "" when not given.    *)
Builds == {"posix", "windows"}

(* The commands, in the order in which parse() looks for them. *)
Commands == <<"version", "help", "print-config", "check-config",
              "test-config", "install", "remove", "service">>

(* --use-config-logging is accepted, and what it sets is never read. *)
Accepted(build) ==
    {"use-config-logging"}
    \cup IF build = "windows" THEN ToSet(Commands)
         ELSE {Commands[i] : i \in 1..5} \cup {"foreground"}

Asked(line) == SelectSeq(Commands, LAMBDA c : c \in line.given)

DebugLevel(line) ==
    Str2LogLevel(IF line.debug = "default" THEN "INFO" ELSE line.debug)

(* CmdLineConfig::parse() returns false.  A second command is an error,    *)
(* except that --service only leaves a warning.                            *)
BadCommandLine(line, build) ==
    \/ ~ line.given \subseteq Accepted(build)
    \/ \E i \in 2 .. Len(Asked(line)) : Asked(line)[i] # "service"
    \/ DebugLevel(line) = UndefinedLevel

Command(line) == IF Asked(line) = <<>> THEN "default" ELSE Head(Asked(line))

-------------------------------------------------------------------------------
(* The file.                                                               *)
(* The largest unsigned short. *)
WordMax == 65535

(* The conversion to an unsigned type takes a number whose digits fit the  *)
(* type, and wraps it around if there is a minus before them.              *)
Converts(n, max) == n \in -max .. max

Wrapped(n, max) == IF n < 0 THEN max + n + 1 ELSE n

(* pt.get<unsigned short>( label, default): what is no number, or too      *)
(* large a one, counts as missing.                                         *)
Word(n, default) == IF Converts(n, WordMax) THEN Wrapped(n, WordMax) ELSE default

(* pt.get<unsigned>( label, 0) *)
Unsigned(n) == IF Converts(n, UnsignedMax) THEN Wrapped(n, UnsignedMax) ELSE 0

(* lexical_cast<unsigned short>() throws, or gives 0. *)
BadPort(port) == ~ Converts(port, WordMax) \/ port = 0

BadEndpoint(e) ==
    \/ e.address = ""
    \/ e.port # Missing /\ BadPort(e.port)
    \/ e.type \notin {"socket", "SSLsocket"}

Secure(e) == e.type = "SSLsocket"

(* getBoolValue() *)
SaysNo(text) == text \in {"NO", "FALSE", "0", "OFF"}

(* Bug: the port of the other kind of socket. *)
EndpointSwapped(e) ==
    [secure |-> Secure(e),
     host |-> IF e.address = "*" THEN "0.0.0.0" ELSE e.address,
     port |-> IF e.port # Missing THEN Wrapped(e.port, WordMax)
              ELSE IF Secure(e) THEN 7660 ELSE 7960,
     maxConnections |-> Unsigned(e.maxConnections),
     verify |-> Secure(e) /\ ~ SaysNo(e.verify)]

(* A socket in server.listen: an unknown value of verify means yes.  The   *)
(* code keeps plain and SSL sockets in a list each; here they are one.     *)
Endpoint(e) ==
    [secure |-> Secure(e),
     host |-> IF e.address = "*" THEN "0.0.0.0" ELSE e.address,
     port |-> IF e.port # Missing THEN Wrapped(e.port, WordMax)
              ELSE IF Secure(e) THEN 7960 ELSE 7660,
     maxConnections |-> Unsigned(e.maxConnections),
     verify |-> Secure(e) /\ ~ SaysNo(e.verify)]

SectionLevel(section, default) ==
    Str2LogLevel(IF section = "default" THEN default ELSE section)

BadSection(section) ==
    section # "none" /\ SectionLevel(section, "ERROR") = UndefinedLevel

BadFacility(f) ==
    f.syslog # "none" /\ Str2SyslogFacility(f.facility) = "UNDEFINED"

(* CfgFileConfig::parse() returns false.  What read_info() or get_child()  *)
(* throws makes the file unreadable.                                       *)
BadFile(f, build) ==
    \/ ~ f.readable
    \/ \E i \in DOMAIN f.listen : BadEndpoint(f.listen[i])
    \/ BadSection(f.stderr) \/ BadSection(f.logFile)
    \/ build = "posix" /\ (BadFacility(f) \/ BadSection(f.syslog))
    \/ build = "windows" /\ BadSection(f.eventlog)

(* Without its section a log is off and its level is not set. *)
Setting(section, default) ==
    IF section = "none" THEN [on : {FALSE}, level : Garbage]
    ELSE {[on |-> TRUE, level |-> SectionLevel(section, default)]}

(* The results parse() may leave; system is syslog or the event log. *)
ParseFile(f, build) ==
    LET system == IF build = "posix" THEN f.syslog ELSE f.eventlog IN
    [endpoints : {[i \in DOMAIN f.listen |-> Endpoint(f.listen[i])]},
     threads : {Word(f.threads, 4)},
     maxConnections : {Word(f.maxConnections, 256)},
     user : {f.user},
     facility : IF build = "posix" /\ f.syslog # "none"
                THEN {Str2SyslogFacility(f.facility)} ELSE GarbageFacility,
     log : [console : Setting(f.stderr, "NOTICE"),
            file : Setting(f.logFile, "ERROR"),
            system : Setting(system, "NOTICE")]]

(* ApplicationConfiguration: in the foreground the file's logs are not     *)
(* used; on Windows only a service is not in the foreground.               *)
InForeground(line, build) ==
    IF build = "windows" THEN Command(line) # "service"
                         ELSE "foreground" \in line.given

Off == [on : {FALSE}, level : Garbage]

(* Bug: the foreground is forgotten, the logs are the file's. *)
LogConfigurationOfFile(line, build, c) == {c.log}

(* logToEventlog is never copied; the event log's level always is. *)
LogConfiguration(line, build, c) ==
    IF InForeground(line, build)
    THEN [console : {[on |-> TRUE, level |-> DebugLevel(line)]},
          file : Off,
          system : IF build = "posix" THEN Off
                   ELSE {[on |-> FALSE, level |-> c.log.system.level]}]
    ELSE [console : {c.log.console},
          file : {c.log.file},
          system : IF build = "posix" THEN {c.log.system}
                   ELSE [on : BOOLEAN, level : {c.log.system.level}]]

ApplicationConfigurations(line, build, c) ==
    [foreground : {InForeground(line, build)},
     user : {IF line.user # "" THEN line.user ELSE c.user},
     endpoints : {c.endpoints},
     threads : {c.threads},
     maxConnections : {c.maxConnections},
     facility : {c.facility},
     log : LogConfiguration(line, build, c)]
===============================================================================
