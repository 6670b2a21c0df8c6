-------------------------------- MODULE Startup --------------------------------
(***************************************************************************)
(* The program from its command line to a server that runs, or to its      *)
(* exit: main() on Posix (src/src/posixMain.cpp) and _SMERP_winMain() with *)
(* service_main() on Windows (src/src/winMain.cpp).  build says which of   *)
(* the two was compiled.                                                   *)
(*                                                                         *)
(* What happens around the pid file is in module Daemon, the service's     *)
(* life with the service control manager in module WinService.  A name     *)
(* begins with startup, or is another, where one of those has the same.    *)
(***************************************************************************)
EXTENDS LogBackend

CONSTANTS
    Lines,          \* the command lines of a run
    Content,        \* the configuration files of a run, by their names
    NoFile,         \* in place of a name: there is no file
    Disks           \* the ways in which they lie at the places

(* A socket of server.listen, as read from the file. *)
WrittenNumber == Int \cup {Missing, NotANumber}

WrittenSocket == [type : STRING, address : STRING, port : WrittenNumber,
                  maxConnections : WrittenNumber, verify : STRING]

(* Where a configuration file may lie: where --config-file says,           *)
(* /etc/smerp.conf, ./smerp.conf, the user's in the home directory, and    *)
(* "~/smerp.conf" as the file system takes it, in a directory called "~".  *)
Places == {"option", "global", "local", "home", "tilde"}

ASSUME StartupAssumption ==
    /\ NoFile \notin DOMAIN Content
    /\ \A name \in DOMAIN Content : Content[name].listen \in Seq(WrittenSocket)
    /\ Disks \subseteq [Places -> DOMAIN Content \cup {NoFile}]

VARIABLES
    build, line,
    disk,           \* the name of the file at each place
    phase,
    answer,         \* what a program that ends tells its caller
    config,
    installed       \* what Windows knows of the service and its events

startupVars == <<build, line, disk, phase, answer, config, installed, log>>

StartupInit ==
    /\ build \in Builds
    /\ line \in Lines
    /\ disk \in Disks
    /\ phase = "arguments"
    /\ answer = "none"
    /\ config = <<>>
    /\ installed \in IF Command(line) \in {"install", "remove"}
              THEN [service : BOOLEAN, events : BOOLEAN]
              ELSE {[service |-> TRUE, events |-> TRUE]}
    /\ LogInit

Proceed(place) == phase' = place /\ UNCHANGED answer

Leave(code) == phase' = "exit" /\ answer' = code

(* Nobody replaces the "~" in the name of the user's file. *)
ChooseFile ==
    IF disk["global"] # NoFile THEN "global"
    ELSE IF disk["tilde"] # NoFile THEN "tilde"
    ELSE IF disk["local"] # NoFile THEN "local"
    ELSE "none"

(* A file that is named need not exist; Windows has no default place. *)
ConfigFile ==
    IF line.file THEN "option"
    ELSE IF build = "windows" THEN "none" ELSE ChooseFile

HasFile == ConfigFile # "none" /\ disk[ConfigFile] # NoFile

Written == Content[disk[ConfigFile]]

(* What CfgFileConfig::parse() may yield; nothing if it fails. *)
Parsed ==
    IF HasFile /\ ~ BadFile(Written, build) THEN ParseFile(Written, build) ELSE {}

-------------------------------------------------------------------------------
ParseCommandLine ==
    /\ phase = "arguments"
    /\ IF BadCommandLine(line, build) THEN Leave("FAILURE")
       ELSE IF Command(line) \in {"version", "help"} THEN Leave("OK")
       ELSE Proceed("file")
    /\ UNCHANGED <<build, line, disk, config, installed, log>>

(* The file is read, or does not let itself be. *)
Configured ==
    \E c \in Parsed : config' \in ApplicationConfigurations(line, build, c)

(* Posix sets the level of the console at once. *)
ReadConfiguration ==
    /\ phase = "file" /\ build = "posix"
    /\ \/ Parsed = {} /\ Leave("FAILURE") /\ UNCHANGED <<config, log>>
       \/ Configured /\ Proceed("command") /\ SetConsoleLevel(config'.log.console.level)
    /\ UNCHANGED <<build, line, disk, installed>>

ReadConfigurationOnWindows ==
    /\ phase = "file" /\ build = "windows"
    /\ \/ Parsed = {} /\ Leave("FAILURE") /\ UNCHANGED config
       \/ Configured /\ Proceed("command")
    /\ UNCHANGED <<build, line, disk, installed, log>>

(* check() finds nothing wrong: the name of the log file is an absolute    *)
(* path.  The others print. *)
Obey ==
    /\ phase = "command"
    /\ Command(line) \in {"check-config", "print-config", "test-config"}
    /\ Leave(IF Command(line) = "check-config" THEN "Configuration OK" ELSE "OK")
    /\ UNCHANGED <<build, line, disk, config, installed, log>>

ObeyCommand == build = "posix" /\ Obey

ObeyCommandOnWindows == build = "windows" /\ Obey

(* Nobody looks at what the registry and the service manager answer: each  *)
(* may have refused. *)
Install ==
    /\ phase = "command" /\ Command(line) = "install"
    /\ installed' \in [service : {installed.service, TRUE}, events : {installed.events, TRUE}]
    /\ Leave("OK")
    /\ UNCHANGED <<build, line, disk, config, log>>

RemoveService ==
    /\ phase = "command" /\ Command(line) = "remove"
    /\ installed' \in [service : {installed.service, FALSE}, events : {installed.events, FALSE}]
    /\ Leave("OK")
    /\ UNCHANGED <<build, line, disk, config, log>>

(* Posix, --foreground. *)
RunInForeground ==
    /\ phase = "command" /\ build = "posix"
    /\ Command(line) = "default" /\ config.foreground
    /\ Proceed("running")
    /\ UNCHANGED <<build, line, disk, config, installed, log>>

(* Posix: daemon(), then syslog is the log of what may go wrong. *)
BecomeDaemon ==
    /\ phase = "command" /\ build = "posix"
    /\ Command(line) = "default" /\ ~ config.foreground
    /\ Proceed("daemon")
    /\ SetSyslog(config.log.system.level, config.facility)
    /\ UNCHANGED <<build, line, disk, config, installed>>

(* A server runs already, daemon() fails, no such user, no right to become *)
(* it, no pid file.                                                        *)
StartFails ==
    /\ \/ phase = "daemon"
       \/ /\ phase = "command" /\ build = "posix"
          /\ Command(line) = "default" /\ ~ config.foreground
    /\ Leave("FAILURE")
    /\ UNCHANGED <<build, line, disk, config, installed, log>>

OpenLogfile ==
    /\ phase = "daemon"
    /\ Proceed("running")
    /\ \E open \in LogfileOpened(config.log.file) :
          SetLogfile(config.log.file, open)
    /\ UNCHANGED <<build, line, disk, config, installed>>

(* Windows, --service: StartServiceCtrlDispatcher() hands over to          *)
(* service_main(); without a service control manager the program goes on   *)
(* as in a console.                                                        *)
DispatchService ==
    /\ phase = "command" /\ build = "windows" /\ Command(line) = "service"
    /\ \/ Proceed("service") /\ UNCHANGED config
       \/ Proceed("console") /\ config' = [config EXCEPT !.foreground = TRUE]
       \/ Leave("FAILURE") /\ UNCHANGED config
    /\ UNCHANGED <<build, line, disk, installed, log>>

(* service_main() reads the file again. *)
ServiceMain ==
    /\ phase = "service"
    /\ \E c \in Parsed, open \in BOOLEAN :
         /\ config' \in ApplicationConfigurations(line, build, c)
         /\ open \in LogfileOpened(config'.log.file)
         /\ SetLogfileAndEventlog(config'.log.file, open,
                                  config'.log.system.level)
    /\ Proceed("running")
    /\ UNCHANGED <<build, line, disk, installed>>

StartConsole ==
    /\ \/ phase = "console"
       \/ phase = "command" /\ build = "windows" /\ Command(line) = "default"
    /\ Proceed("running")
    /\ SetConsoleLevel(config.log.console.level)
    /\ UNCHANGED <<build, line, disk, config, installed>>

(* The server is stopped, or its constructor throws. *)
ServerEnds ==
    /\ phase = "running"
    /\ Leave("OK") \/ Leave("FAILURE")
    /\ UNCHANGED <<build, line, disk, config, installed, log>>

StartupNext ==
    \/ ParseCommandLine
    \/ ReadConfiguration \/ ReadConfigurationOnWindows
    \/ ObeyCommand \/ ObeyCommandOnWindows \/ Install \/ RemoveService
    \/ RunInForeground
    \/ BecomeDaemon
    \/ StartFails
    \/ OpenLogfile
    \/ DispatchService
    \/ ServiceMain
    \/ StartConsole
    \/ ServerEnds

StartupSpec == StartupInit /\ [][StartupNext]_startupVars

-------------------------------------------------------------------------------
(* Every variable has its type. *)
StartupTypeOK ==
    /\ build \in Builds /\ line \in Lines
    /\ disk \in Disks
    /\ phase \in {"arguments", "file", "command", "daemon", "service", "console",
               "running", "exit"}
    /\ answer \in {"none", "OK", "FAILURE", "Configuration OK"}
    /\ installed \in [service : BOOLEAN, events : BOOLEAN]
    /\ LogType

(* The socket of the configuration is the one of the file: at its own port *)
(* (a negative one counts from 65536 down) or the default of its kind,     *)
(* with a limit of its own if the file gives one, and an SSL socket asks   *)
(* for a certificate unless the file says no.                              *)
AsWritten(socket, e) ==
    /\ socket.secure = (e.type = "SSLsocket")
    /\ socket.port \in 1 .. WordMax
    /\ socket.port = IF e.port # Missing THEN e.port % (WordMax + 1)
                     ELSE IF e.type = "SSLsocket" THEN 7960 ELSE 7660
    /\ e.maxConnections \in 1 .. UnsignedMax => socket.maxConnections = e.maxConnections
    /\ e.type = "SSLsocket" /\ ~socket.verify => SaysNo(e.verify)

(* A server runs on the sockets of one file and on no other: the file the  *)
(* command line names, else the first that exists of the global one, the   *)
(* one in a directory called "~" and the local one, never the one in the   *)
(* user's home directory; and a configuration that --check-config has      *)
(* called OK, or that a server runs with, has no bad socket.               *)
ServesWhatIsWritten ==
    phase = "running" \/ answer = "Configuration OK" =>
        LET place == IF line.file THEN "option"
                     ELSE CHOOSE p \in {"global", "tilde", "local"} :
                             /\ disk[p] # NoFile
                             /\ disk["global"] # NoFile => p = "global"
                             /\ p = "local" => disk["tilde"] = NoFile
            f == Content[disk[place]]
        IN /\ disk[place] # NoFile
           /\ Len(config.endpoints) = Len(f.listen)
           /\ \A i \in DOMAIN f.listen :
                 /\ f.listen[i].address # ""
                 /\ AsWritten(config.endpoints[i], f.listen[i])

(* A server listens at the very ports the file gives, as the parser's      *)
(* answers "Port out of range" and "Invalid value for port" have it.  It   *)
(* does not: a negative port passes both tests and is wrapped around.      *)
ServesThePortsOfTheFile ==
    phase = "running" =>
        \A i \in DOMAIN Written.listen :
            Written.listen[i].port # Missing =>
                config.endpoints[i].port = Written.listen[i].port

(* Without a file on the command line and without a global one, the file   *)
(* in the user's home directory is the one, as the name                    *)
(* DEFAULT_USER_CONFIG and the order in chooseFile() have it.  It is not:  *)
(* "~" is no home directory to boost::filesystem::exists().                *)
UsersFileIsRead ==
    phase = "running" /\ ~ line.file /\ disk["global"] = NoFile /\ disk["home"] # NoFile =>
        Written = Content[disk["home"]]

Sections(f) == [console |-> f.stderr, file |-> f.logFile,
                system |-> IF build = "posix" THEN f.syslog ELSE f.eventlog]

(* The logs a section of the file sets up for this way of running.         *)
SetUp ==
    IF Command(line) = "service"
    THEN IF config.foreground THEN {"console"} ELSE {"file", "system"}
    ELSE IF config.foreground THEN {} ELSE Logs

(* The less severe of two records is not the more urgent one for the       *)
(* system's log. *)
Urgency ==
    \A m \in Level \ {UndefinedLevel} : \A l \in 0 .. m :
        /\ SyslogPriority(l) >= SyslogPriority(m)
        /\ EventlogType(l) >= EventlogType(m)

(* When the server starts, a log that the file sets up takes exactly the   *)
(* records of its level and above, if it could be opened, and the system's *)
(* log ranks them as the server does; in the foreground the console takes  *)
(* those of the debug level and above and no other log takes any.  What    *)
(* the foreground does under --use-config-logging is not in it.            *)
LogsAsWritten ==
    phase = "running" =>
        /\ Urgency
        /\ \A l \in SetUp, level \in Level \ {UndefinedLevel} :
              LET section == Sections(Written)[l] IN
              section # "none" /\ (l = "file" => log.fileOpen) =>
                 (l \in Reaches(level) <=>
                     level >= SectionLevel(section,
                                  IF l = "file" THEN "ERROR" ELSE "NOTICE"))
        /\ (Command(line) = "default" /\ config.foreground
            /\ "use-config-logging" \notin line.given) =>
              \A level \in Level \ {UndefinedLevel} :
                 Reaches(level) = IF level >= DebugLevel(line) THEN {"console"}
                                  ELSE {}

(* In the foreground with --use-config-logging the console takes what the  *)
(* file says, as the help of the option has it.  It does not: the option   *)
(* is read from the command line and forgotten.                            *)
ConfigLoggingIsUsed ==
    phase = "running" /\ {"foreground", "use-config-logging"} \subseteq line.given
    /\ Written.stderr # "none" =>
        \A level \in Level \ {UndefinedLevel} :
            "console" \in Reaches(level) <=> level >= SectionLevel(Written.stderr, "NOTICE")

(* An event has the identifier of its type, as the comment above           *)
(* messageIdToEventlogId() has it.  It has not: a DEBUG record is filed    *)
(* under the warnings, a WARNING one under the errors.                     *)
EventsAreFiled ==
    phase = "running" =>
        \A l \in Level \ {UndefinedLevel} : EventlogId(l) = EventlogType(l)
===============================================================================
