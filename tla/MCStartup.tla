------------------------------- MODULE MCStartup -------------------------------
(* Command lines and files that reach every branch of their parsers.  The  *)
(* numbers of the files lie around 0 and 65535, on both sides.             *)
EXTENDS Startup

Plain == [type |-> "socket", address |-> "*", port |-> Missing,
          maxConnections |-> 2, verify |-> ""]

Tls == [Plain EXCEPT !.type = "SSLsocket", !.port = 7961,
                     !.maxConnections = NotANumber]

Good == [readable |-> TRUE, listen |-> <<Plain, Tls>>,
         threads |-> 7, maxConnections |-> 65536, user |-> "nobody",
         stderr |-> "none", logFile |-> "default", syslog |-> "INFO",
         facility |-> "LOCAL2", eventlog |-> "none"]

MCContent == [
    good |-> Good,
    loud |-> [Good EXCEPT !.listen = <<[Tls EXCEPT !.port = Missing,
                                                   !.verify = "OFF"]>>,
                          !.maxConnections = NotANumber,
                          !.stderr = "DATA", !.logFile = "none",
                          !.facility = "AUDIT", !.eventlog = "WARNING"],
    quiet |-> [Good EXCEPT !.listen = <<>>, !.syslog = "none",
                           !.eventlog = "default"],
    port |-> [Good EXCEPT !.listen = <<Plain, [Tls EXCEPT !.port = 65536]>>],
    level |-> [Good EXCEPT !.logFile = "LOUD"],
    negative |-> [Good EXCEPT !.listen = <<[Plain EXCEPT !.port = -5, !.maxConnections = -1],
                                           [Tls EXCEPT !.port = -65535]>>,
                              !.threads = -65535, !.maxConnections = -65536],
    below |-> [Good EXCEPT !.listen = <<[Plain EXCEPT !.port = -65536]>>],
    zero |-> [Good EXCEPT !.listen = <<[Plain EXCEPT !.port = 0]>>],
    broken |-> [Good EXCEPT !.readable = FALSE]]

(* Any file at any of the places where one is looked for, a good one or    *)
(* none at the others, and a good one or none at home. *)
MCDisks ==
    {d \in [Places -> DOMAIN MCContent \cup {NoFile}] :
        /\ d["home"] \in {NoFile, "good"}
        /\ \E place \in Places \ {"home"} :
              \A other \in Places \ {"home", place} : d[other] \in {NoFile, "loud"}}

MCLines ==
    {[given |-> g, debug |-> d, user |-> "", file |-> f] :
        g \in {{}, {"foreground"}, {"check-config"}, {"service"},
               {"foreground", "use-config-logging"}, {"service", "use-config-logging"},
               {"help"}, {"print-config", "service"},
               {"install", "check-config"}, {"install"}, {"remove"}},
        d \in {"default", "ERROR", "LOUDER"},
        f \in BOOLEAN}
    \cup {[given |-> {}, debug |-> "default", user |-> "root", file |-> TRUE]}
===============================================================================
