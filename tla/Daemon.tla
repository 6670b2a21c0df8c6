-------------------------------- MODULE Daemon --------------------------------
(***************************************************************************)
(* The life of the server process on Posix (src/src/posixMain.cpp): the    *)
(* test of the pid file, daemonizing, the pid file, the server, the wait   *)
(* for a signal, the orderly stop.  Each member of Proc is one start of    *)
(* the program; processes share the pid file, its lock and the address.    *)
(*                                                                         *)
(* The pid file, file locks and the exclusive binding of a listening       *)
(* address belong to the operating system and are modelled by how main()   *)
(* uses them.  What an open() or a lock names is a file, not a path:       *)
(* removed counts the pid files that are gone, and opened remembers which  *)
(* of them a process is writing.                                           *)
(***************************************************************************)
EXTENDS Integers, FiniteSets

CONSTANTS
    Proc,           \* the starts of the program
    Foreground      \* those started with --foreground

ASSUME DaemonAssumption ==
    /\ IsFiniteSet(Proc)
    /\ Foreground \subseteq Proc
    /\ {"none", "empty", "nobody"} \cap Proc = {}

VARIABLES
    pc,             \* where main() of each process is
    pidFile,        \* "none", "empty", or the process it names
    removed,        \* pid files removed so far
    opened,         \* the pid file a process writes, by number
    locked,         \* the process that locks the current pid file
    listener,       \* the process that listens on the address
    overlapped      \* a start has begun while another was under way

vars == <<pc, pidFile, removed, opened, locked, listener, overlapped>>

Starting == {"check", "lock", "refusing",
             "daemonize", "create", "write", "start"}

Serving == {"up",           \* the server runs, signals have their defaults
            "waiting",      \* in sigwait()
            "stopping"}     \* server::stop() was called

Ended == {"left",           \* nothing to run, or a bad configuration
          "refused",        \* the pid file was in the way
          "failed",         \* an error during the start
          "killed",         \* by a signal or by an exception in a thread
          "stopped"}        \* in order

Where == {"none", "remove"} \cup Starting \cup Serving \cup Ended

Init ==
    /\ pc = [p \in Proc |-> "none"]
    /\ pidFile = "none"
    /\ removed = 0
    /\ opened = [p \in Proc |-> 0]
    /\ locked = "nobody"
    /\ listener = "nobody"
    /\ overlapped = FALSE

Go(p, l) == pc' = [pc EXCEPT ![p] = l]

(* The process is gone: the system takes back its lock and its sockets.    *)
Exit(p, l) ==
    /\ Go(p, l)
    /\ locked' = IF locked = p THEN "nobody" ELSE locked
    /\ listener' = IF listener = p THEN "nobody" ELSE listener

-------------------------------------------------------------------------------
(* The command line and the configuration are read; they may end the       *)
(* program at once.                                                        *)
Launch(p) ==
    /\ pc[p] = "none"
    /\ \/ Go(p, IF p \in Foreground THEN "start" ELSE "check")
       \/ Go(p, "left")
    /\ overlapped' = (overlapped \/ \E q \in Proc : pc[q] \in Starting)
    /\ UNCHANGED <<pidFile, removed, opened, locked, listener>>

(* exists( config.pidFile ) *)
CheckPidFile(p) ==
    /\ pc[p] = "check"
    /\ Go(p, IF pidFile # "none" THEN "lock" ELSE "daemonize")
    /\ UNCHANGED <<pidFile, removed, opened, locked, listener, overlapped>>

(* Bug: if( !lock.try_lock( )), though nobody keeps the lock. *)
TryLockInverted(p) ==
    /\ pc[p] = "lock"
    /\ Go(p, IF pidFile = "none" THEN "failed" ELSE "daemonize")
    /\ UNCHANGED <<pidFile, removed, opened, locked, listener, overlapped>>

(* file_lock throws if the file has gone; a lock that was obtained, of all *)
(* things, ends the program.                                               *)
TryLock(p) ==
    /\ pc[p] = "lock"
    /\ \/ pidFile = "none" /\ Go(p, "failed") /\ UNCHANGED locked
       \/ /\ pidFile # "none" /\ locked = "nobody"
          /\ Go(p, "refusing") /\ locked' = p
       \/ /\ pidFile # "none" /\ locked # "nobody"
          /\ Go(p, "daemonize") /\ UNCHANGED locked
    /\ UNCHANGED <<pidFile, removed, opened, listener, overlapped>>

Refuse(p) ==
    /\ pc[p] = "refusing"
    /\ Exit(p, "refused")
    /\ UNCHANGED <<pidFile, removed, opened, overlapped>>

(* daemon(), getgrnam() and getpwnam(), setgid(), setuid() *)
Daemonize(p) ==
    /\ pc[p] = "daemonize"
    /\ Go(p, "create") \/ Go(p, "failed")
    /\ UNCHANGED <<pidFile, removed, opened, locked, listener, overlapped>>

(* The stream truncates the pid file or makes a new one. *)
CreatePidFile(p) ==
    /\ pc[p] = "create"
    /\ \/ /\ Go(p, "write")
          /\ pidFile' = "empty"
          /\ opened' = [opened EXCEPT ![p] = removed]
       \/ Go(p, "failed") /\ UNCHANGED <<pidFile, opened>>
    /\ UNCHANGED <<removed, locked, listener, overlapped>>

WritePid(p) ==
    /\ pc[p] = "write"
    /\ Go(p, "start")
    /\ pidFile' = IF opened[p] = removed THEN p ELSE pidFile
    /\ UNCHANGED <<removed, opened, locked, listener, overlapped>>

(* The constructor of the server binds its addresses, or throws out of     *)
(* main()'s try block; then the threads run.                               *)
StartServer(p) ==
    /\ pc[p] = "start"
    /\ \/ /\ listener = "nobody"
          /\ listener' = p
          /\ Go(p, "up")
       \/ Go(p, "failed") /\ UNCHANGED listener
    /\ UNCHANGED <<pidFile, removed, opened, locked, overlapped>>

(* The second pthread_sigmask(): from here on signals wait for sigwait().  *)
BlockSignals(p) ==
    /\ pc[p] = "up"
    /\ Go(p, "waiting")
    /\ UNCHANGED <<pidFile, removed, opened, locked, listener, overlapped>>

(* sigwait() returns: server::stop(). *)
Terminate(p) ==
    /\ pc[p] = "waiting"
    /\ Go(p, "stopping")
    /\ UNCHANGED <<pidFile, removed, opened, locked, listener, overlapped>>

(* Bug: main() returns after t.join(). *)
StopServerKeeping(p) ==
    /\ pc[p] = "stopping"
    /\ Exit(p, "stopped")
    /\ UNCHANGED <<pidFile, removed, opened, overlapped>>

(* t.join(): the acceptors are closed and the threads have ended.  Only a  *)
(* daemon has a pid file to remove.                                        *)
StopServer(p) ==
    /\ pc[p] = "stopping"
    /\ Go(p, IF p \in Foreground THEN "stopped" ELSE "remove")
    /\ listener' = IF listener = p THEN "nobody" ELSE listener
    /\ UNCHANGED <<pidFile, removed, opened, locked, overlapped>>

(* remove( config.pidFile ), whoever wrote it. *)
DeleteFile(p) ==
    /\ pc[p] = "remove"
    /\ Go(p, "stopped")
    /\ IF pidFile = "none"
       THEN UNCHANGED <<pidFile, removed, locked>>
       ELSE pidFile' = "none" /\ removed' = removed + 1 /\ locked' = "nobody"
    /\ UNCHANGED <<opened, listener, overlapped>>

(* A signal where it has its default action, or an exception in a thread   *)
(* of the server.                                                          *)
Kill(p) ==
    /\ pc[p] \in Starting \cup Serving \cup {"remove"}
    /\ Exit(p, "killed")
    /\ UNCHANGED <<pidFile, removed, opened, overlapped>>

Next ==
    \E p \in Proc :
        \/ Launch(p) \/ CheckPidFile(p) \/ TryLock(p) \/ Refuse(p)
        \/ Daemonize(p) \/ CreatePidFile(p) \/ WritePid(p)
        \/ StartServer(p) \/ BlockSignals(p)
        \/ Terminate(p) \/ StopServer(p) \/ DeleteFile(p) \/ Kill(p)

Spec == Init /\ [][Next]_vars

-------------------------------------------------------------------------------
(* Every variable has its type; only a start that is about to give up holds *)
(* the lock, only a process that serves listens.                           *)
TypeOK ==
    /\ pc \in [Proc -> Where]
    /\ pidFile \in {"none", "empty"} \cup Proc
    /\ removed \in Nat /\ opened \in [Proc -> Nat]
    /\ locked \in {"nobody"} \cup {p \in Proc : pc[p] = "refusing"}
    /\ listener \in {"nobody"} \cup {p \in Proc : pc[p] \in Serving}
    /\ overlapped \in BOOLEAN

(* If starts do not overlap, the pid file names the daemon that serves,    *)
(* whatever other starts are refused, fail or are killed meanwhile: an     *)
(* administrator's kill reaches the server.                                *)
PidFileNamesDaemon ==
    ~overlapped =>
        \A p \in Proc \ Foreground : pc[p] \in Serving => pidFile = p

(* When every process has ended in order, or was refused, no pid file is   *)
(* left to refuse the next start, even if starts overlapped.               *)
CleanStopLeavesNoFile ==
    (\A p \in Proc : pc[p] \in {"none", "left", "refused", "stopped"})
        => pidFile = "none"

(* posixMain.cpp, "try to lock the pidfile, bail out if not possible":     *)
(* a start gives up only if another process is there.                      *)
RefusedOnlyWhileRunning ==
    \A p \in Proc :
        pc[p] = "refusing" =>
            \E q \in Proc \ {p} : pc[q] \in Starting \cup Serving \cup {"remove"}
===============================================================================
