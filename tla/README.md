# SMERP in TLA+

A model of the SMERP server and of what surrounds it: TLA+ modules for its
concurrent parts, for its start from a command line and a configuration file on
Posix and on Windows, for the handlers of its examples, for authentication, the
Qt client and the XML scanner; TLC configurations that check them on small
instances; and proofs that TLAPS checks for every value of the constants. Paths
are relative to the root of the repository unless they are modules.

## 1. The system

SMERP is a server framework in C++ on boost::asio. `main()` reads a command line
and a configuration, sets up the logs, becomes a daemon (or a Windows service)
and starts a `server`: one acceptor per listening endpoint (plain or SSL) and a
pool of threads that all run one `io_service`. An acceptor creates a
`connection` per client; a connection owns a socket, a timer and a strand and
drives a `connectionHandler`, a state machine that is asked for the next network
operation and told what came of it. The examples are further handlers: `echo`,
`pecho` (the protocol library's echo), `mtproc` and `lua`, which leaves its
decisions to a script. A Qt client talks to the server.

```
 command line, file ── posixMain | winMain ── log backend
                             │
              pid file ── server ── acceptor (strand) ── connection (strand, timer, socket)
              or SCM         │            │ connList_           │  callbacks / nextOperation
                          threads     global list        connectionHandler
                                                          smerpConnection | echo | pecho | lua
                                                               │             │       │
 Qt client ── a line, its echo, good-bye ──────────────────────┘   protocol blocks  Lua machine
```

### Inventory

| Part (source) | State | Operations | Talks to | Hard because | Correct if |
|---|---|---|---|---|---|
| Connection (`src/src/connectionBase.hpp`, `connection.hpp`, `smerpHandler.cpp`) | handler state, `readBuf_`, `dataStart_`, `dataSize_`; socket, timer, pending operations | start, handleRead, handleWrite, handleTimeout, handleSignal, nextOperation | the kernel, the acceptor's list | handlers queued on the strand in any order; a cancelled timer may fire; bytes arrive in arbitrary pieces | the buffer is not overrun, lines come back whole and in order, a client that leaves or is silent is dropped, one operation at a time |
| Acceptors and lists (`acceptor.cpp`, `connection.cpp`, `connection.hpp`, `server.cpp`) | `connList_` per socket, the global list, `acceptor_`, the pending accept | handleAccept, handleHandshake, isFull and push, unregister, stop, handleStop | connections, the threads | test and push are not atomic; a stop races accepts and handshakes; exceptions end the process | limits hold as far as the code can keep them, no slot leaks, the stop reaches the clients |
| Object pool (`src/include/objectPool.hpp`) | `available_`, `mutex_`, `cond_` | get, add | user threads | notify after the unlock, timeouts, spurious wake-ups | no object shared or lost, no lost wake-up |
| Daemon (`posixMain.cpp`) | the pid file and its lock, the address | start, stop, crash | the operating system, other starts | crash and restart, overlapping starts | the pid file tells the truth |
| Configuration and command line (`commandLine.cpp`, `configFile.cpp`, `appConfig.cpp`) | plain records, some fields never initialised | parse, find the file, default, merge, check | main | several places for the file, two kinds of socket, defaults made in three files, signed numbers read as unsigned ones | the server gets what is written, or the documented default |
| Logs (`logBackend.cpp`, `logLevel.cpp`, `logSyslog*.cpp`) | the levels of three logs, the facility, the open file | set level, file, syslog, event log; log a record | all threads | set one after the other while main() runs; three rankings of levels | a record reaches exactly the logs that ask for its level |
| Windows service (`winMain.cpp`) | `serviceStatus`, the stop event | report in two steps and a send, stop, interrogate | the service manager | two threads fill one global without a lock | a stop that may be sent stops the server |
| Authentication (`src/src/authentication*.cpp`) | a step machine per authenticator, PAM handle | nextStep, sendData, receiveData | PAM, a file | one authenticator shared by all callers, whose state outlives a login | a login's answer depends on that login |
| Protocol library and pecho (`protocol_ioblocks.cpp`, `src/include/protocol/*`, `examples/pecho/`) | input block, end-of-data state, command buffer, output block, mode | networkInput, nextOperation, getEoD | connectionBase | words and end of data cut anywhere; bytes moved inside the block; state that outlives a request | the answer does not depend on the cut; no access out of bounds |
| Lua handler (`examples/lua/luaHandler.cpp`, `echo.lua`) | the machine, the script's globals, the string under a write | as smerpConnection | connectionBase, Lua | a string is popped before its write is over; errors of the script | the string outlives its write; the client sees an echo server |
| echo and mtproc handlers (`src/examples/`) | as smerpConnection; a dispatcher | as above | connectionBase | as above | as above |
| Qt client (`src/clients/qt/`) | `m_state`, SSL flags, socket | connect, disconnect, sendRequest, readyRead, encrypted, error | the server, the user | several lines in one signal; commands while a transition is under way | every answer is shown once, in order; no state between two for ever |
| XML scanner and selection (`examples/xmlselect/textwolf.hpp`) | table state, token state, output; automaton, scopes, tokens, triggers | nextItem, process, fetch | its caller, which feeds blocks | a block may end inside of every token; candidates expire and count down | the items do not depend on the cut; those that are selected are those a path selects |
| Atomic counter, singleton, small tests | a counter; one instance | increment, compare | – | no locks, or only some | – |

What is hard to test in this code is listed, line by line and with the
properties that cover it, under `hazards` in `PROJECT.json`.

## 2. Modules

| Module | Models | Composes or uses |
|---|---|---|
| `ConnectionBase` | `connectionBase<>`: socket, timer, pending operations; `Read`, `Write`, `Close` are the cases of its `nextOperation()` | – |
| `Connection` | `smerpConnection` (and `echoConnection` of the echo example, the same statements) with its callbacks; one action per handler of the strand | extends `ConnectionBase`, instantiates `Session` |
| `Session` | the abstract promise to a client: no buffer, no timer | – |
| `LuaEcho` | the lua example: handler, machine and script | extends `ConnectionBase`, instantiates `Session` |
| `Acceptor` | acceptors, lists, limits, handshakes, the stop | stands for a served `Connection` by its end, `Leave` |
| `ObjectPool` | `ObjectPool<>` as `poolTest.cpp` drives it | – |
| `Daemon` | `main()` of several starts of the program | – |
| `Configuration` | command line, file, and the configuration made of both: pure operators | – |
| `LogBackend` | the levels and the facility, where a record goes and how it is ranked | extends `Configuration` |
| `Startup` | from `main()` to a server that runs, on both builds | extends `LogBackend` |
| `WinService` | the service's main thread, the control handler on the dispatcher's, their reports | – |
| `Authentication` | the factory, the text file and PAM step machines, PAM's conversation, logins in a row | – |
| `InputBlock` | `InputBlock::getEoD`, one action per turn of its loop | – |
| `Pecho` | the pecho handler: every state of `nextOperation()`, `networkInput()`, the callbacks | extends `InputBlock` |
| `PechoSession` | what a client with one request sends and should get, without the handler: a byte-at-a-time reference for the data and the words | extends `Pecho` |
| `QtClient` | `SMERPClient` and the commands of the `DebugTerminal`; its server keeps the promise of `Session` | – |
| `XMLScanner` | `nextItem()`, one action per character, left and entered again at every cut | – |
| `XMLSelect` | the two callers of the scanner: its own iterator, which takes the items of every block, and the path automaton, built and run over the items of one | extends `XMLScanner` |
| `MC*` | values of the constants | |
| `*Proofs` | theorems of the module they name; `MainProofs` has those of `Daemon`, `WinService` and `Startup`, `ServerProofs` those of `Acceptor` and `ObjectPool` | extend the modules they are about |

Operators whose comment begins with "Bug:" are not part of a specification. Each
is a plausible wrong version of the definition below it; a property that the
wrong version does not violate would say nothing about the code (`mutants` in
`PROJECT.json`).

### How the state and the actions correspond to the code

**Connection.** `handler` is the fields of `smerpConnection`; `base` is what
asio knows: is the socket open, where does the pending read put its bytes, how
many operations are pending, is the timer running. The action `HandleRead` is
the whole of `connectionBase::handleRead`: `setTimeout(0)`, `networkInput()`,
and the `nextOperation()` it ends with, which starts the next operation.
Cancelling a timer is `Cancelled`: either the wait is stopped or it had already
expired and its handler is queued (`late`). An error and a short read are
choices. `readBuf_` starts with any content because the code does not
initialise it, and the comparison with `"quit"`, which looks at four bytes even
if fewer were received, finds any byte past the end of the buffer.
`received` and `echoed` are histories: the bytes handed to `networkInput()` and
the lines handed to a write.

**LuaEcho.** `vm` is the machine: its life and the globals of `echo.lua`. An
action is a callback with the function of the script it calls and the
`next_operation()` that follows. `base.writes` keeps the strings under a write;
the string of a write is alive while the machine lives and a global or a literal
of the script still refers to it, since the collector may run at any moment.

**Acceptor.** `phase[c]` follows a client from the kernel's accept to its end.
`handleAccept` and `handleHandshake` are two steps each, up to `isFull()` and
from the push on, because between them another thread may run; `Deciding` are
the handlers in between, and there are no more of them than threads. A plain
acceptor decides on its own strand, an SSL connection on the connection's.
`local_endpoint()` of a closed acceptor, `remote_endpoint()` and `write_some()`
of a client that is gone throw out of `io_service::run()`: `crashed`.

**ObjectPool.** A step is what runs under `mutex_`. `Get` is one turn of the
outer loop, `Recheck` the inner test after a wake-up, `Expire` and `ReturnNull`
the timeout, `Add` and `Notify` the two halves of `add()`.

**Daemon.** Each member of `Proc` is one start; `pc` is its place in `main()`.
The pid file has a number (`removed`) so that writing into a file that another
process removed is told from writing into the present one.

**Configuration, LogBackend, Startup.** A command line is a record of the
options given, a file a record of its sections; a number is an integer, absent
(`Missing`) or no number. It is read into an unsigned type, which wraps a
negative one around if its digits fit (`Converts`, `Wrapped`): a port of -5 is
65531. Parsing is a set of possible configurations, because a field the
code never initialises (`Garbage`) may hold anything. `Startup` walks through
`main()`: `disk` says what lies at each place where a file is looked for or where
a user would put one. The user's own file is looked for under the name
`~/smerp.conf`, which nobody expands: the place `"tilde"` is a file in a
directory called `~`, the place `"home"` the one nobody looks at. `build` says
which of the two programs was compiled, `config` what the server would get,
`log` what the one backend holds. `--use-config-logging` is an option that is
accepted and has no effect. What a start does to the pid file is
`Daemon`'s, what it tells the service manager is `WinService`'s.

**WinService.** `report[t]` is the call of `service_report_status()` that thread
`t` is in: `Fill` and `Adjust` write the global `serviceStatus`, `Send` hands
over what is there by then, which may be the other thread's. The service manager
is external: it keeps the last report and sends a stop only while stops are
accepted.

**Authentication.** `auth` is the authenticator, which the factory keeps for all
callers; `at` and `step` are the caller's loop of `tests/testAuth.cpp`, and
`typed` what was entered in this login. `stack` is the conversation PAM holds,
a choice of the run.

**InputBlock and Pecho.** The block is a function from places to bytes, `pos`
is `m_pos`, `scan` the local variables of `getEoD`. `op` is the operation the
handler has returned (`"read"`, `"write"`, `"closed"`), or says that it runs or
scans. Bytes are names; words are short sequences of letters. `unread` is what
the client has yet to send and `expected` what it expects in answer to the
whole, both from the constant `Client`. The leading zero is kept (`Zero`)
because the command buffer of the code, which starts as an empty number in
base 36, cannot tell "a" from nothing: words are read as numbers, and the
letter that stands for the digit zero does not count at their beginning.

**QtClient.** An action is a slot (`Connected`, `Encrypted`, `ReadyRead`,
`Breaks`, `RemoteHostClosed`) or a line the user enters. A line longer than what
`readyRead()` reads at one time is two pieces. What was read stands in `shown`.

**XMLScanner, XMLSelect.** `Scan` handles one character: a token that is being
parsed (`place` and `tokstate` say how far) or an element of the table of
states. When the bytes fed run out the action that would need the next one
leaves `nextItem()`. What comes then depends on the caller. With `paths = 0` it is
the scanner's own iterator: it asks under a mask of its choice (`Masks`), takes
each item (`TakeItem`), and after the end of a block `Feed` gives more and the
next call starts again from the members. With paths it is the iterator of
`XMLPathSelect`, whose `skip()` is declared `throw(exception)`; what an input
block throws at its end is no such exception, so `std::unexpected()` ends the
program (`Unexpected`), and a selection sees one block. `Process` is `XMLPathSelect`'s `initProcessElement()`, and
`MatchToken`, `MatchFollow`, `PopTrigger` and `EndOfCandidates` are the turns of
`fetch()`. The automaton is computed from the calls that define the paths
(`PathCall`) by the operators of the builder, with the code's overwriting of
links; the loops of the builder and of `expand()` are functions over the calls
and over the states linked to one another. What does not fit in the first scope
throws in the constructor, so `Init` has a selection only of paths that fit.

### Abstract specification

`Session` promises a client that it is admitted or refused; that while it is
served each complete line it sends comes back once, whole and in order; and
that a client that was dismissed is disconnected and never served again.
`Connection` implements it (`ImplementsSession`), with the phase computed from
the handler's state and the socket; `SessionEnds` is its liveness. `LuaEcho`
implements it, too, with the phase computed from the life and the state of the
machine. Both refinements are checked and proved.

`ExpectedResult` (Pecho), `ItemsAsWritten` and `SelectionIsRight` (XML) compare
an incremental machine with a reference definition that sees the whole input at
once; `ServesWhatIsWritten` and `LogsAsWritten` compare the merged configuration
with the file.

## 3. What the runs check

| Run | Instance | Shows |
|---|---|---|
| `connection` | buffer of 4, bytes q, t and newline, "quit" of 2 bytes, 5 bytes received, 1 late timer; 293,962 states | the buffer is never overrun (`ReadFits`), one operation at a time while serving (`HalfDuplex`), never left without a pending operation (`NoOrphan`), the echo is faithful, no complete line stays unanswered, no service after leaving, refinement of `Session`; silent clients are disconnected if timers expire (`ClientsLeave`), dismissed ones without that premise (`SessionEnds`) |
| `acceptor` | a plain socket with limit 1, an SSL socket without, 3 clients, 2 threads, global limit 1 | plain limits are exact, the global one is overshot by at most `Threads - 1`, the lists count exactly the clients, the stop reaches every plain client and ends, no client leaves its acceptor deaf |
| `pool` | 4 threads, 2 objects, 2 rounds, with and without timeout; 158,332 states | exclusive use, no lost wake-up, the pool is restored, the threads join; without a timeout every `get()` was served by then, with one that is not claimed (section 5) |
| `daemon` | 4 starts, one in the foreground; 80,449 states | the pid file names the daemon unless starts overlapped; orderly ends leave none |
| `daemon_stale` | 2 starts | **violation**: a stale pid file refuses the next start |
| `start` | 67 command lines; nine files (good, loud, quiet, negative numbers, bad ports, bad level, broken) or none at each place; both builds; 488,008 states | the server's sockets are those of one file, the one the code looks at first, or of the documented defaults, negative ports taken modulo 65536 (`ServesWhatIsWritten`); every log that is set up takes exactly the records it asks for, ranked as the server ranks them, and a foreground without `--use-config-logging` logs on the console alone (`LogsAsWritten`) |
| `winservice` | a stop and 2 interrogations at any time; 5,961 states | a service that waits is known to run and to accept a stop (`CanBeStopped`); a stop that may be sent stops the server (`StopStopsServer`); both unless an interrogation came before the service was said to run |
| `auth` | 3 logins in a row, 3 users, 3 passwords (one empty), 6 PAM conversations, the text file, a mechanism that is listed and not made; 2,083 states | a success is earned in its own login (`SuccessIsEarned`), a failure is not what an earlier failed login left (`FailureIsEarned`) |
| `pecho` | blocks of 1, 2, 3, 4 and 16, output blocks of 1, 2, 3; echos of up to two lines in three modes, and eight other requests, a blank behind some of the modes; 118,265 states | the client gets what it expects wherever the input is cut, everything stays in bounds, the session ends |
| `lua` | reads of 3, lines of at most 2, 6 bytes received, 1 late timer; 79,754 states | the line under a write is the script's (`MessageOutlivesWrite`), refinement of `Session` |
| `client` | 2 lines, one longer than what is read at one time, 2 connections; 44,820 states | what is shown is what was answered, in order (`AnswersInOrder`); no transition lasts for ever (`TransitionsEnd`) |
| `xml` | 8 documents, each read by the scanner's iterator under 4 masks and cut in every way, and selected from by 9 sets of paths up to the end of a block anywhere; output of 16 bytes, 3 scopes, 16 follows, 8 triggers, 24 tokens; 137,320 states | the items are those written (`ItemsAsWritten`); each item of the first block is selected once for every way a path leads to it (`SelectionIsRight`) |

### Bounds, and why they are enough

* `connection`: a buffer of 4 with a command of 2 lets a line be complete, be
  split over reads, just fill the buffer and overfill it, lets two lines arrive
  in one read with a rest that must move, and lets the command straddle the end
  of the buffer. Five bytes are one more than the buffer holds. One queued late
  timeout is what the races with a read or a signal need; a second would find
  the state the first has left (`TERMINATE` or `FINISHED`). The safety part is
  proved for every size.
* `acceptor`: three clients fill a global limit of 1 and overshoot it by the one
  that two threads allow, with one left to be refused. The limits are proved for
  every number of sockets, clients and threads. Liveness is checked with the
  safety, hence without symmetry.
* `pool`: more threads than objects, so that threads wait; two waiting threads
  and two returned objects are what a lost wake-up needs; two rounds let a
  thread that returned come back before the one that was notified.
* `daemon`: a crash, its successor, an overlapping start and one in the
  foreground.
* `start`: every option that changes the way, alone and beside another, with
  three debug levels (none, one, an unknown one) and with and without a named
  file; files with and without each section, numbers on both sides of what fits
  (0, 65536, -5, -65535, -65536), absent and none. Any file may lie at one place
  with a good one or none at the others (`MCDisks`), and a good one or none in the
  home directory: a file that is read at the wrong time differs from the right
  one. `UnsignedMax` is 2^31 - 1 and not the 2^32 - 1 of the builds, the largest
  integer TLC has; nothing but the limit of -1 comes near it, and the theorems
  hold for any. Fields that are not initialised take the least and the greatest
  level.
* `winservice`: two interrogations let one come during the start and another
  with or after the stop; the handler takes one control at a time.
* `auth`: the second login finds what the first left, the third what a success
  and a failure in either order left.
* `pecho`: blocks of 1 to 4 cut every word, line end and end of data everywhere,
  a block of 16 holds a line, an end of data and what follows it. Output blocks
  shorter than a line make the echo stop and go on. `FullReads` says that a read
  fills the block unless the client has nothing left, which is how the unit test
  feeds the handler; see section 5 for what happens without it.
* `lua`: a line that fits, one that is too long before its newline comes, the
  command at the front and behind a line; six bytes are two reads.
* `client`: the second connection meets what the first left; a command may be
  entered between any two slots.
* `xml`: the documents cover every kind of item, entities, also one that does not
  fit, a character of two bytes, nesting of a name in itself, an early end, a text
  longer than the output and an element deeper than the scopes allow; the paths
  cover every call of the builder. The masks (`MCMasks`) ask for the text of all
  items, of some and of none, so that tokens are parsed or skipped. For the
  scanner's iterator blocks end behind any byte, and several cuts in one document
  are behaviours of the run; for a selection the one block may be any beginning of
  the document.

### Fairness

* `Connection!Progress`: a pending write ends, because the client reads or goes
  away (the code sets no timeout on a write: a client that does neither holds
  its connection, and this is assumed and not shown); closing the socket makes
  asio complete a pending read with an error; a dispatched signal runs. Nothing
  makes a client send. `TimersExpire` is a premise of `ClientsLeave` alone, so
  that the other liveness properties are seen not to lean on timers.
* `Acceptor!FairSpec`: handlers that are queued run, since the threads of the
  pool do nothing else. Strong fairness where a strand or the pool of threads
  may be busy again and again: for `HandleStop`, and for the end of a client
  that was signalled, which `SessionEnds` of `Connection` shows. Nobody makes a
  TLS handshake end: the code has no timeout for it.
* `ObjectPool!PoolFairSpec`: threads that are not blocked run. No fairness on
  spurious wake-ups and on timeouts.
* `Pecho!FairSpec`: the client sends what it has to say and reads what it is
  sent. No fairness on timeouts and signals.
* `WinService!ServiceFairSpec`: both threads run, and a wait returns once its event is
  set. Nothing makes the service manager send a control, and no wait need fail.
* `QtClient!FairSpec`: an attempt to connect and a handshake end one way or the
  other (Qt's timeouts), what is sent arrives, the server serves. No fairness
  on the user, on `Breaks` and on `Dismiss`.

`CHECK_DEADLOCK FALSE` is set throughout because each of these systems may
stop: a connection closes, the clients of a run are used up, threads finish,
processes end, a document has been read.

## 4. What is proved

Proofs hold for every value of the constants that satisfies the assumptions
stated in the modules: a buffer size of at least one, a "quit" of at least one
byte, limits and times that are natural numbers, finite sets of connections,
threads and objects, at least one thread, input blocks of at least one byte,
words of the protocol that are made of letters and not empty, documents that are
sequences of bytes and an output buffer with room for one character
(`ScannerAssumption`; `print()` asks for eight bytes), paths that are made of calls
of `PathElement` in any number and order (`SelectAssumption`), for authentication
passwords and conversations of the right types, for the start that what an
uninitialised level can hold is some level (`GarbageAssumption`), that what stands
for no number is none (`NumberAssumption`) and that no file has the name that
stands for no file (`StartupAssumption`).

| Module | Theorems | Argument |
|---|---|---|
| `ConnectionProofs` | `ReadsFit`, `ServedHalfDuplex`, `EchoIsFaithful`, `TypeCorrect`, `NobodyIsOrphaned`, `LeavingIsFinal`, `SessionIsImplemented`, `NothingStaysUnanswered` | All actions end in `NextOperation`, so the proof is split there. `Ready(h, n)` is what a callback guarantees, `Kept(h, n)` what the next one may rely on; the lemma `NextOperationKeeps` leads from one to the other and each callback is shown to make the handler ready. `ControlInv` is `Kept` of the present state: the pending operation matches the handler's state and the read fits. `DataInv` adds `Tracks`: the unread window holds exactly what was received and not yet echoed. Neither half is inductive alone: `Tracks` needs to know where the read was put. The refinement and the action property follow step by step from `DataInv`: what a callback enters `NextOperation` with decides which step of `Session` it is. `NothingUnanswered` holds where `NextOperation` has searched the window and found nothing, and a read that is pending has not moved it since. |
| `LuaEchoProofs` | `LineOutlivesWrite`, `LuaSessionIsImplemented` | `LuaInv`: before the start and after the end nothing is pending, or `Kept`, which ties the pending operation to the machine's life and state, and the script's buffer to what was received and not echoed. |
| `ServerProofs`, the acceptors | `AcceptorTypeCorrect`, `SlotsAreExact`, `StopReachesEveryPlainClient`, `OvershootIsBounded`, `OneThreadIsExact`, `PlainLimitIsKept`, `StopIsFinal` | A connection that has passed the test is pledged a slot before it is in the list. Listed and pledged together never exceed the global limit by as much as `Threads`: a test succeeds below the limit, and the other deciding handlers, at most `Threads - 1`, may have been pledged on the same count. A plain acceptor has one client between accept and push (`OneAtATime`), so its own limit is exact. `Control` also says that an acceptor that has stopped is closed and has no accept pending; from it follows that no client comes any more, and that `handleAccept` of one that had come ends the process at `local_endpoint()`. |
| `ServerProofs`, the pool | `PoolTypeCorrect`, `ObjectsAreExclusive`, `WakeupsAreNotLost`, `PoolIsRestored` | `PoolInv`: exclusive use, holders are exactly the threads that use an object, and as long as somebody waits every available object has a thread coming. Initially the pool is a permutation of the objects (pigeonhole, `FilledOnce`). |
| `MainProofs`, the daemon | `PidFileIsTrue`, `CleanStopIsClean` | `SerialInv`: unless starts overlapped, one process starts, one owns the pid file, and from its first byte the file is the owner's. `FileAccounted`: a pid file that exists belongs to somebody on the way, or who failed. |
| `MainProofs`, the service | `ServiceTypeCorrect`, `ServiceCanBeStopped`, `StopSignalIsKept` | `ServiceInv`: the two threads may write `serviceStatus` in any order, but unless an interrogation came while the service was starting the handler has nothing to report before the SCM was told RUNNING, so the report that says so is whole; and the stop's handler has set the event before it reports anything. |
| `MainProofs`, the start | `StartupTypeCorrect`, `StartServesWhatIsWritten`, `StartLogsAsWritten` | `StartupInv`: from the place where the file is chosen the configuration is one that this file can yield (`FromFile`), `WayThere` says who comes how far with it, and each log is silent or has the configuration's level (`LogsFollow`). Parsing is not restated: the lemmas say what every member of the set of possible configurations has in common with the file, and that a number which converts comes out modulo the size of its type (`WrappedNumber`, `WrappedWord`). |
| `AuthenticationProofs` | `SuccessEarned`, `FailureEarned` | `LoginInv`: the caller's place and the authenticator's state fit (`StatesFit`), what the authenticator holds at a place where it matters was typed in this login (`OfThisLogin`), and what it still holds from the login before is a name and an empty password (`OfTheLast`). The property alone is not inductive: `has_pass` does outlive a success, and only because the password is cleared beside it does nobody get in on it. `FailInv` adds that before the first success `has_pass` says whether a password was given in this login (`HasPassFits`), and that a refusal that is still to be told was deserved (`RefusalIsEarned`). |
| `PechoProofs` | `PechoTypeCorrect`, `StaysInBounds`, `WordsSurviveCuts`, `GetEoDIsRight`, `HandlerGetsTheData`, `EchoLosesNothing`, `HandlerReadsOn`, `DataComesBack`, `OneRequestIsAnswered` | `Inv` = types, `MovesDown` (`dstsize <= eatsize <= bufpos`, and the end of data lies below `dstsize`) and `Placed` (the iterator stays before the end of the message also while the network writes). Reads of any length, also short ones, and any client. `Min` of a set of places is its least element by well-founded induction over the naturals (`LeastExists`). What the handler makes of the bytes is proved in three parts. *Words*: the command buffer holds the letters read so far, so a word is found whatever the cut (`WordsSurviveCuts`). *End of data*: a reference reads the input byte by byte with the code's states; `getEoD` computes it over its block although it moves bytes as it goes (`ScanInv`: what is counted, what is moved, where the end was found), and the handler has what it leaves (`GetEoDIsRight`, `HandlerGetsTheData`). The reference is a function over the length of the input, shown to exist by a least counterexample. *Echo*: what was sent, what lies in the output block and what the filter makes of the rest of the data, joined, do not change while it is echoed (`EchoLosesNothing`). `Left` (bytes before the handler, then a word to be used up, then the rank of the state) and `Short` (the scan and the write that are under way) fall with every step between two reads (`HandlerReadsOn`). *Together*: `DataInv` follows a request from where getEoD begins on: c bytes of its data are with what was sent, what waits in the output block and what the input block has ready, and they are the first c bytes' text; the rest is in the block getEoD is in (`DataScanned`), with the network while the block is echoed (`DataEchoed`) or about to be read (`DataAwaited`). At the end of data all of it is sent, and stays so (`DataComesBack`). `FullReads` is needed for the one step from a block to the next: getEoD reads all of the memory, so a read that does not fill it has it take stale bytes for data. `before` names what precedes the data, including what an earlier request left in the output block, the quirk that `MCPechoTwice.cfg` shows. Any bytes have a reckoning and a text (`ByteByByteExists`, `TextExists`), so the hypotheses ask for no more than an end of data. *A session* with one request (`PechoSession!Session`) goes through stages: before the greeting (`NotYet`), the word "echo" (`Commanding`), the argument (`Arguing`, `Beginning`), the data (`Underway`, which is `DataUnderWay` above), the line end that is left of it (`Done`, `Leaving`), the word "quit" (`Quitting`), the end (`Over`). At each stage it is known what was sent, what the command buffer holds (the letters of the word before the cut, or nothing: `SpentHolds`), and that the rest of what the client sends is ahead of the handler, in its block and then with the network (`Ahead`). `StageLeads`: every step keeps the stage or leads to a later one. What was sent at any stage is a beginning of the answer (`StageBegins`), which is `ExpectedResult`. The stage `Leaving` shows a quirk: `getEoD` gives up a place for the end of data and leaves in it whatever lies there, and this byte is the first that is read as the next command. It is one of as many bytes before the end as dots were left out before it (`Behind`), and the theorem asks that these be blanks, line ends or spell nothing; three dots in a block suffice for it to be a letter of the data (section 5). |
| `QtClientProofs` | `ClientTypeCorrect`, `ClientAnswersInOrder` | `ClientInv` follows the stream: shown, then buffered, then under way to the client. While the server serves, the stream is exactly what the lines it has read call for, and the lines it has not read are those under way to it. Later the stream can lose its end and gain one farewell. The lemmas about `FlattenSeq` are proved by least counterexample, since the library's induction theorems are out of reach. |
| `XMLSelectProofs`, the scanner | `ScannerStaysInBounds`, `ScannerResumes` | `ScannerInv` = `InBounds`, `Inside` (what `nextItem()` is at is what the state of the table asks for under the mask, or it is done with that) and `Outside` (a token that the end of a block left belongs to the operation the state asks for, and the mask changes only when there is no such token). `Resume` is where the next call will go on; the end of a block, the block fed next and the call leave it as it was (a selection is not fed, its end is `Unexpected`). The bounds alone are not inductive: a keyword is looked for under the count that a cut left only because the state is still the same. Nothing in the proof looks into the table, so it holds for any; `ParseTokenStep` and its likes show that a step inside of a token goes on, is over or is an error. |
| `XMLSelectProofs`, the selection | `AutomatonIsSound`, `SelectionStaysInBounds`, `FetchEnds` | For any paths, document and sizes of the lists; a state without paths has nothing selected (`NothingSelected`), the others have `SelectInv` (`SelectsOrNot`). *Automaton*: each call of the builder leaves the states well formed (`AStates`: a key leads to a state that exists, a link to a later one), so the walk along the links ends (`ChainIs`, by least counterexample over what is left of the list). *Lists*: `SelectInv` = `ListsInv` and `FetchInv`. That the indices of the scope at hand exist is not inductive: `</a>` brings back a scope that was saved while the lists were shorter, and `resize()` cuts what was added since. `ScopesFit` says why it is sound: the saved scopes lie within each other and within the one at hand, and the follows of a scope are tokens before its end, so no cut reaches what an outer scope refers to. `FetchInv` adds that no key is pending while an item is at hand and that `iter` is not past the candidates. *End*: `FetchGoesOn` counts the candidates (tokens of the scope, then its follows) and then the triggers; what a match adds lies behind the scope and is not visited for this item. |

Theorems without a `property` in `PROJECT.json` say more than a run checks.
`OneThreadIsExact`: with one thread `GlobalLimit` holds, which
`MCAcceptorGlobal.cfg` refutes for two. `StopIsFinal`: what `MCAcceptorStop.cfg`
finds once is the rule. `StopSignalIsKept`, `HandlerReadsOn`: the parts of
`StopStopsServer` and of `ConnectionCloses` that need no fairness (the former
with the exception of an early interrogation that the property has, too).
`ScannerStaysInBounds`, `ScannerResumes`: why the items can be the same wherever
a document is cut, for a caller that takes the items himself; the two cuts that
`ScannerResumes` excepts are named there
(behind a keyword, which is looked for a second time, and before a digit of a
numeric character reference, whose `pos++` comes before the read).
`SelectionStaysInBounds`: the exception `ArrayBoundsReadWrite` is never thrown,
only `OutOfMem`, which is an action. `FetchEnds`: an item is done with after as
many turns as there are candidates and triggers. The other theorems of `PechoProofs`:
the parts of `ExpectedResult`, in `DataComesBack` their joint for the data of one
request, and in `OneRequestIsAnswered` the property itself, for every client with
one request. That its hypotheses are met is checked: `MCPecho` assumes
(`ClientsAsk`) that each of its clients with up to two lines is such a client,
in each of the three modes. Before they were proved
TLC found no violation of these statements, or of the invariants they rest on, on
the instances of section 3 (`EchoLosesNothing` and `HandlerReadsOn` also on those
of `MCPechoShort.cfg` and `MCPechoTwice.cfg`, where `ExpectedResult` fails).

### Only model-checked

* Liveness, and what needs `ENABLED`, is out of the prover's reach:
  `ClientsLeave`, `SessionEnds`, `StopEnds`, `AcceptsAgain`, `ThreadsJoin`,
  `ConnectionCloses`, `StopStopsServer`, `TransitionsEnd`.
* `ExpectedResult` is proved of the clients with one request
  (`OneRequestIsAnswered`). Of the sessions in which another request goes before
  it (an empty line, "caps", a command or an argument that is wrong) the run
  shows it. Of reads that do not fill the block, and of two echos in a session,
  it is false (section 5).
* `ItemsAsWritten` and `SelectionIsRight` compare with a definition by recursion
  over a whole document. What holds at each cut is proved (`ScannerResumes`);
  that the scanner comes to the next item rests on the table, whose functions
  are built with TLC's `@@` and `:>`, which the prover does not expand.

## 5. Where the code and what is said of it differ

`daemon_stale`: the comment says to bail out if the pid file cannot be locked.
The program bails out if it can. No process ever holds the lock for longer than
that test, so any pid file refuses a start.

The following have a configuration each, with the property it violates; they are
kept beside the runs, for reference:

1. `MCAcceptorGlobal.cfg`, `GlobalLimit`: `connection::start()` tests `isFull()`
   and pushes later, with no lock in between. `smerp.conf` calls the parameter
   the maximum number of simultaneous connections. Proved: no more than
   `Threads - 1` too many, and none with one thread.
2. `MCAcceptorStop.cfg`, `NoMoreAccepted`: the comment in `handleStop()` says
   that no more connections are accepted. An accept that had completed is
   handled afterwards; it starts a connection, and then `local_endpoint()`
   throws.
3. `MCPechoShort.cfg`, `ExpectedResult`: `getEoD` scans the capacity of the
   block and not what was read. The unit test feeds blocks that are full.
4. `MCPechoTwice.cfg`, `ExpectedResult`: the output block is not released when
   the data ends, and a second echo in the session sends its rest again.
5. `MCPechoDots.cfg`, `ExpectedResult`: at the end of data `getEoD` gives up a
   place (`eodpos = dstsize++`, `protocol_ioblocks.cpp:99-114`) and writes
   nothing there. What lies in it is read as the first byte of the next command.
   With three lines that begin with an escaping dot in one block it is a letter
   of the data, and the client is told that its command is bad.
6. `MCWinServiceStopped.cfg`, `StoppedIsReported`: the comment says that the
   service manager is told when all is done. The handler of the stop reports the
   state it reads, and may put STOP_PENDING in place of the STOPPED that
   `service_main()` is about to send; nobody reports again.
7. `MCStartupEvents.cfg`, `EventsAreFiled`: `messageIdToEventlogId()` makes the
   identifier of an event of the log level where the message table expects the
   type; a WARNING is filed under the errors.
8. `MCStartupNegative.cfg`, `ServesThePortsOfTheFile`: the parser answers "Port
   out of range" and "Invalid value for port" (`configFile.cpp:98-112`), but
   `lexical_cast<unsigned short>` takes a minus and wraps: a port of -5 is served
   at 65531. The limits and the number of threads wrap in the same way
   (`configFile.cpp:114`, `160-161`). `ServesWhatIsWritten` says what is served
   then.
9. `MCStartupHome.cfg`, `UsersFileIsRead`: `DEFAULT_USER_CONFIG` is
   `~/smerp.conf` (`posixMain.cpp:44`) and goes to `boost::filesystem::exists()`
   as it is (`configFile.cpp:55-57`). No shell expands it, so the file in the
   user's home directory is never read; one in a directory called `~` would be.
10. `MCStartupConfigLogging.cfg`, `ConfigLoggingIsUsed`: the help
    (`commandLine.cpp:40`) and a comment of the manual (`smerpd-man.xml:189`) say that
    `--use-config-logging` makes a foreground start log according to the
    configuration file. The code sets `useConfigLog` (`commandLine.cpp:136-137`)
    and reads it nowhere: the console takes the debug level. The foreground part
    of `LogsAsWritten` is about starts without the option.
11. `MCObjectPoolTimed.cfg`, `EveryTimedGetServed`: the tests with a timeout assert
    that every `get()` was served (`poolTest.cpp:173`, `197`). A `get()` that has
    waited for its second returns NULL and uses nothing; the tests pass as long as
    no thread waits that long. `ThreadsJoin` claims the count without a timeout
    only, and with one that the threads join.
12. `MCXMLSelectCut.cfg`, `SelectionGoesOn`: `xmlIterator.cpp:371-374` catches the
    end of a block in a selection, to return and to go on. It cannot get there:
    `XMLPathSelect::iterator::skip()` is declared `throw(exception)`
    (`textwolf.hpp:2010`), what an input block throws at its end
    (`ArrayBoundReadError`, a `std::logic_error`) is no such exception, and the
    program ends in `std::unexpected()`. The `pt::InputBlock::End` that is caught
    there is declared nowhere, and no makefile builds the file. The scanner's own
    iterator has no such declaration, and is what `ItemsAsWritten` cuts.

Met while reading and not pursued:

* Server: an SSL socket's own limit can be overshot like the global one; a
  daemon does not lock its pid file; a timed `get()` returns NULL without
  another look at the pool (11. above).
* pecho: an empty line that ends in a bare LF, before the dot, is not seen as the
  begin of an end of data; the answer to wrong arguments of `echo` depends on
  where they are cut.
* Configuration: the levels of logs without a section are used uninitialised;
  the identifier for syslog and the switch of the event log are never copied; a
  `maxConnections` that is out of range or no number becomes 256 for the
  server and 0, no limit, for a socket; the timeouts of the file are not used by
  the server; `check()` cannot fail, and those of the parts are not called;
  the facility of the first `openlog()` is ignored; installing and removing the
  service ignore what the registry says.
* Windows service: an interrogation during the start can leave the service at
  START_PENDING, so that it cannot be stopped; a configuration that fails ends
  `service_main()` without a word to the service manager; the thread that runs
  the server is not joined before the server is destroyed.
* Authentication: a mechanism may be listed for which `getAuthenticator()`
  returns NULL; `has_pass` stays true after a success, so the next login is not
  asked for its password and fails; the PAM handle is set to NULL before
  `pam_end()` could get it; a prompt with echo compares with NULL.
* Lua handler: a NUL in the text ends the string that is sent; exceptions are
  thrown as pointers and nobody catches them; `echo.lua` is looked for in the
  working directory.
* Qt client: an error other than the remote end's leaves `Connected` on a socket
  that is dead; a line typed while unconnected vanishes; one line is read per
  `readyRead()`, so the last of several waits for the next; a second "quit" says
  `Disconnected` with the socket open; errors of the certificate are ignored,
  and `m_initializedSsl` is not initialised.
* Scanner: `]` is mapped as `[`, so that a CDATA section never ends; comments
  and a DOCTYPE are no items; numeric entities of three digits and more are
  misread; `/ >` and `?` before a line end return an item twice; an output that
  is too small loses the item, and if it is an entity of the named ones that does
  not fit, the error is that the entity is undefined; a cut right behind `<?xml` is
  a syntax error.
* Selection: a name matches a longer one it is a prefix of; a range at the end of
  a path counts twice; `//` holds for the rest of the path; the end of a path
  behind a state with two alternatives takes the place of one of them, and so
  does a step for any name, or for an attribute, beside another.

The documents and paths of the run `xml` do without what is wrong in the last
two groups; `//` and ranges are among them, and `SelectionIsRight` takes `//` to
hold for the rest of its path and a range as an upper bound.

## 6. What is not modelled, and why

* A list operation is one step. `connList_` is a `std::list` used from several
  threads without a lock; its corruption is undefined behaviour below the steps
  of the model. The same goes for the flags and streams of the log, and for the
  creation of the singleton. An increment of the atomic counter is one locked
  step, and nothing but its test uses it.
* `mtproc`: the constructor of its `CommandDispatcher` resets the command
  through a pointer that is still NULL, so a connection is never made, and what
  only it uses of the protocol library (`CArgBuffer`, `getLine`, the generator)
  is not reached.
* `xmlIterator.cpp` wraps the scanner and the selection in iterators that only a
  `main` that is commented out would use; its factories fall through missing
  breaks, its constructor reads a block nobody filled and its postfix increment
  drops the first element.
* The text of messages, the formatting of log records, the printing of the
  configuration, the database section and the names of certificates, which
  nothing reads.
* The configurations of the example servers repeat the one of `src/src`.
* The windows, the preferences and the history of the Qt client.
* Dynamic loading and the interior of asio, TLS, PAM, the Lua machine, Qt, boost's
  parsers and the Windows service manager: the modules say what they assume of
  them.

## 7. Plan

Done, in the order it was planned: `ConnectionBase`, `Connection` and `Session`;
`Acceptor`; `ObjectPool`; `Daemon`; `InputBlock` and `Pecho`, each with its
proofs; then the configuration, the logs and the start on both systems, the
Windows service, authentication, the Lua handler on the same abstract session,
the Qt client, and the XML scanner with its selection; the refinement of
`Session` and the remaining invariants of `Connection` as theorems; then the
proofs about the Windows service, the start, the Qt client, the stop of
`Acceptor`, the words, the end of data, the echo and the end of `Pecho`, and the
bounds of the XML scanner and its cuts, the data of a request of `Pecho` and then
the whole session around it, and the automaton, the lists and the end of
`fetch()` of the selection.

What is left, in order of importance:

1. Proofs: the steps of `ObjectPool` and `LuaEcho` that lead to their ends, as
   measures.
2. `OneRequestIsAnswered` for sessions in which other requests go before the
   echo, as stages of their own.
3. `Acceptor` composed with a handshake that never ends: which clients a stop
   does not reach.
4. The parser of command arguments on `InputBlock`, once `mtproc` can be
   constructed.
