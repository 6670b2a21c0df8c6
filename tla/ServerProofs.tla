------------------------------ MODULE ServerProofs ------------------------------
(***************************************************************************)
(* Proofs about what the threads of the server share.  Acceptor: for any   *)
(* number of sockets, connections and threads and any limits, what the     *)
(* tests of the limits guarantee although the push comes later, what a     *)
(* stop reaches and what it leaves behind.  ObjectPool: for any number of  *)
(* threads, objects and rounds, with and without the timeout.              *)
(***************************************************************************)
EXTENDS Acceptor, ObjectPool, FiniteSetTheorems, SequenceTheorems, TLAPS

-------------------------------------------------------------------------------
(***************************************************************************)
(* The acceptors and their lists.                                          *)
(***************************************************************************)

(* The connections that have or were promised a slot of the lists. *)
Pledged == {c \in Conn : listed[c] \/ phase[c] = "passed"}

PledgedAt(a) == {c \in Pledged : at[c] = a}

(* A handler between the test and the push occupies a thread. *)
ThreadsSuffice == Cardinality(Deciding) <= Threads

(* A plain acceptor works on one client at a time and accepts none         *)
(* meanwhile.                                                              *)
Occupies(c, a) == at[c] = a /\ phase[c] \in {"accepted", "passed", "full"}

OneAtATime ==
    \A a \in Sockets \ Secure :
        /\ accepting[a] => \A c \in Conn : ~Occupies(c, a)
        /\ \A c, d \in Conn : Occupies(c, a) /\ Occupies(d, a) => c = d

HandshakesSecure == \A c \in Conn : phase[c] = "handshake" => at[c] \in Secure

SignalledServed ==
    \A c \in Conn : signalled[c] => phase[c] \in {"serving", "closed"}

StoppedClosed ==
    \A a \in Sockets : stop[a] = "done" => ~listening[a] /\ ~accepting[a]

SocketPledge ==
    \A a \in Sockets \ Secure :
        SocketMax[a] > 0 => Cardinality(PledgedAt(a)) <= SocketMax[a]

GlobalPledge == GlobalMax > 0 => Cardinality(Pledged) <= GlobalMax + Threads - 1

(* The parts of the invariant that count nothing. *)
Bookkeeping ==
    /\ OneAtATime
    /\ HandshakesSecure
    /\ SignalledServed
    /\ SlotsMatchClients
    /\ StoppedClosed
    /\ StopReachesPlain

Control == TypeOK /\ Bookkeeping

Limits == ThreadsSuffice /\ SocketPledge /\ GlobalPledge

(* The handlers of an acceptor that end with its next async_accept: what   *)
(* an SSLacceptor does with a client, and the rest of connection::start()  *)
(* on a plain one.                                                         *)
GoesOnAccepting(c) ==
    IF at[c] \in Secure THEN phase[c] = "accepted" ELSE phase[c] \in {"passed", "full"}

(* What is left of an acceptor that has stopped.                           *)
AfterStop(c) ==
    /\ stop'[at[c]] = "done"
    /\ phase[c] = "new" => phase'[c] = "new"
    /\ GoesOnAccepting(c) /\ phase'[c] # phase[c] => crashed'

-------------------------------------------------------------------------------
LEMMA InitControl == Init => Control
BY ZenonT(40), AcceptorAssumption
   DEF Init, Control, Bookkeeping, TypeOK, Phases, OneAtATime, Occupies,
       HandshakesSecure, SignalledServed, SlotsMatchClients, StoppedClosed, StopReachesPlain

LEMMA NextTypeOK == TypeOK /\ [Next]_vars => TypeOK'
<1> SUFFICES ASSUME TypeOK, [Next]_vars PROVE TypeOK'
  OBVIOUS
<1> USE DEF TypeOK, Phases, Becomes
<1>1. ASSUME NEW c \in Conn, Connect(c) PROVE TypeOK'
  BY <1>1 DEF Connect
<1>2. ASSUME NEW c \in Conn, HandleAccept(c) \/ HandleHandshake(c) PROVE TypeOK'
  BY <1>2 DEF HandleAccept, HandleHandshake, TestLimits
<1>3. ASSUME NEW c \in Conn, HandleAcceptSSL(c) PROVE TypeOK'
  BY <1>3 DEF HandleAcceptSSL, AcceptNext
<1>4. ASSUME NEW c \in Conn, HandleHandshakeError(c) PROVE TypeOK'
  BY <1>4 DEF HandleHandshakeError
<1>5. ASSUME NEW c \in Conn, Admit(c) PROVE TypeOK'
  BY <1>5 DEF Admit, Decided, AcceptNext
<1>6. ASSUME NEW c \in Conn, Refuse(c) PROVE TypeOK'
  BY <1>6 DEF Refuse, Decided, AcceptNext
<1>7. ASSUME NEW c \in Conn, PeerGone(c) PROVE TypeOK'
  BY <1>7 DEF PeerGone
<1>8. ASSUME NEW c \in Conn, Leave(c) PROVE TypeOK'
  BY <1>8 DEF Leave
<1>9. CASE Stop
  BY <1>9 DEF Stop
<1>10. ASSUME NEW a \in Sockets, AcceptError(a) PROVE TypeOK'
  BY <1>10 DEF AcceptError
<1>11. ASSUME NEW a \in Sockets, HandleStop(a) PROVE TypeOK'
  BY <1>11 DEF HandleStop
<1>12. CASE UNCHANGED vars
  BY <1>12 DEF vars
<1> QED
  BY <1>1, <1>2, <1>3, <1>4, <1>5, <1>6, <1>7, <1>8, <1>9, <1>10, <1>11, <1>12
     DEF Next

LEMMA NextBookkeeping == TypeOK /\ Bookkeeping /\ [Next]_vars => Bookkeeping'
<1> SUFFICES ASSUME TypeOK, Bookkeeping, [Next]_vars PROVE Bookkeeping'
  OBVIOUS
<1> USE AcceptorAssumption
        DEF TypeOK, Bookkeeping, OneAtATime, Occupies, HandshakesSecure, SignalledServed,
            SlotsMatchClients, StoppedClosed, StopReachesPlain, Becomes
<1>1. ASSUME NEW c \in Conn, Connect(c) PROVE Bookkeeping'
  BY <1>1 DEF Connect
<1>2. ASSUME NEW c \in Conn, HandleAccept(c) \/ HandleHandshake(c) PROVE Bookkeeping'
  <2>1. /\ phase[c] \in {"accepted", "handshake"}
        /\ phase[c] = "accepted" \/ at[c] \in Secure
        /\ \/ phase' = [phase EXCEPT ![c] = "passed"]
           \/ phase' = [phase EXCEPT ![c] = "full"]
        /\ UNCHANGED <<at, listed, signalled, listening, accepting, stop, crashed>>
    BY <1>2 DEF HandleAccept, HandleHandshake, TestLimits
  <2>2. OneAtATime'
    <3>1. ASSUME NEW d \in Conn, NEW a \in Sockets \ Secure, Occupies(d, a)'
          PROVE  Occupies(d, a)
      BY <2>1, <3>1
    <3> QED
      BY <2>1, <3>1
  <2>3. HandshakesSecure' /\ SignalledServed' /\ SlotsMatchClients' /\ StoppedClosed'
    BY <2>1
  <2>4. StopReachesPlain'
    BY <2>1
  <2> QED
    BY <2>2, <2>3, <2>4
<1>3. ASSUME NEW c \in Conn, HandleAcceptSSL(c) PROVE Bookkeeping'
  BY <1>3 DEF HandleAcceptSSL, AcceptNext
<1>4. ASSUME NEW c \in Conn, HandleHandshakeError(c) PROVE Bookkeeping'
  BY <1>4 DEF HandleHandshakeError
<1>5. ASSUME NEW c \in Conn, Admit(c) PROVE Bookkeeping'
  <2>1. /\ phase[c] = "passed" /\ phase' = [phase EXCEPT ![c] = "serving"]
        /\ listed' = [listed EXCEPT ![c] = TRUE]
        /\ UNCHANGED <<at, signalled, listening, stop>>
        /\ ~crashed
    BY <1>5 DEF Admit
  <2>2. CASE at[c] \in Secure
    <3>1. UNCHANGED <<accepting, crashed>>
      BY <1>5, <2>2 DEF Admit, Decided
    <3>2. OneAtATime'
      BY <2>1, <2>2, <3>1
    <3>3. HandshakesSecure' /\ SignalledServed' /\ SlotsMatchClients' /\ StoppedClosed'
      BY <2>1, <3>1
    <3>4. StopReachesPlain'
      BY <2>1, <2>2, <3>1
    <3> QED
      BY <3>2, <3>3, <3>4
  <2>3. CASE at[c] \notin Secure
    <3>1. /\ listening[at[c]] => /\ accepting' = [accepting EXCEPT ![at[c]] = TRUE]
                                 /\ UNCHANGED crashed
          /\ ~listening[at[c]] => crashed' = TRUE /\ UNCHANGED accepting
      BY <1>5, <2>3 DEF Admit, Decided, AcceptNext
    <3>2. Occupies(c, at[c])
      BY <2>1
    <3>3. OneAtATime'
      BY <2>1, <2>3, <3>1, <3>2
    <3>4. HandshakesSecure' /\ SignalledServed' /\ SlotsMatchClients' /\ StoppedClosed'
      BY <2>1, <3>1
    <3>5. StopReachesPlain'
      BY <2>1, <2>3, <3>1
    <3> QED
      BY <3>3, <3>4, <3>5
  <2> QED
    BY <2>2, <2>3
<1>6. ASSUME NEW c \in Conn, Refuse(c) PROVE Bookkeeping'
  BY <1>6 DEF Refuse, Decided, AcceptNext
<1>7. ASSUME NEW c \in Conn, PeerGone(c) PROVE Bookkeeping'
  BY <1>7 DEF PeerGone
<1>8. ASSUME NEW c \in Conn, Leave(c) PROVE Bookkeeping'
  BY <1>8 DEF Leave
<1>9. CASE Stop
  BY <1>9 DEF Stop
<1>10. ASSUME NEW a \in Sockets, AcceptError(a) PROVE Bookkeeping'
  BY <1>10 DEF AcceptError
<1>11. ASSUME NEW a \in Sockets, HandleStop(a) PROVE Bookkeeping'
  BY <1>11 DEF HandleStop, ConnList
<1>12. CASE UNCHANGED vars
  BY <1>12 DEF vars
<1> QED
  BY <1>1, <1>2, <1>3, <1>4, <1>5, <1>6, <1>7, <1>8, <1>9, <1>10, <1>11, <1>12
     DEF Next

(* The inductive invariant that does not speak of the limits. *)
THEOREM ControlInvariant == Spec => []Control
<1>1. Control /\ [Next]_vars => Control'
  BY NextTypeOK, NextBookkeeping DEF Control
<1> QED
  BY <1>1, InitControl, PTL DEF Spec

(* Every variable of the acceptors keeps its type. *)
THEOREM AcceptorTypeCorrect == Spec => []TypeOK
<1>1. Control => TypeOK
  BY DEF Control
<1> QED
  BY <1>1, ControlInvariant, PTL

(* The lists count exactly the clients. *)
THEOREM SlotsAreExact == Spec => []SlotsMatchClients
<1>1. Control => SlotsMatchClients
  BY DEF Control, Bookkeeping
<1> QED
  BY <1>1, ControlInvariant, PTL

(* A stop is final: no client comes to an acceptor that has stopped.  One  *)
(* whose accept had completed before is still worked on, and handleAccept  *)
(* then ends the process, whatever it has decided about the client: the    *)
(* acceptor is closed, and local_endpoint() throws.                        *)
THEOREM StopIsFinal ==
    Spec => [][\A c \in Conn : stop[at[c]] = "done" => AfterStop(c)]_vars
<1>1. ASSUME Control, [Next]_vars
      PROVE  [\A c \in Conn : stop[at[c]] = "done" => AfterStop(c)]_vars
  <2> SUFFICES ASSUME Next, NEW d \in Conn, stop[at[d]] = "done" PROVE AfterStop(d)
    BY <1>1
  <2>1. TypeOK /\ ~listening[at[d]] /\ ~accepting[at[d]] /\ HandshakesSecure
    BY <1>1 DEF Control, Bookkeeping, StoppedClosed, TypeOK
  <2> USE <2>1 DEF TypeOK, AfterStop, GoesOnAccepting, Becomes
  <2>2. ASSUME NEW c \in Conn, Connect(c) PROVE AfterStop(d)
    BY <2>2 DEF Connect
  <2>3. ASSUME NEW c \in Conn, HandleAccept(c) PROVE AfterStop(d)
    BY <2>3 DEF HandleAccept, TestLimits
  <2>4. ASSUME NEW c \in Conn, HandleAcceptSSL(c) PROVE AfterStop(d)
    BY <2>4 DEF HandleAcceptSSL, AcceptNext
  <2>5. ASSUME NEW c \in Conn, HandleHandshake(c) \/ HandleHandshakeError(c)
        PROVE  AfterStop(d)
    BY <2>5 DEF HandleHandshake, HandleHandshakeError, TestLimits
  <2>6. ASSUME NEW c \in Conn, Admit(c) \/ Refuse(c) PROVE AfterStop(d)
    BY <2>6 DEF Admit, Refuse, Decided, AcceptNext
  <2>7. ASSUME NEW c \in Conn, PeerGone(c) \/ Leave(c) PROVE AfterStop(d)
    BY <2>7 DEF PeerGone, Leave
  <2>8. CASE Stop
    BY <2>8 DEF Stop
  <2>9. ASSUME NEW a \in Sockets, AcceptError(a) \/ HandleStop(a) PROVE AfterStop(d)
    BY <2>9 DEF AcceptError, HandleStop
  <2> QED
    BY <2>2, <2>3, <2>4, <2>5, <2>6, <2>7, <2>8, <2>9 DEF Next
<1> QED
  BY <1>1, ControlInvariant, PTL DEF Spec

(* A plain acceptor that has stopped has signalled every client it serves. *)
THEOREM StopReachesEveryPlainClient == Spec => []StopReachesPlain
<1>1. Control => StopReachesPlain
  BY DEF Control, Bookkeeping
<1> QED
  BY <1>1, ControlInvariant, PTL

-------------------------------------------------------------------------------
(* Sets of connections are finite, and smaller sets have fewer members. *)
LEMMA ConnSet ==
    ASSUME NEW S \in SUBSET Conn, NEW T \in SUBSET S
    PROVE  /\ IsFiniteSet(S) /\ Cardinality(S) \in Nat
           /\ IsFiniteSet(T) /\ Cardinality(T) \in Nat
           /\ Cardinality(T) <= Cardinality(S)
<1>1. IsFiniteSet(S)
  BY AcceptorAssumption, FS_Subset
<1> QED
  BY <1>1, FS_Subset, FS_CardinalityType

(* One more connection adds at most one. *)
LEMMA ConnSetPlus ==
    ASSUME NEW S \in SUBSET Conn, NEW c \in Conn
    PROVE  /\ Cardinality(S \cup {c}) \in Nat
           /\ Cardinality(S \cup {c}) <= Cardinality(S) + 1
<1>1. IsFiniteSet(S) /\ Cardinality(S) \in Nat
  BY ConnSet
<1>2. Cardinality(S \cup {c}) \in {Cardinality(S), Cardinality(S) + 1}
  BY <1>1, FS_AddElement, Zenon
<1> QED
  BY <1>1, <1>2

(* The only way to a slot is through a test of the limits. *)
LEMMA PledgeStep ==
    ASSUME TypeOK, [Next]_vars
    PROVE  /\ UNCHANGED at
           /\ \/ Pledged' \subseteq Pledged /\ Deciding' \subseteq Deciding
              \/ \E c \in Conn :
                    /\ HandleAccept(c) \/ HandleHandshake(c)
                    /\ Deciding' = Deciding \cup {c}
                    /\ \/ Pledged' = Pledged
                       \/ ~IsFull(at[c]) /\ Pledged' = Pledged \cup {c}
<1> USE DEF TypeOK, Becomes, Pledged, Deciding
<1>1. ASSUME NEW c \in Conn, HandleAccept(c) \/ HandleHandshake(c)
      PROVE  /\ UNCHANGED at
             /\ Deciding' = Deciding \cup {c}
             /\ \/ Pledged' = Pledged
                \/ ~IsFull(at[c]) /\ Pledged' = Pledged \cup {c}
  <2>1. UNCHANGED <<at, listed>> /\ phase[c] \in {"accepted", "handshake"}
    BY <1>1 DEF HandleAccept, HandleHandshake, TestLimits
  <2>2. CASE IsFull(at[c])
    <3>1. phase' = [phase EXCEPT ![c] = "full"]
      BY <1>1, <2>2 DEF HandleAccept, HandleHandshake, TestLimits
    <3> QED
      BY <2>1, <3>1
  <2>3. CASE ~IsFull(at[c])
    <3>1. phase' = [phase EXCEPT ![c] = "passed"]
      BY <1>1, <2>3 DEF HandleAccept, HandleHandshake, TestLimits
    <3> QED
      BY <2>1, <2>3, <3>1
  <2> QED
    BY <2>2, <2>3
<1> DEFINE Shrinks == /\ UNCHANGED at
                      /\ Pledged' \subseteq Pledged /\ Deciding' \subseteq Deciding
<1>2. ASSUME NEW c \in Conn,
             \/ Connect(c) \/ HandleAcceptSSL(c) \/ HandleHandshakeError(c)
             \/ Refuse(c) \/ PeerGone(c) \/ Leave(c)
      PROVE  Shrinks
  BY <1>2 DEF Connect, HandleAcceptSSL, HandleHandshakeError, Refuse, PeerGone, Leave
<1>3. ASSUME NEW c \in Conn, Admit(c) PROVE Shrinks
  BY <1>3 DEF Admit
<1>4. CASE Stop
  BY <1>4 DEF Stop
<1>5. ASSUME NEW a \in Sockets, AcceptError(a) \/ HandleStop(a) PROVE Shrinks
  BY <1>5 DEF AcceptError, HandleStop
<1>6. CASE UNCHANGED vars
  BY <1>6 DEF vars
<1> QED
  BY <1>1, <1>2, <1>3, <1>4, <1>5, <1>6 DEF Next

-------------------------------------------------------------------------------
LEMMA InitLimits == Init => Limits
<1> SUFFICES ASSUME Init PROVE Limits
  OBVIOUS
<1>1. Deciding = {} /\ Pledged = {}
  BY DEF Init, Deciding, Pledged
<1>2. \A a \in Sockets : PledgedAt(a) = {}
  BY <1>1 DEF PledgedAt
<1> QED
  BY <1>1, <1>2, FS_EmptySet, AcceptorAssumption
     DEF Limits, ThreadsSuffice, SocketPledge, GlobalPledge

(* A handler is only started on a free thread. *)
LEMMA NextThreads == TypeOK /\ ThreadsSuffice /\ [Next]_vars => ThreadsSuffice'
<1> SUFFICES ASSUME TypeOK, ThreadsSuffice, [Next]_vars PROVE ThreadsSuffice'
  OBVIOUS
<1>1. Deciding \in SUBSET Conn /\ Deciding' \in SUBSET Conn
  BY DEF Deciding
<1>2. CASE Deciding' \subseteq Deciding
  BY <1>1, <1>2, ConnSet, AcceptorAssumption DEF ThreadsSuffice
<1>3. ASSUME NEW c \in Conn, HandleAccept(c) \/ HandleHandshake(c),
             Deciding' = Deciding \cup {c}
      PROVE  ThreadsSuffice'
  <2>1. Cardinality(Deciding) < Threads
    BY <1>3 DEF HandleAccept, HandleHandshake, ThreadFree
  <2>2. Cardinality(Deciding') <= Cardinality(Deciding) + 1
    BY <1>1, <1>3, ConnSetPlus
  <2>3. Cardinality(Deciding) \in Nat /\ Cardinality(Deciding') \in Nat
    BY <1>1, ConnSet
  <2> QED
    BY <2>1, <2>2, <2>3, AcceptorAssumption DEF ThreadsSuffice
<1> QED
  BY <1>2, <1>3, PledgeStep

(* A connection that passes the test finds fewer than GlobalMax in the     *)
(* lists and fewer than Threads in the middle of an admission.             *)
LEMMA NextGlobalPledge ==
    TypeOK /\ GlobalPledge /\ [Next]_vars => GlobalPledge'
<1> SUFFICES ASSUME TypeOK, GlobalPledge, [Next]_vars, GlobalMax > 0
             PROVE  Cardinality(Pledged') <= GlobalMax + Threads - 1
  BY DEF GlobalPledge
<1>1. Pledged \in SUBSET Conn /\ Pledged' \in SUBSET Conn
  BY DEF Pledged
<1>2. CASE Pledged' \subseteq Pledged
  BY <1>1, <1>2, ConnSet, AcceptorAssumption DEF GlobalPledge
<1>3. ASSUME NEW c \in Conn, HandleAccept(c) \/ HandleHandshake(c),
             ~IsFull(at[c]), Pledged' = Pledged \cup {c}
      PROVE  Cardinality(Pledged') <= GlobalMax + Threads - 1
  <2> DEFINE L == AllListed
             D == Deciding
  <2>1. L \in SUBSET Conn /\ D \in SUBSET Conn
    BY DEF AllListed, Deciding
  <2>2. /\ IsFiniteSet(L) /\ Cardinality(L) \in Nat
        /\ IsFiniteSet(D) /\ Cardinality(D) \in Nat
        /\ Cardinality(L \cap D) \in Nat
    <3>1. L \cap D \in SUBSET L
      OBVIOUS
    <3> QED
      BY <2>1, <3>1, ConnSet
  <2>3. Cardinality(L) < GlobalMax
    BY <1>3, <2>2, AcceptorAssumption DEF IsFull, GlobalIsFull
  <2>4. Cardinality(D) < Threads
    BY <1>3 DEF HandleAccept, HandleHandshake, ThreadFree
  <2>5. Pledged \subseteq L \cup D
    BY DEF Pledged, AllListed, Deciding
  <2> HIDE DEF L, D
  <2>6. L \cup D \in SUBSET Conn /\ Cardinality(L \cup D) \in Nat
    <3>1. L \cup D \in SUBSET Conn
      BY <2>1
    <3> QED
      BY <3>1, ConnSet
  <2>7. Cardinality(L \cup D) <= Cardinality(L) + Cardinality(D)
    <3>1. Cardinality(L \cup D) = Cardinality(L) + Cardinality(D) - Cardinality(L \cap D)
      BY <2>2, FS_Union
    <3> QED
      BY <2>2, <2>6, <3>1
  <2>8. Cardinality(Pledged) <= Cardinality(L \cup D) /\ Cardinality(Pledged) \in Nat
    BY <2>5, <2>6, ConnSet
  <2>9. Cardinality(Pledged') <= Cardinality(Pledged) + 1 /\ Cardinality(Pledged') \in Nat
    BY <1>1, <1>3, ConnSetPlus
  <2> QED
    BY <2>2, <2>3, <2>4, <2>6, <2>7, <2>8, <2>9, AcceptorAssumption
<1> QED
  BY <1>2, <1>3, PledgeStep

(* On a plain socket the test and the push are one: nobody else is between *)
(* them.                                                                   *)
LEMMA NextSocketPledge ==
    Control /\ SocketPledge /\ [Next]_vars => SocketPledge'
<1> SUFFICES ASSUME Control, SocketPledge, [Next]_vars,
                    NEW a \in Sockets \ Secure, SocketMax[a] > 0
             PROVE  Cardinality(PledgedAt(a)') <= SocketMax[a]
  BY DEF SocketPledge
<1>1. TypeOK /\ OneAtATime /\ HandshakesSecure /\ SocketMax[a] \in Nat
  BY AcceptorAssumption DEF Control, Bookkeeping
<1>2. PledgedAt(a) \in SUBSET Conn /\ PledgedAt(a)' \in SUBSET Conn
  BY DEF Pledged, PledgedAt
<1>3. UNCHANGED at
  BY <1>1, PledgeStep
<1>4. CASE PledgedAt(a)' \subseteq PledgedAt(a)
  BY <1>1, <1>2, <1>4, ConnSet DEF SocketPledge
<1>5. CASE Pledged' \subseteq Pledged
  BY <1>3, <1>4, <1>5 DEF PledgedAt
<1>6. ASSUME NEW c \in Conn, HandleAccept(c) \/ HandleHandshake(c),
             ~IsFull(at[c]), Pledged' = Pledged \cup {c}
      PROVE  Cardinality(PledgedAt(a)') <= SocketMax[a]
  <2>1. CASE at[c] # a
    <3>1. PledgedAt(a)' \subseteq PledgedAt(a)
      BY <1>3, <1>6, <2>1 DEF PledgedAt
    <3> QED
      BY <1>4, <3>1
  <2>2. CASE at[c] = a
    <3>1. Occupies(c, a) /\ phase[c] = "accepted"
      BY <1>1, <1>6, <2>2 DEF HandleAccept, HandleHandshake, HandshakesSecure, Occupies
    <3>2. \A d \in Conn : at[d] = a => phase[d] # "passed"
      BY <1>1, <3>1 DEF OneAtATime, Occupies
    <3>3. PledgedAt(a) \subseteq ConnList(a)
      BY <3>2 DEF Pledged, PledgedAt, ConnList
    <3>4. ConnList(a) \in SUBSET Conn /\ Cardinality(ConnList(a)) \in Nat
      <4>1. ConnList(a) \in SUBSET Conn
        BY DEF ConnList
      <4> QED
        BY <4>1, ConnSet
    <3>5. Cardinality(ConnList(a)) < SocketMax[a]
      BY <1>1, <1>6, <2>2, <3>4 DEF IsFull
    <3>6. Cardinality(PledgedAt(a)) <= Cardinality(ConnList(a))
          /\ Cardinality(PledgedAt(a)) \in Nat
      BY <3>3, <3>4, ConnSet
    <3>7. PledgedAt(a)' = PledgedAt(a) \cup {c}
      BY <1>3, <1>6, <2>2 DEF PledgedAt
    <3>8. Cardinality(PledgedAt(a)') <= Cardinality(PledgedAt(a)) + 1
          /\ Cardinality(PledgedAt(a)') \in Nat
      BY <1>2, <3>7, ConnSetPlus
    <3> QED
      BY <1>1, <3>4, <3>5, <3>6, <3>8
  <2> QED
    BY <2>1, <2>2
<1> QED
  BY <1>1, <1>5, <1>6, PledgeStep

-------------------------------------------------------------------------------
(* The limits, from the pledges of the handlers that are deciding. *)
THEOREM LimitsInvariant == Spec => [](Control /\ Limits)
<1>1. Init => Control /\ Limits
  BY InitControl, InitLimits
<1>2. Control /\ Limits /\ [Next]_vars => (Control /\ Limits)'
  BY NextTypeOK, NextBookkeeping, NextThreads, NextGlobalPledge, NextSocketPledge
     DEF Control, Limits
<1> QED
  BY <1>1, <1>2, PTL DEF Spec

(* The global limit is overshot by fewer clients than there are threads.   *)
THEOREM OvershootIsBounded == Spec => []OvershootBounded
<1>1. Control /\ Limits => OvershootBounded
  <2> SUFFICES ASSUME Limits, GlobalMax > 0
               PROVE  Cardinality(AllListed) <= GlobalMax + Threads - 1
    BY DEF OvershootBounded
  <2>1. Pledged \in SUBSET Conn /\ AllListed \in SUBSET Pledged
    BY DEF Pledged, AllListed
  <2>2. Cardinality(AllListed) <= Cardinality(Pledged)
        /\ Cardinality(AllListed) \in Nat /\ Cardinality(Pledged) \in Nat
    BY <2>1, ConnSet
  <2>3. Cardinality(Pledged) <= GlobalMax + Threads - 1
    BY DEF Limits, GlobalPledge
  <2> QED
    BY <2>2, <2>3, AcceptorAssumption
<1> QED
  BY <1>1, LimitsInvariant, PTL

(* With one thread the server's limit is exact. *)
THEOREM OneThreadIsExact == Spec => [](Threads = 1 => GlobalLimit)
<1>1. OvershootBounded => (Threads = 1 => GlobalLimit)
  <2>1. AllListed \in SUBSET Conn
    BY DEF AllListed
  <2>2. Cardinality(AllListed) \in Nat
    BY <2>1, ConnSet
  <2> QED
    BY <2>2, AcceptorAssumption DEF OvershootBounded, GlobalLimit
<1> QED
  BY <1>1, OvershootIsBounded, PTL

(* A plain socket keeps its own limit. *)
THEOREM PlainLimitIsKept == Spec => []PlainSocketLimit
<1>1. Control /\ Limits => PlainSocketLimit
  <2> SUFFICES ASSUME Limits, NEW a \in Sockets \ Secure, SocketMax[a] > 0
               PROVE  Cardinality(ConnList(a)) <= SocketMax[a]
    BY DEF PlainSocketLimit
  <2>1. PledgedAt(a) \in SUBSET Conn /\ ConnList(a) \in SUBSET PledgedAt(a)
    BY DEF Pledged, PledgedAt, ConnList
  <2>2. Cardinality(ConnList(a)) <= Cardinality(PledgedAt(a))
        /\ Cardinality(ConnList(a)) \in Nat /\ Cardinality(PledgedAt(a)) \in Nat
    BY <2>1, ConnSet
  <2>3. Cardinality(PledgedAt(a)) <= SocketMax[a] /\ SocketMax[a] \in Nat
    BY AcceptorAssumption DEF Limits, SocketPledge
  <2> QED
    BY <2>2, <2>3
<1> QED
  BY <1>1, LimitsInvariant, PTL

-------------------------------------------------------------------------------
(***************************************************************************)
(* The object pool.                                                        *)
(***************************************************************************)

(* Exactly the threads that use an object hold one. *)
HoldersUse == \A t \in Thread : pc[t] = "holding" <=> holds[t] # "nothing"

PoolInv == PoolTypeOK /\ HoldersUse /\ Exclusive /\ NoLostWakeup

-------------------------------------------------------------------------------
(* A sequence that names every object at one of as many places as there    *)
(* are objects names none of them twice.                                   *)
LEMMA FilledOnce ==
    ASSUME NEW s \in [1..Cardinality(Obj) -> Obj],
           \A o \in Obj : \E i \in DOMAIN s : s[i] = o
    PROVE  \A i, j \in DOMAIN s : s[i] = s[j] => i = j
<1> DEFINE n == Cardinality(Obj)
<1>1. IsFiniteSet(Obj) /\ n \in Nat
  BY PoolAssumption, FS_CardinalityType
<1>2. IsFiniteSet(1..n) /\ Cardinality(1..n) = n
  BY <1>1, FS_Interval
<1>3. s \in Surjection(1..n, Obj)
  BY DEF Surjection
<1>4. s \in Injection(1..n, Obj)
  BY <1>2, <1>3, FS_SurjSameCardinalityImpliesInj
<1> QED
  BY <1>4 DEF Injection, IsInjective

LEMMA InitPoolInv == PoolInit => PoolInv
<1> SUFFICES ASSUME PoolInit PROVE PoolInv
  OBVIOUS
<1> USE DEF PoolInit
<1>1. Cardinality(Obj) \in Nat
  BY PoolAssumption, FS_CardinalityType
<1>2. available \in [1..Cardinality(Obj) -> Obj]
  OBVIOUS
<1>3. available \in Seq(Obj)
  BY <1>1, <1>2
<1>4. PoolTypeOK
  BY <1>3, PoolAssumption DEF PoolTypeOK, Location
<1>5. HoldersUse
  BY DEF HoldersUse
<1>6. Exclusive
  <2>1. \A o \in Obj : \E i \in DOMAIN available : available[i] = o
    OBVIOUS
  <2>2. \A i, j \in DOMAIN available : available[i] = available[j] => i = j
    BY <1>2, <2>1, FilledOnce
  <2>3. \A i \in DOMAIN available : available[i] # "nothing"
    BY <1>2, PoolAssumption
  <2> QED
    BY <2>1, <2>2, <2>3 DEF Exclusive
<1>7. NoLostWakeup
  BY DEF NoLostWakeup, Waiting
<1> QED
  BY <1>4, <1>5, <1>6, <1>7 DEF PoolInv

-------------------------------------------------------------------------------
LEMMA NextPoolTypeOK == PoolTypeOK /\ HoldersUse /\ [PoolNext]_poolVars => PoolTypeOK'
<1> SUFFICES ASSUME PoolTypeOK, HoldersUse, [PoolNext]_poolVars PROVE PoolTypeOK'
  OBVIOUS
<1> USE DEF PoolTypeOK, Go, Location
<1>1. ASSUME NEW t \in Thread, Call(t) PROVE PoolTypeOK'
  <2>1. asked[t] \in Nat /\ asked[t] < Times /\ Times \in Nat
    BY <1>1, PoolAssumption DEF Call
  <2>2. asked[t] + 1 \in 0..Times
    BY <2>1
  <2> QED
    BY <1>1, <2>2 DEF Call
<1>2. ASSUME NEW t \in Thread, Get(t) PROVE PoolTypeOK'
  <2>1. CASE available = <<>>
    BY <1>2, <2>1 DEF Get
  <2>2. CASE available # <<>>
    <3>1. Head(available) \in Obj /\ Tail(available) \in Seq(Obj)
      BY <2>2, HeadTailProperties
    <3> QED
      BY <1>2, <2>2, <3>1 DEF Get
  <2> QED
    BY <2>1, <2>2
<1>3. ASSUME NEW t \in Thread, Recheck(t) PROVE PoolTypeOK'
  BY <1>3 DEF Recheck
<1>4. ASSUME NEW t \in Thread, Spurious(t) PROVE PoolTypeOK'
  BY <1>4 DEF Spurious
<1>5. ASSUME NEW t \in Thread, Expire(t) PROVE PoolTypeOK'
  BY <1>5 DEF Expire
<1>6. ASSUME NEW t \in Thread, ReturnNull(t) PROVE PoolTypeOK'
  BY <1>6 DEF ReturnNull
<1>7. ASSUME NEW t \in Thread, Add(t) PROVE PoolTypeOK'
  <2>1. holds[t] \in Obj
    BY <1>7 DEF Add, HoldersUse
  <2>2. Append(available, holds[t]) \in Seq(Obj)
    BY <2>1
  <2> QED
    BY <1>7, <2>2 DEF Add
<1>8. ASSUME NEW t \in Thread, Notify(t) PROVE PoolTypeOK'
  BY <1>8 DEF Notify
<1>9. CASE UNCHANGED poolVars
  BY <1>9 DEF poolVars
<1> QED
  BY <1>1, <1>2, <1>3, <1>4, <1>5, <1>6, <1>7, <1>8, <1>9 DEF PoolNext

LEMMA NextHoldersUse == PoolTypeOK /\ HoldersUse /\ [PoolNext]_poolVars => HoldersUse'
<1> SUFFICES ASSUME PoolTypeOK, HoldersUse, [PoolNext]_poolVars PROVE HoldersUse'
  OBVIOUS
<1> USE DEF PoolTypeOK, HoldersUse, Go, Location
<1>1. ASSUME NEW t \in Thread, Get(t) PROVE HoldersUse'
  <2>1. CASE available = <<>>
    BY <1>1, <2>1 DEF Get
  <2>2. CASE available # <<>>
    <3>1. Head(available) # "nothing"
      BY <2>2, HeadTailProperties, PoolAssumption
    <3> QED
      BY <1>1, <2>2, <3>1 DEF Get
  <2> QED
    BY <2>1, <2>2
<1>2. ASSUME NEW t \in Thread,
             Call(t) \/ Recheck(t) \/ Spurious(t) \/ Expire(t) \/ ReturnNull(t)
      PROVE  HoldersUse'
  BY <1>2 DEF Call, Recheck, Spurious, Expire, ReturnNull
<1>3. ASSUME NEW t \in Thread, Add(t) PROVE HoldersUse'
  BY <1>3 DEF Add
<1>4. ASSUME NEW t \in Thread, Notify(t) PROVE HoldersUse'
  BY <1>4 DEF Notify
<1>5. CASE UNCHANGED poolVars
  BY <1>5 DEF poolVars
<1> QED
  BY <1>1, <1>2, <1>3, <1>4, <1>5 DEF PoolNext

-------------------------------------------------------------------------------
(* Only get() and add() move an object, each from one owner to another.    *)
LEMMA NextExclusive ==
    PoolTypeOK /\ HoldersUse /\ Exclusive /\ [PoolNext]_poolVars => Exclusive'
<1> SUFFICES ASSUME PoolTypeOK, HoldersUse, Exclusive, [PoolNext]_poolVars PROVE Exclusive'
  OBVIOUS
<1> USE DEF PoolTypeOK
<1>1. ASSUME NEW t \in Thread, Get(t), available # <<>> PROVE Exclusive'
  <2>1. /\ Tail(available) \in Seq(Obj)
        /\ Len(Tail(available)) = Len(available) - 1
        /\ \A i \in 1 .. Len(Tail(available)) : Tail(available)[i] = available[i + 1]
    BY <1>1, HeadTailProperties
  <2>2. /\ available' = Tail(available)
        /\ holds' = [holds EXCEPT ![t] = available[1]]
        /\ holds[t] = "nothing"
    BY <1>1 DEF Get, HoldersUse
  <2>3. Len(available) \in Nat /\ Len(available) # 0 /\ DOMAIN available = 1 .. Len(available)
    BY <1>1
  <2>4. DOMAIN available' = 1 .. Len(available) - 1
    BY <2>1, <2>2, <2>3
  <2>5. \A i \in DOMAIN available' : /\ i + 1 \in DOMAIN available
                                     /\ i + 1 # 1
                                     /\ available'[i] = available[i + 1]
    BY <2>1, <2>2, <2>3, <2>4
  <2>6. 1 \in DOMAIN available
    BY <2>3
  <2>7. \A i, j \in DOMAIN available' : available'[i] = available'[j] => i = j
    BY <2>4, <2>5 DEF Exclusive
  <2>8. \A u \in Thread : \A i \in DOMAIN available' : holds'[u] # available'[i]
    BY <2>2, <2>5, <2>6 DEF Exclusive
  <2>9. \A u, v \in Thread : holds'[u] = holds'[v] => u = v \/ holds'[u] = "nothing"
    BY <2>2, <2>6 DEF Exclusive
  <2>10. ASSUME NEW o \in Obj
         PROVE  \/ \E i \in DOMAIN available' : available'[i] = o
                \/ \E u \in Thread : holds'[u] = o
    <3>1. CASE o = available[1]
      BY <2>2, <3>1
    <3>2. ASSUME NEW i \in DOMAIN available, i # 1, available[i] = o
          PROVE  \E j \in DOMAIN available' : available'[j] = o
      <4>1. i - 1 \in DOMAIN available' /\ (i - 1) + 1 = i
        BY <2>3, <2>4, <3>2
      <4> QED
        BY <2>5, <3>2, <4>1
    <3>3. ASSUME NEW u \in Thread, holds[u] = o
          PROVE  \E v \in Thread : holds'[v] = o
      BY <2>2, <3>3, PoolAssumption
    <3> QED
      BY <3>1, <3>2, <3>3 DEF Exclusive
  <2> QED
    BY <2>7, <2>8, <2>9, <2>10 DEF Exclusive
<1>2. ASSUME NEW t \in Thread, Add(t) PROVE Exclusive'
  <2> DEFINE n == Len(available)
  <2>1. /\ available' = Append(available, holds[t])
        /\ holds' = [holds EXCEPT ![t] = "nothing"]
        /\ holds[t] \in Obj
    BY <1>2 DEF Add, HoldersUse
  <2>2. n \in Nat /\ DOMAIN available = 1..n
    OBVIOUS
  <2>3. DOMAIN available' = 1..(n + 1)
    BY <2>1
  <2>4. available'[n + 1] = holds[t]
    BY <2>1
  <2>5. \A i \in 1..n : available'[i] = available[i]
    BY <2>1
  <2>6. \A i \in 1..(n + 1) : i \in 1..n \/ i = n + 1
    BY <2>2
  <2> HIDE DEF n
  <2>7. \A i, j \in DOMAIN available' : available'[i] = available'[j] => i = j
    BY <2>2, <2>3, <2>4, <2>5, <2>6 DEF Exclusive
  <2>8. \A u \in Thread : \A i \in DOMAIN available' : holds'[u] # available'[i]
    <3> SUFFICES ASSUME NEW u \in Thread, NEW i \in DOMAIN available'
                 PROVE  holds'[u] # available'[i]
      OBVIOUS
    <3>1. available'[i] \in Obj
      BY <2>1, <2>2, <2>3, <2>4, <2>5, <2>6, ElementOfSeq DEF n
    <3>2. CASE u = t
      BY <2>1, <3>1, <3>2, PoolAssumption
    <3>3. CASE u # t
      <4>1. holds'[u] = holds[u]
        BY <2>1, <3>3
      <4>2. CASE i \in 1..n
        BY <2>2, <2>5, <4>1, <4>2 DEF Exclusive
      <4>3. CASE i = n + 1
        BY <2>1, <2>4, <3>3, <4>1, <4>3, PoolAssumption DEF Exclusive
      <4> QED
        BY <2>3, <2>6, <4>2, <4>3
    <3> QED
      BY <3>2, <3>3
  <2>9. \A u, v \in Thread : holds'[u] = holds'[v] => u = v \/ holds'[u] = "nothing"
    BY <2>1 DEF Exclusive
  <2>10. ASSUME NEW o \in Obj
         PROVE  \/ \E i \in DOMAIN available' : available'[i] = o
                \/ \E u \in Thread : holds'[u] = o
    <3>1. CASE o = holds[t]
      <4>1. n + 1 \in DOMAIN available'
        BY <2>2, <2>3
      <4> QED
        BY <2>4, <3>1, <4>1
    <3>2. ASSUME NEW i \in DOMAIN available, available[i] = o
          PROVE  \E j \in DOMAIN available' : available'[j] = o
      <4>1. i \in DOMAIN available'
        BY <2>2, <2>3
      <4> QED
        BY <2>2, <2>5, <3>2, <4>1
    <3>3. ASSUME NEW u \in Thread, u # t, holds[u] = o
          PROVE  \E v \in Thread : holds'[v] = o
      BY <2>1, <3>3
    <3> QED
      BY <3>1, <3>2, <3>3 DEF Exclusive
  <2> QED
    BY <2>7, <2>8, <2>9, <2>10 DEF Exclusive
<1>3. ASSUME UNCHANGED <<holds, available>> PROVE Exclusive'
  BY <1>3 DEF Exclusive
<1>4. ASSUME NEW t \in Thread, Get(t), available = <<>> PROVE Exclusive'
  BY <1>3, <1>4 DEF Get
<1>5. ASSUME NEW t \in Thread,
             \/ Call(t) \/ Recheck(t) \/ Spurious(t) \/ Expire(t)
             \/ ReturnNull(t) \/ Notify(t)
      PROVE  Exclusive'
  BY <1>3, <1>5 DEF Call, Recheck, Spurious, Expire, ReturnNull, Notify
<1> QED
  BY <1>1, <1>2, <1>3, <1>4, <1>5 DEF PoolNext, poolVars

-------------------------------------------------------------------------------
LEMMA ComingCounts ==
    /\ IsFiniteSet(Coming) /\ Cardinality(Coming) \in Nat
    /\ IsFiniteSet(Coming') /\ Cardinality(Coming') \in Nat
<1>1. Coming \in SUBSET Thread /\ Coming' \in SUBSET Thread
  BY DEF Coming
<1> QED
  BY <1>1, PoolAssumption, FS_Subset, FS_CardinalityType

(* A thread that turns to the pool is counted from then on.                *)
LEMMA ComingGrows ==
    ASSUME NEW t, Coming' = Coming \cup {t}
    PROVE  Cardinality(Coming') >= Cardinality(Coming)
<1>1. Cardinality(Coming') = IF t \in Coming THEN Cardinality(Coming)
                                             ELSE Cardinality(Coming) + 1
  BY ComingCounts, FS_AddElement
<1> QED
  BY <1>1, ComingCounts

(* A thread leaves Coming only with an object or after waking another; an  *)
(* object enters the pool only with a thread that is about to notify.      *)
LEMMA NextNoLostWakeup ==
    PoolTypeOK /\ HoldersUse /\ NoLostWakeup /\ [PoolNext]_poolVars => NoLostWakeup'
<1> SUFFICES ASSUME PoolTypeOK, HoldersUse, NoLostWakeup, [PoolNext]_poolVars
             PROVE  NoLostWakeup'
  OBVIOUS
<1> USE DEF PoolTypeOK, Go
<1>a. Len(available) \in Nat
  OBVIOUS
<1>b. ASSUME Len(available') = 0 PROVE NoLostWakeup'
  BY <1>b, ComingCounts DEF NoLostWakeup
<1>c. ASSUME NEW t \in Thread, available' = available,
             Waiting # {}, Coming' = Coming \cup {t}
      PROVE  NoLostWakeup'
  <2>1. Len(available) <= Cardinality(Coming)
    BY <1>c DEF NoLostWakeup
  <2>2. Cardinality(Coming) <= Cardinality(Coming')
    BY <1>c, ComingGrows, ComingCounts
  <2>3. Len(available') <= Cardinality(Coming')
    BY <1>a, <1>c, <2>1, <2>2, ComingCounts
  <2> QED
    BY <2>3 DEF NoLostWakeup
<1>1. ASSUME NEW t \in Thread, Call(t) PROVE NoLostWakeup'
  <2>1. Waiting' = Waiting /\ Coming' = Coming \cup {t}
    BY <1>1 DEF Call, Waiting, Coming
  <2>2. available' = available
    BY <1>1 DEF Call
  <2>3. CASE Waiting = {}
    BY <2>1, <2>3 DEF NoLostWakeup
  <2>4. CASE Waiting # {}
    BY <1>c, <2>1, <2>2, <2>4
  <2> QED
    BY <2>3, <2>4
<1>2. ASSUME NEW t \in Thread, Get(t) PROVE NoLostWakeup'
  <2>1. CASE available = <<>>
    BY <1>2, <1>b, <2>1 DEF Get
  <2>2. CASE available # <<>>
    <3>1. Waiting' = Waiting /\ Coming' = Coming \ {t} /\ t \in Coming
      BY <1>2, <2>2 DEF Get, Waiting, Coming
    <3>2. Len(available') = Len(available) - 1
      BY <1>2, <2>2, HeadTailProperties DEF Get
    <3>3. Cardinality(Coming') = Cardinality(Coming) - 1
      BY <3>1, ComingCounts, FS_RemoveElement
    <3> QED
      BY <1>a, <3>1, <3>2, <3>3, ComingCounts DEF NoLostWakeup
  <2> QED
    BY <2>1, <2>2
<1>3. ASSUME NEW t \in Thread, Recheck(t) PROVE NoLostWakeup'
  <2>1. CASE available = <<>>
    BY <1>3, <1>b, <2>1 DEF Recheck
  <2>2. CASE available # <<>>
    <3>1. Waiting' = Waiting /\ Coming' = Coming /\ available' = available
      BY <1>3, <2>2 DEF Recheck, Waiting, Coming
    <3> QED
      BY <3>1 DEF NoLostWakeup
  <2> QED
    BY <2>1, <2>2
<1>4. ASSUME NEW t \in Thread, Spurious(t) PROVE NoLostWakeup'
  <2>1. t \in Waiting /\ Coming' = Coming \cup {t} /\ available' = available
    BY <1>4 DEF Spurious, Waiting, Coming
  <2> QED
    BY <1>c, <2>1
<1>5. ASSUME NEW t \in Thread, Expire(t) \/ ReturnNull(t) PROVE NoLostWakeup'
  <2>1. Waiting' \subseteq Waiting /\ Coming' = Coming /\ available' = available
    BY <1>5 DEF Expire, ReturnNull, Waiting, Coming
  <2> QED
    BY <2>1 DEF NoLostWakeup
<1>6. ASSUME NEW t \in Thread, Add(t) PROVE NoLostWakeup'
  <2>1. Waiting' = Waiting /\ Coming' = Coming \cup {t} /\ t \notin Coming
    BY <1>6 DEF Add, Waiting, Coming
  <2>2. Len(available') = Len(available) + 1
    BY <1>6 DEF Add, HoldersUse
  <2>3. Cardinality(Coming') = Cardinality(Coming) + 1
    BY <2>1, ComingCounts, FS_AddElement
  <2> QED
    BY <1>a, <2>1, <2>2, <2>3, ComingCounts DEF NoLostWakeup
<1>7. ASSUME NEW t \in Thread, Notify(t) PROVE NoLostWakeup'
  <2>1. available' = available /\ pc[t] = "notify"
    BY <1>7 DEF Notify
  <2>2. CASE Waiting = {}
    <3>1. Waiting' = {}
      BY <1>7, <2>2 DEF Notify, Waiting
    <3> QED
      BY <3>1 DEF NoLostWakeup
  <2>3. CASE Waiting # {}
    <3>1. PICK w \in Waiting : pc' = [pc EXCEPT ![t] = "idle", ![w] = "woken"]
      BY <1>7, <2>3 DEF Notify, Waiting
    <3>2. w \notin Coming /\ t \in Coming /\ w # t /\ w \in Thread
      BY <2>1 DEF Waiting, Coming
    <3>3. Coming' = (Coming \ {t}) \cup {w}
      BY <2>1, <3>1, <3>2 DEF Coming
    <3>4. Cardinality(Coming \ {t}) = Cardinality(Coming) - 1 /\ IsFiniteSet(Coming \ {t})
      BY <3>2, ComingCounts, FS_RemoveElement
    <3>5. Cardinality(Coming') = Cardinality(Coming \ {t}) + 1
      <4>1. w \notin Coming \ {t}
        BY <3>2
      <4> QED
        BY <3>3, <3>4, <4>1, FS_AddElement
    <3>6. Cardinality(Coming') = Cardinality(Coming)
      BY <3>4, <3>5, ComingCounts
    <3> QED
      BY <2>1, <2>3, <3>6 DEF NoLostWakeup
  <2> QED
    BY <2>2, <2>3
<1>8. CASE UNCHANGED poolVars
  BY <1>8 DEF poolVars, NoLostWakeup, Waiting, Coming
<1> QED
  BY <1>1, <1>2, <1>3, <1>4, <1>5, <1>6, <1>7, <1>8 DEF PoolNext

-------------------------------------------------------------------------------
(* The pool's inductive invariant. *)
THEOREM PoolInvariant == PoolSpec => []PoolInv
<1>1. PoolInv /\ [PoolNext]_poolVars => PoolInv'
  BY NextPoolTypeOK, NextHoldersUse, NextExclusive, NextNoLostWakeup DEF PoolInv
<1> QED
  BY <1>1, InitPoolInv, PTL DEF PoolSpec

(* Every variable of the pool keeps its type. *)
THEOREM PoolTypeCorrect == PoolSpec => []PoolTypeOK
<1>1. PoolInv => PoolTypeOK
  BY DEF PoolInv
<1> QED
  BY <1>1, PoolInvariant, PTL

(* No object is lost, duplicated or shared. *)
THEOREM ObjectsAreExclusive == PoolSpec => []Exclusive
<1>1. PoolInv => Exclusive
  BY DEF PoolInv
<1> QED
  BY <1>1, PoolInvariant, PTL

(* While threads sleep, every object in the pool has somebody coming. *)
THEOREM WakeupsAreNotLost == PoolSpec => []NoLostWakeup
<1>1. PoolInv => NoLostWakeup
  BY DEF PoolInv
<1> QED
  BY <1>1, PoolInvariant, PTL

(* When the threads are done every object is back: the pool is a           *)
(* permutation of Obj again.                                               *)
THEOREM PoolIsRestored == PoolSpec => []PoolRestored
<1>1. ASSUME PoolTypeOK, HoldersUse, Exclusive, AllJoined
      PROVE  Len(available) = Cardinality(Obj)
  <2> USE DEF PoolTypeOK
  <2>1. \A o \in Obj : \E i \in DOMAIN available : available[i] = o
    BY <1>1, PoolAssumption DEF Exclusive, HoldersUse, AllJoined
  <2>2. /\ Len(available) \in Nat
        /\ DOMAIN available = 1 .. Len(available)
        /\ available \in [1 .. Len(available) -> Obj]
    BY <1>1
  <2>3. available \in Surjection(1 .. Len(available), Obj)
    BY <2>1, <2>2 DEF Surjection
  <2>4. available \in Injection(1 .. Len(available), Obj)
    BY <1>1, <2>2 DEF Exclusive, Injection, IsInjective
  <2>5. IsFiniteSet(1 .. Len(available)) /\ Cardinality(1 .. Len(available)) = Len(available)
    BY <2>2, FS_Interval
  <2> QED
    BY <2>3, <2>4, <2>5, FS_Surjection
<1>2. PoolInv => PoolRestored
  BY <1>1 DEF PoolInv, PoolRestored
<1> QED
  BY <1>2, PoolInvariant, PTL
===============================================================================
