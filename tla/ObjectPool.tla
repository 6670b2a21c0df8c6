------------------------------ MODULE ObjectPool ------------------------------
(***************************************************************************)
(* ObjectPool<objectType> (src/include/objectPool.hpp), used the way       *)
(* tests/poolTest.cpp uses it: every thread takes an object, uses it and   *)
(* gives it back, Times times.                                             *)
(*                                                                         *)
(* What runs under mutex_ is one step; a thread is preempted where the     *)
(* code holds no lock: at the head of get()'s loop, between a wake-up and  *)
(* the mutex, and between add()'s push and its notify_one.  The condition  *)
(* variable may wake a thread for no reason.                               *)
(***************************************************************************)
EXTENDS Integers, Sequences, FiniteSets

CONSTANTS
    Thread, Obj,
    Times           \* objects each thread asks for

ASSUME PoolAssumption ==
    /\ IsFiniteSet(Thread) /\ IsFiniteSet(Obj)
    /\ Times \in Nat
    /\ Obj \cap {"nothing"} = {}

VARIABLES
    pc,             \* where each thread is
    holds,          \* the object it uses
    available,      \* available_
    asked,          \* calls of get() each thread has made
    used,           \* objects used in all
    timed           \* timeout_ > 0

poolVars == <<pc, holds, available, asked, used, timed>>

Location == {"idle",        \* about to call get(), or finished
             "get",         \* at the head of the loop of get()
             "waiting",     \* blocked in cond_
             "woken",       \* notified, about to lock mutex_ again
             "expired",     \* timed out, about to lock mutex_ again
             "holding",     \* using the object
             "notify"}      \* in add(), the object pushed

(* SetUp() has put every object into the pool, in some order. *)
PoolInit ==
    /\ pc = [t \in Thread |-> "idle"]
    /\ holds = [t \in Thread |-> "nothing"]
    /\ available \in {s \in [1..Cardinality(Obj) -> Obj] :
                         \A o \in Obj : \E i \in DOMAIN s : s[i] = o}
    /\ asked = [t \in Thread |-> 0]
    /\ used = 0
    /\ timed \in BOOLEAN

Go(t, p) == pc' = [pc EXCEPT ![t] = p]

(* Bug: i <= count. *)
CallOnceMore(t) ==
    /\ pc[t] = "idle" /\ asked[t] <= Times
    /\ asked' = [asked EXCEPT ![t] = @ + 1]
    /\ Go(t, "get")
    /\ UNCHANGED <<holds, available, used, timed>>

(* for ( i < count ) pool->get() *)
Call(t) ==
    /\ pc[t] = "idle" /\ asked[t] < Times
    /\ asked' = [asked EXCEPT ![t] = @ + 1]
    /\ Go(t, "get")
    /\ UNCHANGED <<holds, available, used, timed>>

(* Bug: available_.pop_front() is missing. *)
GetUnpopped(t) ==
    /\ pc[t] = "get"
    /\ available # <<>>
    /\ holds' = [holds EXCEPT ![t] = Head(available)]
    /\ Go(t, "holding")
    /\ UNCHANGED <<available, asked, used, timed>>

(* One turn of get()'s loop: take the first object, or wait.  cond_.wait   *)
(* releases mutex_ and blocks in one step.                                 *)
Get(t) ==
    /\ pc[t] = "get"
    /\ \/ /\ available # <<>>
          /\ holds' = [holds EXCEPT ![t] = Head(available)]
          /\ available' = Tail(available)
          /\ Go(t, "holding")
       \/ /\ available = <<>>
          /\ Go(t, "waiting")
          /\ UNCHANGED <<holds, available>>
    /\ UNCHANGED <<asked, used, timed>>

(* Bug: an if instead of the loops: woken to an empty pool, return NULL. *)
RecheckOnce(t) ==
    /\ pc[t] = "woken"
    /\ Go(t, IF available = <<>> THEN "idle" ELSE "get")
    /\ UNCHANGED <<holds, available, asked, used, timed>>

(* Back from the wait under mutex_: wait again, or leave the inner loop,   *)
(* which releases mutex_ and starts the outer one over.                    *)
Recheck(t) ==
    /\ pc[t] = "woken"
    /\ Go(t, IF available = <<>> THEN "waiting" ELSE "get")
    /\ UNCHANGED <<holds, available, asked, used, timed>>

(* A wake-up nobody asked for. *)
Spurious(t) ==
    /\ pc[t] = "waiting"
    /\ Go(t, "woken")
    /\ UNCHANGED <<holds, available, asked, used, timed>>

(* timed_wait runs out: the thread no longer waits ... *)
Expire(t) ==
    /\ timed
    /\ pc[t] = "waiting"
    /\ Go(t, "expired")
    /\ UNCHANGED <<holds, available, asked, used, timed>>

(* ... and returns NULL without another look at available_. *)
ReturnNull(t) ==
    /\ pc[t] = "expired"
    /\ Go(t, "idle")
    /\ UNCHANGED <<holds, available, asked, used, timed>>

(* Bug: the object is not pushed back. *)
AddNothing(t) ==
    /\ pc[t] = "holding"
    /\ used' = used + 1
    /\ holds' = [holds EXCEPT ![t] = "nothing"]
    /\ Go(t, "notify")
    /\ UNCHANGED <<available, asked, timed>>

(* The object is used and pushed back under mutex_. *)
Add(t) ==
    /\ pc[t] = "holding"
    /\ used' = used + 1
    /\ available' = Append(available, holds[t])
    /\ holds' = [holds EXCEPT ![t] = "nothing"]
    /\ Go(t, "notify")
    /\ UNCHANGED <<asked, timed>>

(* Bug: nobody is notified. *)
NotifyNobody(t) ==
    /\ pc[t] = "notify"
    /\ Go(t, "idle")
    /\ UNCHANGED <<holds, available, asked, used, timed>>

(* cond_.notify_one(), without the lock. *)
Notify(t) ==
    /\ pc[t] = "notify"
    /\ LET waiters == {w \in Thread : pc[w] = "waiting"} IN
       \/ /\ waiters = {}
          /\ Go(t, "idle")
       \/ \E w \in waiters : pc' = [pc EXCEPT ![t] = "idle", ![w] = "woken"]
    /\ UNCHANGED <<holds, available, asked, used, timed>>

PoolNext ==
    \E t \in Thread :
        \/ Call(t) \/ Get(t) \/ Recheck(t) \/ Spurious(t) \/ Expire(t)
        \/ ReturnNull(t) \/ Add(t) \/ Notify(t)

PoolSpec == PoolInit /\ [][PoolNext]_poolVars

(* Every thread that can run does: mutex_ is held for one step only.       *)
(* Nothing makes the condition variable wake a thread without a notify.    *)
PoolFairSpec ==
    /\ PoolSpec
    /\ \A t \in Thread :
          /\ WF_poolVars(Call(t)) /\ WF_poolVars(Get(t)) /\ WF_poolVars(Recheck(t))
          /\ WF_poolVars(ReturnNull(t)) /\ WF_poolVars(Add(t)) /\ WF_poolVars(Notify(t))

-------------------------------------------------------------------------------
(* Every variable has its type; no thread calls get() more than Times times. *)
PoolTypeOK ==
    /\ pc \in [Thread -> Location]
    /\ holds \in [Thread -> Obj \cup {"nothing"}]
    /\ available \in Seq(Obj)
    /\ asked \in [Thread -> 0..Times]
    /\ used \in Nat
    /\ timed \in BOOLEAN

(* No object is lost, duplicated or used by two threads at a time.         *)
Exclusive ==
    /\ \A i, j \in DOMAIN available : available[i] = available[j] => i = j
    /\ \A t \in Thread : \A i \in DOMAIN available : holds[t] # available[i]
    /\ \A t, u \in Thread : holds[t] = holds[u] => t = u \/ holds[t] = "nothing"
    /\ \A o \in Obj : \/ \E i \in DOMAIN available : available[i] = o
                      \/ \E t \in Thread : holds[t] = o

Waiting == {t \in Thread : pc[t] = "waiting"}

(* Threads that will look at the pool, or wake one that will. *)
Coming == {t \in Thread : pc[t] \in {"get", "woken", "notify"}}

(* No wake-up is lost: while a thread sleeps, every object in the pool has *)
(* a thread of its own on the way to fetch it or to wake a sleeper.        *)
NoLostWakeup == Waiting # {} => Len(available) <= Cardinality(Coming)

AllJoined == \A t \in Thread : pc[t] = "idle" /\ asked[t] = Times

(* ASSERT_EQ( used, noThreads * times ), as poolTest.cpp has it of pools   *)
(* without a timeout (noTimeout, noTimeoutSleep).                          *)
EveryGetServed == ~timed /\ AllJoined => used = Cardinality(Thread) * Times

(* The same assertion, as poolTest.cpp has it of pools with a timeout      *)
(* (Timeout, TimeoutSleep).  It does not hold: a get() that has waited too *)
(* long returns NULL, and nothing is used.                                 *)
EveryTimedGetServed == timed /\ AllJoined => used = Cardinality(Thread) * Times

(* After the test every object is back and unused. *)
PoolRestored == AllJoined => Len(available) = Cardinality(Obj)

(* The threads of the tests can be joined, with and without a timeout: no  *)
(* thread sleeps forever.  Without one every get() was served then.  Of a  *)
(* pool with a timeout only the join is claimed, which is less than its    *)
(* tests assert: see EveryTimedGetServed.                                  *)
ThreadsJoin == <>(AllJoined /\ EveryGetServed)
===============================================================================
