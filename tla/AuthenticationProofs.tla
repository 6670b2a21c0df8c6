------------------------- MODULE AuthenticationProofs --------------------------
(***************************************************************************)
(* Proofs about the authenticators, for all users, passwords and PAM       *)
(* stacks and however many logins: no success on what an earlier login     *)
(* left behind, and no failure before the first success.                   *)
(*                                                                         *)
(* The authenticator outlives a login, so the invariant says what of its   *)
(* fields is of this login in which state, and what is left of the last.   *)
(***************************************************************************)
EXTENDS Authentication, TLAPS

(* The states of each mechanism, and where the caller meets them. *)
StatesFit ==
    /\ auth.state \in {"HAS_LOGIN", "HAS_PASS"} => mech = "PAM"
    /\ auth.state = "COMPUTE" => mech # "PAM"
    /\ at = "receive" /\ auth.token = "login" => auth.state = "NEED_LOGIN"
    /\ at = "receive" /\ auth.token = "password" => auth.state = "NEED_PASS"
    /\ at = "done" => auth.state = "NEED_LOGIN"

(* What was typed in this login is what the authenticator works with. *)
OfThisLogin ==
    /\ auth.state \in {"NEED_PASS", "COMPUTE", "HAS_LOGIN", "HAS_PASS"}
          => auth.login = typed.login /\ auth.login \in User
    /\ auth.state \in {"COMPUTE", "HAS_PASS"} => auth.pass = typed.pass

(* PAM's password is forgotten when a login ends, has_pass may stay. *)
OfTheLast ==
    mech = "PAM" /\ auth.state \in {"NEED_LOGIN", "HAS_LOGIN", "NEED_PASS"}
        => auth.pass = Empty

LoginInv == TypeOK /\ StatesFit /\ OfThisLogin /\ OfTheLast

(* A password that PAM accepts was typed in this login or is empty.        *)
LEMMA AcceptedIsRight ==
    ASSUME NEW a, mech = "PAM", stack \in Seq(Style),
           a.login = typed.login, a.login \in User,
           a.pass = typed.pass \/ a.pass = Empty,
           PamAuthenticate(a) = "SUCCESS", a.login \in Permitted
    PROVE  Right \/ OpenAccount
  <1>1. Stops(a) = {}
    BY DEF PamAuthenticate
  <1>2. \A i \in DOMAIN stack :
            stack[i] = "ECHO_OFF" => Response(a, i) = Account[a.login]
    BY <1>1 DEF PamAuthenticate
  <1>3. Account[a.login] # Nothing
    BY AuthenticationAssumption
  <1>4. \A i \in DOMAIN stack : stack[i] = "ECHO_OFF" => a.pass = Account[a.login]
    BY <1>2, <1>3 DEF Response
  <1>5. CASE a.pass = typed.pass
    BY <1>4, <1>5 DEF Right
  <1>6. CASE a.pass = Empty
    <2>1. CASE Account[a.login] = Empty
      BY <2>1 DEF OpenAccount
    <2>2. CASE Account[a.login] # Empty
      BY <1>4, <1>6, <2>2 DEF Right
    <2>. QED
      BY <2>1, <2>2
  <1>. QED
    BY <1>5, <1>6

(* What one call of PAM's nextStep() does in HAS_LOGIN or HAS_PASS. *)
LEMMA AuthenticateKeeps ==
    ASSUME NEW a, LoginInv, at = "next", Authenticate(a), mech = "PAM",
           a = auth \/ a = [auth EXCEPT !.handle = "started"],
           auth.state \in {"HAS_LOGIN", "HAS_PASS"}
    PROVE  LoginInv' /\ SuccessIsEarned'
  <1>1. /\ a.state = auth.state /\ a.login = auth.login /\ a.pass = auth.pass
        /\ a.has_pass = auth.has_pass
        /\ a \in [state : {"NEED_LOGIN", "NEED_PASS", "COMPUTE", "HAS_LOGIN",
                           "HAS_PASS", "ERROR"},
                  token : {"none", "login", "password", "message"},
                  login : User \cup {Nothing}, pass : Password,
                  has_pass : BOOLEAN, handle : {"NULL", "started"}]
    BY DEF LoginInv, TypeOK
  <1>2. Empty \in Password
    BY AuthenticationAssumption
  <1>3. CASE Throws
    BY <1>3 DEF Throws, LoginInv, TypeOK, StatesFit, OfThisLogin, OfTheLast,
                SuccessIsEarned
  <1>4. CASE a.state = "HAS_LOGIN"
             /\ Returns("RECV_DATA", [a EXCEPT !.token = "password",
                                               !.state = "NEED_PASS"])
    <2>1. auth' = [a EXCEPT !.token = "password", !.state = "NEED_PASS"]
          /\ step' = "RECV_DATA" /\ at' = "receive"
          /\ UNCHANGED <<mech, stack, typed, logins, succeeded>>
      BY <1>4 DEF Returns
    <2>. QED
      BY <1>1, <1>4, <2>1
         DEF LoginInv, TypeOK, StatesFit, OfThisLogin, OfTheLast, SuccessIsEarned
  <1>5. CASE PamAuthenticate(a) = "SUCCESS" /\ a.login \in Permitted /\ Succeeds(a)
    <2>1. /\ auth' = [a EXCEPT !.state = "NEED_LOGIN", !.handle = "NULL",
                               !.pass = Empty]
          /\ step' = "SUCCESS" /\ at' = "done"
          /\ UNCHANGED <<mech, stack, typed, logins, succeeded>>
      BY <1>5 DEF Succeeds, Returns
    <2>2. stack \in Seq(Style)
      BY AuthenticationAssumption DEF LoginInv, TypeOK
    <2>3. /\ a.login = typed.login /\ a.login \in User
          /\ a.pass = typed.pass \/ a.pass = Empty
      BY <1>1 DEF LoginInv, OfThisLogin, OfTheLast
    <2>4. Right \/ OpenAccount
      BY <1>5, <2>2, <2>3, AcceptedIsRight
    <2>5. (Right \/ OpenAccount)'
      BY <2>1, <2>4 DEF Right, OpenAccount
    <2>6. LoginInv'
      BY <1>1, <1>2, <2>1
         DEF LoginInv, TypeOK, StatesFit, OfThisLogin, OfTheLast
    <2>. QED
      BY <2>5, <2>6 DEF SuccessIsEarned
  <1>6. CASE Refuses(a)
    <2>1. auth' = [a EXCEPT !.token = "message", !.state = "ERROR"]
          /\ step' = "SEND_DATA" /\ at' = "send"
          /\ UNCHANGED <<mech, stack, typed, logins, succeeded>>
      BY <1>6 DEF Refuses, Returns
    <2>. QED
      BY <1>1, <2>1
         DEF LoginInv, TypeOK, StatesFit, OfThisLogin, OfTheLast, SuccessIsEarned
  <1>. QED
    BY <1>3, <1>4, <1>5, <1>6 DEF Authenticate

LEMMA LoginStep ==
    ASSUME LoginInv, SuccessIsEarned, [Next]_vars
    PROVE  LoginInv' /\ SuccessIsEarned'
  <1>. USE DEF LoginInv, TypeOK, StatesFit, OfThisLogin, OfTheLast, SuccessIsEarned
  <1>1. CASE Choose
    BY <1>1 DEF Choose
  <1>2. CASE AskLogin
    <2>1. auth' = [auth EXCEPT !.token = "login"]
          /\ step' = "RECV_DATA" /\ at' = "receive" /\ auth.state = "NEED_LOGIN"
          /\ UNCHANGED <<mech, stack, typed, logins, succeeded>>
      BY <1>2 DEF AskLogin, Returns, InState
    <2>. QED
      BY <2>1
  <1>3. CASE AskPassword
    <2>1. auth' = [auth EXCEPT !.token = "password"]
          /\ step' = "RECV_DATA" /\ at' = "receive" /\ auth.state = "NEED_PASS"
          /\ UNCHANGED <<mech, stack, typed, logins, succeeded>>
      BY <1>3 DEF AskPassword, Returns, InState
    <2>. QED
      BY <2>1
  <1>4. CASE Compute
    <2>1. /\ auth' = [auth EXCEPT !.state = "NEED_LOGIN"] /\ at' = "done"
          /\ step' \in {"SUCCESS", "FAIL"} /\ auth.state = "COMPUTE"
          /\ UNCHANGED <<mech, stack, typed, logins, succeeded>>
          /\ step' = "SUCCESS" => auth.login \in DOMAIN Creds
                                  /\ Creds[auth.login] = auth.pass
      BY <1>4 DEF Compute, Returns, InState
    <2>2. step' = "SUCCESS" => Right'
      BY <2>1 DEF Right
    <2>3. LoginInv'
      BY <2>1
    <2>. QED
      BY <2>2, <2>3
  <1>5. CASE HasLogin
    <2>1. CASE Throws
      BY <2>1 DEF Throws
    <2>2. CASE Authenticate([auth EXCEPT !.handle = "started"])
      BY <1>5, <2>2, AuthenticateKeeps DEF HasLogin, InState
    <2>. QED
      BY <1>5, <2>1, <2>2 DEF HasLogin
  <1>6. CASE HasPass
    BY <1>6, AuthenticateKeeps DEF HasPass, InState
  <1>7. CASE Error
    <2>1. /\ auth' = [auth EXCEPT !.state = "NEED_LOGIN", !.handle = "NULL",
                                  !.has_pass = FALSE, !.pass = Empty]
          /\ at' = "done" /\ step' = "FAIL"
          /\ UNCHANGED <<mech, stack, typed, logins, succeeded>>
      BY <1>7 DEF Error, Returns
    <2>. QED
      BY <2>1, AuthenticationAssumption
  <1>8. CASE SendData
    BY <1>8 DEF SendData
  <1>9. ASSUME NEW u \in User, ReceiveLogin(u) PROVE LoginInv' /\ SuccessIsEarned'
    <2>1. /\ at' = "next" /\ auth.state = "NEED_LOGIN"
          /\ typed' = [typed EXCEPT !.login = u]
          /\ auth' = [auth EXCEPT !.login = u,
                         !.state = IF mech = "PAM" THEN "HAS_LOGIN" ELSE "NEED_PASS"]
          /\ UNCHANGED <<mech, stack, step, logins, succeeded>>
      BY <1>9 DEF ReceiveLogin
    <2>. QED
      BY <2>1
  <1>10. ASSUME NEW p \in Password, ReceivePassword(p)
         PROVE  LoginInv' /\ SuccessIsEarned'
    <2>1. /\ at' = "next" /\ auth.state = "NEED_PASS"
          /\ typed' = [typed EXCEPT !.pass = p]
          /\ auth' = [auth EXCEPT !.pass = p, !.has_pass = (mech = "PAM"),
                         !.state = IF mech = "PAM" THEN "HAS_PASS" ELSE "COMPUTE"]
          /\ UNCHANGED <<mech, stack, step, logins, succeeded>>
      BY <1>10 DEF ReceivePassword
    <2>. QED
      BY <2>1
  <1>11. CASE LoginAgain
    <2>1. /\ at' = "next" /\ step' = "none" /\ typed' = NothingTyped
          /\ logins' = logins + 1 /\ auth.state = "NEED_LOGIN"
          /\ succeeded' = (succeeded \/ step = "SUCCESS")
          /\ UNCHANGED <<mech, stack, auth>>
      BY <1>11 DEF LoginAgain
    <2>. QED
      BY <2>1 DEF NothingTyped
  <1>12. CASE UNCHANGED vars
    BY <1>12 DEF vars, Right, OpenAccount
  <1>. QED
    BY <1>1, <1>2, <1>3, <1>4, <1>5, <1>6, <1>7, <1>8, <1>9, <1>10, <1>11, <1>12
       DEF Next

LEMMA LoginInit == Init => LoginInv /\ SuccessIsEarned
  <1>. SUFFICES ASSUME Init PROVE LoginInv /\ SuccessIsEarned
    OBVIOUS
  <1>1. /\ auth = NewAuthenticator /\ typed = NothingTyped
        /\ at = "choose" /\ step = "none" /\ logins = 0 /\ succeeded = FALSE
        /\ mech \in {"TEXT_FILE"} \cup Optional /\ stack \in Stacks
    BY DEF Init
  <1>2. Empty \in Password
    BY AuthenticationAssumption
  <1>3. TypeOK
    BY <1>1, <1>2 DEF NewAuthenticator, NothingTyped, TypeOK
  <1>4. StatesFit /\ OfThisLogin /\ OfTheLast
    BY <1>1 DEF NewAuthenticator, StatesFit, OfThisLogin, OfTheLast
  <1>. QED
    BY <1>1, <1>3, <1>4 DEF LoginInv, SuccessIsEarned

(* Nobody gets in on what was typed in an earlier login, however many      *)
(* logins share the authenticator that authentication.cpp keeps.           *)
THEOREM SuccessEarned == Spec => []SuccessIsEarned
  <1>1. Init => LoginInv /\ SuccessIsEarned
    BY LoginInit
  <1>2. LoginInv /\ SuccessIsEarned /\ [Next]_vars => LoginInv' /\ SuccessIsEarned'
    BY LoginStep
  <1>. QED
    BY <1>1, <1>2, PTL DEF Spec

-------------------------------------------------------------------------------
(* PAM has a password when it was given one in this login and, before the  *)
(* first success, at no other time.                                        *)
HasPassFits ==
    /\ mech # "PAM" => ~auth.has_pass
    /\ auth.state = "HAS_PASS" => auth.has_pass
    /\ /\ ~succeeded /\ ~(at = "done" /\ step = "SUCCESS")
       /\ auth.state \in {"NEED_LOGIN", "HAS_LOGIN", "NEED_PASS"}
       => ~auth.has_pass

(* The password is all that PAM may ask for. *)
Simple == mech = "PAM" => stack \in {<<>>, <<"ECHO_OFF">>}

(* What makes a failure one that is earned. *)
Wrong ==
    ~Right /\ (typed.pass # Nothing \/ (mech = "PAM" /\ stack = <<>>))

(* PAM has refused, and has yet to say so. *)
RefusalIsEarned == auth.state = "ERROR" /\ ~succeeded /\ Simple => Wrong

FailInv == HasPassFits /\ RefusalIsEarned /\ FailureIsEarned

(* A PAM that asks for the password only, and has it if it is asked for,   *)
(* refuses what is wrong.                                                  *)
LEMMA RefusedIsWrong ==
    ASSUME NEW a, mech = "PAM", stack \in {<<>>, <<"ECHO_OFF">>},
           a.login = typed.login, a.has_pass \/ stack = <<>>,
           a.has_pass => a.pass = typed.pass /\ a.pass \in Password,
           ~(PamAuthenticate(a) = "SUCCESS" /\ a.login \in Permitted)
    PROVE  Wrong
  <1>1. Nothing \notin Password
    BY AuthenticationAssumption
  <1>2. CASE stack = <<>>
    <2>1. Stops(a) = {}
      BY <1>2 DEF Stops
    <2>2. PamAuthenticate(a) = "SUCCESS"
      BY <1>2, <2>1 DEF PamAuthenticate
    <2>. QED
      BY <1>2, <2>2 DEF Wrong, Right
  <1>3. CASE stack = <<"ECHO_OFF">> /\ a.has_pass
    <2>1. DOMAIN stack = {1} /\ stack[1] = "ECHO_OFF" /\ Len(stack) = 1
      BY <1>3
    <2>2. Stops(a) = {}
      BY <1>3, <2>1 DEF Stops, Unanswerable
    <2>3. Response(a, 1) = a.pass
      BY <2>1 DEF Response
    <2>4. CASE a.pass = Account[a.login]
      <3>1. PamAuthenticate(a) = "SUCCESS"
        BY <2>1, <2>2, <2>3, <2>4 DEF PamAuthenticate
      <3>. QED
        BY <1>1, <1>3, <3>1 DEF Wrong, Right
    <2>5. CASE a.pass # Account[a.login]
      BY <1>1, <1>3, <2>1, <2>5 DEF Wrong, Right
    <2>. QED
      BY <2>4, <2>5
  <1>. QED
    BY <1>2, <1>3

LEMMA AuthenticateFailsFairly ==
    ASSUME NEW a, LoginInv, FailInv, at = "next", Authenticate(a), mech = "PAM",
           a = auth \/ a = [auth EXCEPT !.handle = "started"],
           auth.state \in {"HAS_LOGIN", "HAS_PASS"}
    PROVE  FailInv'
  <1>1. /\ a.state = auth.state /\ a.login = auth.login /\ a.pass = auth.pass
        /\ a.has_pass = auth.has_pass
        /\ a \in [state : {"NEED_LOGIN", "NEED_PASS", "COMPUTE", "HAS_LOGIN",
                           "HAS_PASS", "ERROR"},
                  token : {"none", "login", "password", "message"},
                  login : User \cup {Nothing}, pass : Password,
                  has_pass : BOOLEAN, handle : {"NULL", "started"}]
    BY DEF LoginInv, TypeOK
  <1>2. CASE Throws
    BY <1>2 DEF Throws, FailInv, HasPassFits, RefusalIsEarned, FailureIsEarned,
                Simple, Wrong, Right
  <1>3. CASE a.state = "HAS_LOGIN"
             /\ Returns("RECV_DATA", [a EXCEPT !.token = "password",
                                               !.state = "NEED_PASS"])
    <2>1. auth' = [a EXCEPT !.token = "password", !.state = "NEED_PASS"]
          /\ step' = "RECV_DATA" /\ at' = "receive"
          /\ UNCHANGED <<mech, stack, typed, logins, succeeded>>
      BY <1>3 DEF Returns
    <2>. QED
      BY <1>1, <1>3, <2>1
         DEF FailInv, HasPassFits, RefusalIsEarned, FailureIsEarned
  <1>4. CASE Succeeds(a)
    <2>1. /\ auth' = [a EXCEPT !.state = "NEED_LOGIN", !.handle = "NULL",
                               !.pass = Empty]
          /\ step' = "SUCCESS" /\ at' = "done"
          /\ UNCHANGED <<mech, stack, typed, logins, succeeded>>
      BY <1>4 DEF Succeeds, Returns
    <2>. QED
      BY <1>1, <2>1 DEF FailInv, HasPassFits, RefusalIsEarned, FailureIsEarned
  <1>5. CASE /\ Refuses(a)
             /\ ~(PamAuthenticate(a) = "SUCCESS" /\ a.login \in Permitted)
             /\ ~(PamAuthenticate(a) = "INCOMPLETE" /\ a.state = "HAS_LOGIN")
    <2>1. auth' = [a EXCEPT !.token = "message", !.state = "ERROR"]
          /\ step' = "SEND_DATA" /\ at' = "send"
          /\ UNCHANGED <<mech, stack, typed, logins, succeeded>>
      BY <1>5 DEF Refuses, Returns
    <2>2. ASSUME ~succeeded, Simple PROVE Wrong
      <3>1. stack \in {<<>>, <<"ECHO_OFF">>}
        BY <2>2 DEF Simple
      <3>2. a.login = typed.login
        BY <1>1 DEF LoginInv, OfThisLogin
      <3>3. a.has_pass => a.pass = typed.pass /\ a.pass \in Password
        BY <1>1, <2>2 DEF LoginInv, OfThisLogin, FailInv, HasPassFits
      <3>4. a.has_pass \/ stack = <<>>
        <4>1. SUFFICES ASSUME ~a.has_pass, stack = <<"ECHO_OFF">> PROVE FALSE
          BY <3>1
        <4>2. a.state = "HAS_LOGIN"
          BY <1>1, <4>1 DEF FailInv, HasPassFits
        <4>3. DOMAIN stack = {1} /\ stack[1] = "ECHO_OFF"
          BY <4>1
        <4>4. Stops(a) = {1}
          BY <4>1, <4>3 DEF Stops, Unanswerable
        <4>5. StopsAt(a) = 1
          BY <4>4 DEF StopsAt
        <4>6. PamAuthenticate(a) = "INCOMPLETE"
          BY <4>3, <4>4, <4>5 DEF PamAuthenticate
        <4>. QED
          BY <1>5, <4>2, <4>6
      <3>. QED
        BY <1>5, <3>1, <3>2, <3>3, <3>4, RefusedIsWrong
    <2>3. RefusalIsEarned'
      BY <2>1, <2>2 DEF RefusalIsEarned, Simple, Wrong, Right
    <2>. QED
      BY <1>1, <2>1, <2>3 DEF FailInv, HasPassFits, FailureIsEarned
  <1>. QED
    BY <1>2, <1>3, <1>4, <1>5 DEF Authenticate

LEMMA FailureStep ==
    ASSUME LoginInv, FailInv, [Next]_vars
    PROVE  FailInv'
  <1>. USE DEF FailInv, HasPassFits, RefusalIsEarned, FailureIsEarned
  <1>1. CASE Choose
    BY <1>1 DEF Choose, Simple, Wrong, Right
  <1>2. CASE AskLogin
    <2>1. auth' = [auth EXCEPT !.token = "login"]
          /\ step' = "RECV_DATA" /\ at' = "receive" /\ at = "next"
          /\ auth.state = "NEED_LOGIN"
          /\ UNCHANGED <<mech, stack, typed, logins, succeeded>>
      BY <1>2 DEF AskLogin, Returns, InState
    <2>. QED
      BY <2>1 DEF LoginInv, TypeOK
  <1>3. CASE AskPassword
    <2>1. auth' = [auth EXCEPT !.token = "password"]
          /\ step' = "RECV_DATA" /\ at' = "receive" /\ at = "next"
          /\ auth.state = "NEED_PASS"
          /\ UNCHANGED <<mech, stack, typed, logins, succeeded>>
      BY <1>3 DEF AskPassword, Returns, InState
    <2>. QED
      BY <2>1 DEF LoginInv, TypeOK
  <1>4. CASE Compute
    <2>1. /\ auth' = [auth EXCEPT !.state = "NEED_LOGIN"] /\ at' = "done"
          /\ step' \in {"SUCCESS", "FAIL"} /\ auth.state = "COMPUTE"
          /\ UNCHANGED <<mech, stack, typed, logins, succeeded>>
          /\ step' = "FAIL" => ~(auth.login \in DOMAIN Creds
                                 /\ Creds[auth.login] = auth.pass)
      BY <1>4 DEF Compute, Returns, InState
    <2>2. /\ typed.login = auth.login /\ typed.pass = auth.pass
          /\ auth.pass \in Password /\ mech # "PAM"
      BY <2>1 DEF LoginInv, TypeOK, StatesFit, OfThisLogin
    <2>3. typed.pass # Nothing
      BY <2>2, AuthenticationAssumption
    <2>4. step' = "FAIL" => Wrong'
      BY <2>1, <2>2, <2>3 DEF Wrong, Right
    <2>5. ~auth'.has_pass
      BY <2>1, <2>2 DEF LoginInv, TypeOK
    <2>. QED
      BY <2>1, <2>4, <2>5 DEF LoginInv, TypeOK, Wrong
  <1>5. CASE HasLogin
    <2>1. CASE Throws
      BY <1>5, <2>1 DEF HasLogin, InState, Throws, Simple, Wrong, Right
    <2>2. CASE Authenticate([auth EXCEPT !.handle = "started"])
      <3>1. at = "next" /\ auth.state = "HAS_LOGIN" /\ mech = "PAM"
        BY <1>5 DEF HasLogin, InState, LoginInv, StatesFit
      <3>. QED
        BY <2>2, <3>1, AuthenticateFailsFairly
    <2>. QED
      BY <1>5, <2>1, <2>2 DEF HasLogin
  <1>6. CASE HasPass
    <2>1. at = "next" /\ auth.state = "HAS_PASS" /\ mech = "PAM"
      BY <1>6 DEF HasPass, InState, LoginInv, StatesFit
    <2>. QED
      BY <1>6, <2>1, AuthenticateFailsFairly DEF HasPass
  <1>7. CASE Error
    <2>1. /\ auth' = [auth EXCEPT !.state = "NEED_LOGIN", !.handle = "NULL",
                                  !.has_pass = FALSE, !.pass = Empty]
          /\ at' = "done" /\ step' = "FAIL" /\ auth.state = "ERROR"
          /\ UNCHANGED <<mech, stack, typed, logins, succeeded>>
      BY <1>7 DEF Error, Returns, InState
    <2>2. ~succeeded /\ Simple => Wrong
      BY <2>1
    <2>3. FailureIsEarned'
      BY <2>1, <2>2 DEF Simple, Wrong, Right
    <2>4. HasPassFits' /\ RefusalIsEarned'
      BY <2>1 DEF LoginInv, TypeOK
    <2>. QED
      BY <2>3, <2>4
  <1>8. CASE SendData
    BY <1>8 DEF SendData, Simple, Wrong, Right
  <1>9. ASSUME NEW u \in User, ReceiveLogin(u) PROVE FailInv'
    <2>1. /\ at = "receive" /\ at' = "next" /\ auth.state = "NEED_LOGIN"
          /\ typed' = [typed EXCEPT !.login = u]
          /\ auth' = [auth EXCEPT !.login = u,
                         !.state = IF mech = "PAM" THEN "HAS_LOGIN" ELSE "NEED_PASS"]
          /\ UNCHANGED <<mech, stack, step, logins, succeeded>>
      BY <1>9 DEF ReceiveLogin, LoginInv, StatesFit
    <2>. QED
      BY <2>1 DEF LoginInv, TypeOK
  <1>10. ASSUME NEW p \in Password, ReceivePassword(p) PROVE FailInv'
    <2>1. /\ at' = "next" /\ auth.state = "NEED_PASS"
          /\ typed' = [typed EXCEPT !.pass = p]
          /\ auth' = [auth EXCEPT !.pass = p, !.has_pass = (mech = "PAM"),
                         !.state = IF mech = "PAM" THEN "HAS_PASS" ELSE "COMPUTE"]
          /\ UNCHANGED <<mech, stack, step, logins, succeeded>>
      BY <1>10 DEF ReceivePassword, LoginInv, StatesFit
    <2>. QED
      BY <2>1 DEF LoginInv, TypeOK
  <1>11. CASE LoginAgain
    <2>1. /\ at = "done" /\ at' = "next" /\ typed' = NothingTyped
          /\ auth.state = "NEED_LOGIN"
          /\ succeeded' = (succeeded \/ step = "SUCCESS")
          /\ UNCHANGED <<mech, stack, auth>>
      BY <1>11 DEF LoginAgain, LoginInv, StatesFit
    <2>. QED
      BY <2>1 DEF LoginInv, TypeOK
  <1>12. CASE UNCHANGED vars
    BY <1>12 DEF vars, Simple, Wrong, Right
  <1>. QED
    BY <1>1, <1>2, <1>3, <1>4, <1>5, <1>6, <1>7, <1>8, <1>9, <1>10, <1>11, <1>12
       DEF Next

(* Before the first success nobody is turned away on what an earlier login *)
(* left behind in the authenticator of authentication.cpp: where PAM asks  *)
(* for the password only, a login fails after asking, and on wrong data.   *)
THEOREM FailureEarned == Spec => []FailureIsEarned
  <1>1. Init => LoginInv /\ SuccessIsEarned
    BY LoginInit
  <1>2. Init => FailInv
    BY DEF Init, NewAuthenticator, FailInv, HasPassFits, RefusalIsEarned,
           FailureIsEarned
  <1>3. LoginInv /\ SuccessIsEarned /\ [Next]_vars => LoginInv' /\ SuccessIsEarned'
    BY LoginStep
  <1>4. LoginInv /\ FailInv /\ [Next]_vars => FailInv'
    BY FailureStep
  <1>5. FailInv => FailureIsEarned
    BY DEF FailInv
  <1>. QED
    BY <1>1, <1>2, <1>3, <1>4, <1>5, PTL DEF Spec
===============================================================================
