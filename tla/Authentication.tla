---------------------------- MODULE Authentication ----------------------------
(***************************************************************************)
(* Logins with an authenticator of the AuthenticatorFactory                *)
(* (src/src/authentication.cpp): the text file's                           *)
(* (src/src/authentication_textfile.cpp) or PAM's                          *)
(* (src/src/authentication_pam.cpp).  The factory keeps one authenticator  *)
(* per mechanism, so its state outlives a login.                           *)
(*                                                                         *)
(* The caller is the loop of tests/testAuth.cpp, entered once per login.   *)
(* What is thrown ends it, as does the absence of the mechanism.  PAM      *)
(* itself is external: it asks what its stack says and takes the password  *)
(* of the account for an answer.                                           *)
(***************************************************************************)
EXTENDS Naturals, Sequences, FiniteSets

CONSTANTS
    User, Password,
    Empty,          \* the empty password
    Nothing,        \* no text at all
    Creds,          \* the text file: what some users' password is
    Account,        \* PAM: what every user's password is
    Permitted,      \* PAM: users whose accounts pam_acct_mgmt() permits
    Stacks,         \* PAM: messages of its one conversation, <<>> for pam_rootok
    Linked,         \* optional mechanisms the program was built with
    MaxLogins       \* bound: logins on one authenticator

Style == {"ECHO_OFF", "ECHO_ON", "TEXT_INFO", "UNKNOWN"}

Optional == {"WINAD", "WINKERB", "LDAP", "PAM", "SASL", "GSSAPI"}

ASSUME AuthenticationAssumption ==
    /\ Empty \in Password /\ Nothing \notin Password /\ Nothing \notin User
    /\ DOMAIN Creds \subseteq User
    /\ \A u \in DOMAIN Creds : Creds[u] \in Password
    /\ Account \in [User -> Password]
    /\ Stacks \subseteq Seq(Style)
    /\ Linked \subseteq Optional
    /\ MaxLogins \in Nat

VARIABLES
    mech,           \* the mechanism asked for
    stack,          \* how PAM is configured for the service
    auth,           \* the authenticator
    at,             \* where the caller is
    step,           \* the last step of the authenticator
    typed,          \* what was typed in this login
    logins,         \* logins begun
    succeeded       \* one that is over was successful

vars == <<mech, stack, auth, at, step, typed, logins, succeeded>>

(* getAvailableMechs() lists what was built, the factory makes two. *)
AvailableMechs == {"TEXT_FILE"} \cup Linked

Authenticators == {"TEXT_FILE"} \cup (Linked \cap {"PAM"})

NewAuthenticator ==
    [state |-> "NEED_LOGIN", token |-> "none", login |-> Nothing,
     pass |-> Empty, has_pass |-> FALSE, handle |-> "NULL"]

NothingTyped == [login |-> Nothing, pass |-> Nothing]

Init ==
    /\ mech \in {"TEXT_FILE"} \cup Optional
    /\ stack \in Stacks
    /\ auth = NewAuthenticator
    /\ at = "choose" /\ step = "none"
    /\ typed = NothingTyped
    /\ logins = 0 /\ succeeded = FALSE

(* An authenticator that is missing is the NULL nextStep() is called on. *)
Choose ==
    /\ at = "choose"
    /\ IF mech \in AvailableMechs /\ mech \in Authenticators
       THEN at' = "next" /\ logins' = 1
       ELSE at' = "gone" /\ UNCHANGED logins
    /\ UNCHANGED <<mech, stack, auth, step, typed, succeeded>>

(* nextStep() returns s, leaving the authenticator as a. *)
Returns(s, a) ==
    /\ auth' = a /\ step' = s
    /\ at' = CASE s = "RECV_DATA" -> "receive"
               [] s = "SEND_DATA" -> "send"
               [] OTHER -> "done"
    /\ UNCHANGED <<mech, stack, typed, logins, succeeded>>

(* It throws. *)
Throws ==
    /\ at' = "gone"
    /\ UNCHANGED <<mech, stack, auth, step, typed, logins, succeeded>>

InState(state) == at = "next" /\ auth.state = state

AskLogin ==
    /\ InState("NEED_LOGIN")
    /\ Returns("RECV_DATA", [auth EXCEPT !.token = "login"])

-------------------------------------------------------------------------------
(* TextFileAuthenticator                                                   *)
AskPassword ==
    /\ InState("NEED_PASS")
    /\ Returns("RECV_DATA", [auth EXCEPT !.token = "password"])

Compute ==
    /\ InState("COMPUTE")
    /\ LET known == auth.login \in DOMAIN Creds /\ Creds[auth.login] = auth.pass
       IN Returns(IF known THEN "SUCCESS" ELSE "FAIL",
                  [auth EXCEPT !.state = "NEED_LOGIN"])

-------------------------------------------------------------------------------
(* PAMAuthenticator                                                        *)

(* pam_conv_func() stops at the first message that it cannot answer; a     *)
(* prompt with echo is compared with a NULL.                               *)
Unanswerable(a, message) ==
    \/ message \in {"ECHO_ON", "UNKNOWN"}
    \/ message = "ECHO_OFF" /\ ~a.has_pass

Stops(a) == {i \in DOMAIN stack : Unanswerable(a, stack[i])}

StopsAt(a) == CHOOSE i \in Stops(a) : \A j \in Stops(a) : i <= j

(* r++ is never reached: every message writes the first response.          *)
Response(a, i) ==
    IF i = 1 /\ stack[Len(stack)] = "ECHO_OFF" THEN a.pass ELSE Nothing

(* What pam_authenticate() returns, asking for a, or "crash". *)
PamAuthenticate(a) ==
    IF Stops(a) # {}
    THEN CASE stack[StopsAt(a)] = "ECHO_OFF" -> "INCOMPLETE"
           [] stack[StopsAt(a)] = "ECHO_ON"  -> "crash"
           [] OTHER -> "CONV_ERR"
    ELSE IF \A i \in DOMAIN stack :
               stack[i] = "ECHO_OFF" => Response(a, i) = Account[a.login]
         THEN "SUCCESS" ELSE "AUTH_ERR"

(* A refusal: its message is sent before the login fails.                  *)
Refuses(a) ==
    Returns("SEND_DATA", [a EXCEPT !.token = "message", !.state = "ERROR"])

(* Bug: the password stays. *)
SucceedsKeeping(a) ==
    Returns("SUCCESS", [a EXCEPT !.state = "NEED_LOGIN", !.handle = "NULL"])

(* has_pass stays. *)
Succeeds(a) ==
    Returns("SUCCESS", [a EXCEPT !.state = "NEED_LOGIN", !.handle = "NULL",
                                 !.pass = Empty])

(* The HAS_PASS case, into which HAS_LOGIN falls through.  pam_end() may   *)
(* fail, and then something is thrown.                                     *)
Authenticate(a) ==
    LET rc == PamAuthenticate(a) IN
    CASE rc = "crash" -> Throws
      [] rc = "INCOMPLETE" /\ a.state = "HAS_LOGIN" ->
            Returns("RECV_DATA",
                    [a EXCEPT !.token = "password", !.state = "NEED_PASS"])
      [] rc = "SUCCESS" /\ a.login \in Permitted -> (Succeeds(a) \/ Throws)
      [] OTHER -> Refuses(a)

(* pam_start() may fail, and then something is thrown. *)
HasLogin ==
    /\ InState("HAS_LOGIN")
    /\ \/ Authenticate([auth EXCEPT !.handle = "started"])
       \/ Throws

HasPass == InState("HAS_PASS") /\ Authenticate(auth)

(* Bug: has_pass is not reset. *)
ErrorKeepingPass ==
    /\ InState("ERROR")
    /\ Returns("FAIL", [auth EXCEPT !.state = "NEED_LOGIN", !.handle = "NULL",
                                    !.pass = Empty])

(* The handle is forgotten before pam_end() could end it. *)
Error ==
    /\ InState("ERROR")
    /\ Returns("FAIL", [auth EXCEPT !.state = "NEED_LOGIN", !.handle = "NULL",
                                    !.has_pass = FALSE, !.pass = Empty])

-------------------------------------------------------------------------------
(* The caller prints the message that sendData() returns. *)
SendData ==
    /\ at = "send"
    /\ at' = "next"
    /\ UNCHANGED <<mech, stack, auth, step, typed, logins, succeeded>>

ReceiveLogin(login) ==
    /\ at = "receive" /\ auth.token = "login"
    /\ at' = "next"
    /\ typed' = [typed EXCEPT !.login = login]
    /\ auth' = [auth EXCEPT !.login = login,
                    !.state = IF mech = "PAM" THEN "HAS_LOGIN" ELSE "NEED_PASS"]
    /\ UNCHANGED <<mech, stack, step, logins, succeeded>>

(* has_pass is PAM's. *)
ReceivePassword(pass) ==
    /\ at = "receive" /\ auth.token = "password"
    /\ at' = "next"
    /\ typed' = [typed EXCEPT !.pass = pass]
    /\ auth' = [auth EXCEPT !.pass = pass, !.has_pass = (mech = "PAM"),
                    !.state = IF mech = "PAM" THEN "HAS_PASS" ELSE "COMPUTE"]
    /\ UNCHANGED <<mech, stack, step, logins, succeeded>>

(* The next caller gets the same authenticator. *)
LoginAgain ==
    /\ at = "done" /\ logins < MaxLogins
    /\ at' = "next" /\ step' = "none"
    /\ typed' = NothingTyped
    /\ logins' = logins + 1
    /\ succeeded' = (succeeded \/ step = "SUCCESS")
    /\ UNCHANGED <<mech, stack, auth>>

Next ==
    \/ Choose
    \/ AskLogin \/ AskPassword \/ Compute
    \/ HasLogin \/ HasPass \/ Error
    \/ SendData
    \/ \E u \in User : ReceiveLogin(u)
    \/ \E p \in Password : ReceivePassword(p)
    \/ LoginAgain

Spec == Init /\ [][Next]_vars

-------------------------------------------------------------------------------
(* Every variable has its type. *)
TypeOK ==
    /\ mech \in {"TEXT_FILE"} \cup Optional
    /\ stack \in Stacks
    /\ auth \in [state : {"NEED_LOGIN", "NEED_PASS", "COMPUTE", "HAS_LOGIN",
                          "HAS_PASS", "ERROR"},
                 token : {"none", "login", "password", "message"},
                 login : User \cup {Nothing}, pass : Password,
                 has_pass : BOOLEAN, handle : {"NULL", "started"}]
    /\ at \in {"choose", "next", "send", "receive", "done", "gone"}
    /\ step \in {"none", "RECV_DATA", "SEND_DATA", "SUCCESS", "FAIL"}
    /\ typed \in [login : User \cup {Nothing}, pass : Password \cup {Nothing}]
    /\ logins \in Nat /\ succeeded \in BOOLEAN

(* The login data that earn a success. *)
Right ==
    IF mech = "PAM"
    THEN /\ typed.login \in Permitted
         /\ \A i \in DOMAIN stack :
               stack[i] = "ECHO_OFF" => typed.pass = Account[typed.login]
    ELSE typed.login \in DOMAIN Creds /\ typed.pass = Creds[typed.login]

(* An account without a password is open to everybody. *)
OpenAccount ==
    mech = "PAM" /\ typed.login \in Permitted /\ Account[typed.login] = Empty

(* Nobody gets in on what was typed in an earlier login: a success is      *)
(* earned by what was typed in this one, or the account has no password.   *)
SuccessIsEarned == at = "done" /\ step = "SUCCESS" => Right \/ OpenAccount

(* Nobody is kept out by an earlier login that failed: where the prompt    *)
(* for the password is all that PAM says, a login fails only after asking  *)
(* for the password, and on wrong data.  (After an earlier success it may: *)
(* has_pass is left behind, and the next login is not asked.)              *)
FailureIsEarned ==
    at = "done" /\ step = "FAIL" /\ ~succeeded
        /\ (mech = "PAM" => stack \in {<<>>, <<"ECHO_OFF">>})
    => /\ ~Right
       /\ typed.pass # Nothing \/ (mech = "PAM" /\ stack = <<>>)
===============================================================================
