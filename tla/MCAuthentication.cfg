\* Three logins in a row on each mechanism and each PAM stack.
CONSTANTS
    User = {"ann", "bob", "eve"}
    Password = {"xx", "yy", "empty"}
    Empty = "empty"
    Nothing = "nothing"
    Creds <- MCCreds
    Account <- MCAccount
    Permitted <- MCPermitted
    Stacks <- MCStacks
    Linked = {"PAM", "LDAP"}
    MaxLogins = 3
SPECIFICATION Spec
INVARIANTS
    SuccessIsEarned
    FailureIsEarned
CHECK_DEADLOCK FALSE
