------------------------------ MODULE Accounts ------------------------------
(***************************************************************************)
(* One account: registration, invitation, one-time codes, login with a     *)
(* second factor, password, deactivation and erasure (apps/accounts).      *)
(*                                                                         *)
(* The API serves requests concurrently and, but for registration, outside *)
(* a transaction: a request loads the account, works through its           *)
(* statements and saves the columns it names in update_fields, others in   *)
(* between.  Activation codes, password reset codes and MFA login sessions *)
(* are issued alike, so the model keeps them alike: live[p] is the list of *)
(* rows of purpose p that are not consumed, oldest first.  Consumed rows   *)
(* are never read again and are forgotten.  Requests name the account by   *)
(* the address it was opened with, which erasure replaces; an invitation   *)
(* can be accepted under either address.                                   *)
(***************************************************************************)
EXTENDS Naturals, Sequences, FiniteSets, SequencesExt

CONSTANTS Clients,      \* concurrent requests
          Codes,        \* identities of codes and sessions, numbers
          Secrets,      \* TOTP secrets
          MaxAttempts,  \* settings.OTP_MAX_ATTEMPTS
          None,
          MaxEvents     \* bound: requests and faults beyond the holder's own

ASSUME CodesAssumption == Codes \subseteq Nat /\ None \notin Secrets \cup Codes
ASSUME BoundsAssumption ==
    MaxAttempts \in Nat /\ MaxEvents \in Nat /\ IsFiniteSet(Clients)

VARIABLES
    user,     \* None, or [active, verified, erased, pwd, mfa, secret]
    member,   \* [{"own", "other"} -> {"none", "invited", "accepted"}]
    live,     \* [Purposes -> sequence of [code, attempts, expired]]
    inbox,    \* [Purposes -> the code that arrived last, or None]
    token,    \* the holder has been given a JWT
    req,      \* [Clients -> request in flight or None]
    events

vars == <<user, member, live, inbox, token, req, events>>

Purposes == {"activation", "password_reset", "mfa_login"}
\* Of an invitee's account, chosen by the holder, drawn for a provisioned
\* account and known to nobody, and left by erasure.
Passwords == {"blank", "set", "random", "unusable"}

Users == [active : BOOLEAN, verified : BOOLEAN, erased : BOOLEAN, pwd : Passwords,
          mfa : BOOLEAN, secret : Secrets \cup {None}]
Rows == [code : Codes, attempts : 0 .. MaxAttempts, expired : BOOLEAN]

\* A code is sent with the address; None stands for a code that is wrong.  The
\* request keeps whether the account was verified when it was loaded.
NoRow == [code |-> None, attempts |-> 0, expired |-> FALSE]

\* What a request keeps between its statements.
Issuing == [op : {"issue"}, pc : {"consume", "insert"}, purpose : Purposes]
Entering == [op : {"enter"}, pc : {"read", "compare", "save"},
             purpose : {"activation", "password_reset"}, code : Codes \cup {None},
             row : Rows \cup {NoRow}, verified : BOOLEAN]
Accepting == [op : {"accept"}, pwd : Passwords, pc : {"password", "member"}]
LoggingIn == [op : {"mfa"}, pc : {"consume"}, secret : Secrets \cup {None}, code : Codes]
HolderOps == {"mfa_setup", "mfa_confirm", "mfa_disable", "change_password", "erase"}
Saving == [op : HolderOps, pc : {"save"}, secret : Secrets \cup {None}]
InFlight == Issuing \cup Entering \cup Accepting \cup LoggingIn \cup Saving

ASSUME NoneAssumption == None \notin Users \cup InFlight

TypeOK ==
    /\ user \in Users \cup {None}
    /\ member \in [{"own", "other"} -> {"none", "invited", "accepted"}]
    /\ live \in [Purposes -> Seq(Rows)]
    /\ inbox \in [Purposes -> Codes \cup {None}]
    /\ token \in BOOLEAN /\ events \in 0 .. MaxEvents
    /\ req \in [Clients -> InFlight \cup {None}]

Account(active, verified, pwd) ==
    [active |-> active, verified |-> verified, erased |-> FALSE, pwd |-> pwd,
     mfa |-> FALSE, secret |-> None]

\* There is no account yet, or SCIM has provisioned one.
Init ==
    /\ user \in {None, Account(TRUE, TRUE, "random")}
    /\ member = [m \in {"own", "other"} |->
                   IF m = "own" /\ user # None THEN "accepted" ELSE "none"]
    /\ live = [p \in Purposes |-> <<>>]
    /\ inbox = [p \in Purposes |-> None]
    /\ token = FALSE
    /\ req = [c \in Clients |-> None]
    /\ events = 0

\* User.objects.filter(email=email)
Found == user # None /\ ~user.erased

Event == events < MaxEvents /\ events' = events + 1

Request(c, r) == req[c] = None /\ req' = [req EXCEPT ![c] = r]
At(c, op, pc) == req[c] # None /\ req[c].op = op /\ req[c].pc = pc
Goto(c, pc) == req' = [req EXCEPT ![c].pc = pc]
Answer(c) == req' = [req EXCEPT ![c] = None]

\* What the holder sends with one request at a time is free; overlapping
\* requests and other people's are bounded.
Patient == (\A c \in Clients : req[c] = None) /\ UNCHANGED events

----------------------------------------------------------------------------
(* Codes and sessions                                                      *)

Issue(c, p) == Request(c, [op |-> "issue", pc |-> "consume", purpose |-> p])

\* Faulty: codes in force stay in force.
InvalidateNone(p) == live

\* UPDATE ... SET consumed_at of the rows not consumed
Invalidate(p) == [live EXCEPT ![p] = <<>>]

ConsumeLive(c) ==
    /\ At(c, "issue", "consume")
    /\ live' = Invalidate(req[c].purpose)
    /\ Goto(c, "insert")
    /\ UNCHANGED <<user, member, inbox, token, events>>

\* Codes nothing refers to: another code never has the same digits.
Fresh ==
    Codes \ (UNION {{live[p][i].code : i \in DOMAIN live[p]} : p \in Purposes}
             \cup {inbox[p] : p \in Purposes}
             \cup {req[c].row.code : c \in {d \in Clients : req[d] # None /\ req[d].op = "enter"}}
             \cup {req[c].code : c \in {d \in Clients : req[d] # None /\ req[d].op = "enter"}})

\* The code is mailed, which may fail; a session is part of the answer.
SendCode(p, k) ==
    \/ inbox' = [inbox EXCEPT ![p] = k] /\ UNCHANGED events
    \/ p # "mfa_login" /\ Event /\ UNCHANGED inbox

InsertCode(c) ==
    /\ At(c, "issue", "insert") /\ Fresh # {}
    /\ LET p == req[c].purpose
           k == CHOOSE k \in Fresh : \A j \in Fresh : k <= j
       IN /\ live' = [live EXCEPT ![p] = Append(@, [code |-> k, attempts |-> 0,
                                                    expired |-> FALSE])]
          /\ SendCode(p, k)
    /\ Answer(c)
    /\ UNCHANGED <<user, member, token>>

\* Faulty: a code is sent to active accounts only, as for a password reset.
AwaitsActivationIfActive == Found /\ ~user.verified /\ user.active

AwaitsActivation == Found /\ ~user.verified

ResendActivation(c) ==
    /\ AwaitsActivation
    /\ Issue(c, "activation")
    /\ Patient \/ Event
    /\ UNCHANGED <<user, member, live, inbox, token>>

PasswordResetRequest(c) ==
    /\ Found /\ user.active
    /\ Issue(c, "password_reset") /\ Event
    /\ UNCHANGED <<user, member, live, inbox, token>>

EnterCode(c, p, k) ==
    Request(c, [op |-> "enter", pc |-> "read", purpose |-> p, code |-> k, row |-> NoRow,
                verified |-> user.verified])

\* Faulty: an activated account can be activated again.
ActivationLoads == Found

NeedsActivation == Found /\ ~user.verified

ActivateAccount(c, k) ==
    /\ NeedsActivation
    /\ EnterCode(c, "activation", k)
    /\ (k # None /\ Patient) \/ Event
    /\ UNCHANGED <<user, member, live, inbox, token>>

PasswordResetConfirm(c, k) ==
    /\ Found
    /\ EnterCode(c, "password_reset", k) /\ Event
    /\ UNCHANGED <<user, member, live, inbox, token>>

\* verify: the newest row not consumed decides; none, an expired or a locked one
\* ends the request.
ReadChallenge(c) ==
    /\ At(c, "enter", "read")
    /\ LET rows == live[req[c].purpose]
       IN IF rows # <<>> /\ ~Last(rows).expired /\ Last(rows).attempts < MaxAttempts
          THEN req' = [req EXCEPT ![c].pc = "compare", ![c].row = Last(rows)]
          ELSE Answer(c)
    /\ UNCHANGED <<user, member, live, inbox, token, events>>

\* A wrong code writes the count it has read plus one.
CompareWrong(c) ==
    /\ At(c, "enter", "compare") /\ req[c].code # req[c].row.code
    /\ LET p == req[c].purpose
       IN live' = [live EXCEPT ![p] = [i \in DOMAIN @ |->
                     IF @[i].code = req[c].row.code
                     THEN [@[i] EXCEPT !.attempts = req[c].row.attempts + 1] ELSE @[i]]]
    /\ Answer(c)
    /\ UNCHANGED <<user, member, inbox, token, events>>

\* The row is saved consumed, unless it has been already.
Consumed(p, k) ==
    LET rows == {i \in DOMAIN live[p] : live[p][i].code = k}
    IN IF rows = {} THEN live
       ELSE [live EXCEPT ![p] = RemoveAt(@, CHOOSE i \in rows : TRUE)]

CompareRight(c) ==
    /\ At(c, "enter", "compare") /\ req[c].code = req[c].row.code
    /\ live' = Consumed(req[c].purpose, req[c].code)
    /\ Goto(c, "save")
    /\ UNCHANGED <<user, member, inbox, token, events>>

ActivateSave(c) ==
    /\ At(c, "enter", "save") /\ req[c].purpose = "activation"
    /\ user' = [user EXCEPT !.active = TRUE, !.verified = TRUE]
    /\ token' = TRUE
    /\ Answer(c)
    /\ UNCHANGED <<member, live, inbox, events>>

ResetSave(c) ==
    /\ At(c, "enter", "save") /\ req[c].purpose = "password_reset"
    /\ user' = [user EXCEPT !.pwd = "set"]
    /\ Answer(c)
    /\ UNCHANGED <<member, live, inbox, token, events>>

----------------------------------------------------------------------------
(* Opening an account and logging in                                       *)

\* One transaction: user, tenant, ownership and first project.
CreateAccount ==
    /\ user = None
    /\ user' = Account(FALSE, FALSE, "set")
    /\ member' = [member EXCEPT !["own"] = "accepted"]

\* The activation code follows.
Register(c) ==
    /\ CreateAccount
    /\ Issue(c, "activation")
    /\ UNCHANGED <<live, inbox, token, events>>

\* The account of a new invitee is active and has an empty password.  An
\* account that is a member, or has been invited, is refused.
Invite(c) ==
    /\ req[c] = None /\ Event
    /\ user' = IF user = None THEN Account(TRUE, FALSE, "blank") ELSE user
    /\ Found \/ user = None
    /\ member["other"] = "none"
    /\ member' = [member EXCEPT !["other"] = "invited"]
    /\ UNCHANGED <<live, inbox, token, req>>

\* has_usable_password is true of an empty password: only the unusable one that
\* erasure has left must be replaced to accept.
AcceptInvite(c, password) ==
    /\ user # None /\ member["other"] = "invited" /\ Event
    /\ user.pwd = "unusable" => password
    /\ Request(c, [op |-> "accept", pwd |-> user.pwd,
                   pc |-> IF user.pwd = "unusable" THEN "password" ELSE "member"])
    /\ UNCHANGED <<user, member, live, inbox, token>>

AcceptSavePassword(c) ==
    /\ At(c, "accept", "password")
    /\ user' = [user EXCEPT !.pwd = "set", !.active = TRUE, !.verified = TRUE]
    /\ Goto(c, "member")
    /\ UNCHANGED <<member, live, inbox, token, events>>

AcceptSaveMember(c) ==
    /\ At(c, "accept", "member")
    /\ member' = [member EXCEPT !["other"] = "accepted"]
    /\ token' = TRUE
    /\ Answer(c)
    /\ UNCHANGED <<user, live, inbox, events>>

Credentials == Found /\ user.verified /\ user.pwd = "set" /\ user.active

\* With MFA a login opens a session, without it gives the tokens.  Where single
\* sign-on is enforced nothing happens.
Login(c) ==
    /\ Credentials /\ Event
    /\ IF user.mfa
       THEN Issue(c, "mfa_login") /\ UNCHANGED token
       ELSE req[c] = None /\ token' = TRUE /\ UNCHANGED req
    /\ UNCHANGED <<user, member, live, inbox>>

\* The session is looked up by its token, with the account, and consumed before
\* the code is checked against the secret loaded.
MfaVerifyLogin(c) ==
    /\ Event
    /\ \E i \in DOMAIN live["mfa_login"] :
         /\ ~live["mfa_login"][i].expired
         /\ Request(c, [op |-> "mfa", pc |-> "consume", secret |-> user.secret,
                        code |-> live["mfa_login"][i].code])
    /\ UNCHANGED <<user, member, live, inbox, token>>

MfaConsume(c, right) ==
    /\ At(c, "mfa", "consume")
    /\ live' = Consumed("mfa_login", req[c].code)
    /\ token' = (token \/ (right /\ req[c].secret # None))
    /\ Answer(c)
    /\ UNCHANGED <<user, member, inbox, events>>

----------------------------------------------------------------------------
(* Requests of the authenticated holder: load, then save                   *)

Authenticates == token /\ user.active /\ user.verified /\ ~user.erased

\* The secret loaded with the account is what a code is checked against; what
\* needs the password is only begun with it.
Authenticated(c, op) ==
    /\ Authenticates /\ Event
    /\ op \in {"mfa_confirm", "mfa_disable"} => user.secret # None
    /\ op \in {"mfa_disable", "change_password", "erase"} => user.pwd = "set"
    /\ Request(c, [op |-> op, pc |-> "save", secret |-> user.secret])
    /\ UNCHANGED <<user, member, live, inbox, token>>

Save(c, op, columns) ==
    /\ At(c, op, "save")
    /\ user' = columns
    /\ Answer(c)
    /\ UNCHANGED <<member, live, inbox, token, events>>

MfaSetup(c) ==
    \E s \in Secrets : Save(c, "mfa_setup", [user EXCEPT !.secret = s, !.mfa = FALSE])

MfaConfirm(c) == Save(c, "mfa_confirm", [user EXCEPT !.mfa = TRUE])

\* Faulty: only the secret is saved.
DisabledSecretOnly == [user EXCEPT !.secret = None]

Disabled == [user EXCEPT !.secret = None, !.mfa = FALSE]

MfaDisable(c) == Save(c, "mfa_disable", Disabled)

ChangePassword(c) == Save(c, "change_password", [user EXCEPT !.pwd = "set"])

EraseMyAccount(c) ==
    Save(c, "erase", [active |-> FALSE, verified |-> user.verified, erased |-> TRUE,
                      pwd |-> "unusable", mfa |-> FALSE, secret |-> None])

\* An administrator of a tenant the account is a member of.
Deactivate ==
    /\ user # None /\ user.active /\ Event
    /\ \E m \in DOMAIN member : member[m] = "accepted"
    /\ user' = [user EXCEPT !.active = FALSE]
    /\ UNCHANGED <<member, live, inbox, token, req>>

----------------------------------------------------------------------------
(* Time, faults and the specification                                      *)

Expire ==
    /\ Event
    /\ \E p \in Purposes : \E i \in DOMAIN live[p] :
         /\ ~live[p][i].expired
         /\ live' = [live EXCEPT ![p][i].expired = TRUE]
    /\ UNCHANGED <<user, member, inbox, token, req>>

Crash(c) ==
    /\ req[c] # None /\ Event
    /\ Answer(c)
    /\ UNCHANGED <<user, member, live, inbox, token>>

\* A request in flight goes on.
Continue(c) ==
    \/ ConsumeLive(c) \/ InsertCode(c)
    \/ ReadChallenge(c) \/ CompareWrong(c) \/ CompareRight(c)
    \/ ActivateSave(c) \/ ResetSave(c)
    \/ AcceptSavePassword(c) \/ AcceptSaveMember(c)
    \/ \E right \in BOOLEAN : MfaConsume(c, right)
    \/ MfaSetup(c) \/ MfaConfirm(c) \/ MfaDisable(c) \/ ChangePassword(c)
    \/ EraseMyAccount(c)

HolderActivates == \E c \in Clients : Patient /\ ActivateAccount(c, inbox["activation"])

Begin(c) ==
    \/ Register(c) \/ Invite(c) \/ ResendActivation(c) \/ PasswordResetRequest(c)
    \/ \E k \in {inbox["activation"], None} : ActivateAccount(c, k)
    \/ \E k \in {inbox["password_reset"], None} : PasswordResetConfirm(c, k)
    \/ \E password \in BOOLEAN : AcceptInvite(c, password)
    \/ Login(c) \/ MfaVerifyLogin(c)
    \/ \E op \in HolderOps : Authenticated(c, op)

Next ==
    \/ \E c \in Clients : Begin(c) \/ Continue(c) \/ Crash(c)
    \/ Deactivate
    \/ Expire

Spec == Init /\ [][Next]_vars

\* Requests are worked through; the holder of an account that is not activated
\* keeps asking for a code and enters the one that arrived last.
Fairness ==
    /\ \A c \in Clients : WF_vars(Continue(c))
    /\ SF_vars(\E c \in Clients : Patient /\ ResendActivation(c))
    /\ SF_vars(HolderActivates)

FairSpec == Spec /\ Fairness

----------------------------------------------------------------------------
(* Properties                                                              *)

\* However requests for codes overlap between their UPDATE and their INSERT
\* (create_challenge, create_login_session), there are never more codes of a
\* purpose in force than requests can overlap; one request at a time leaves one.
CodesInForce ==
    \A p \in Purposes : Len(live[p]) <= Cardinality(Clients)

\* A deactivated account that had been activated stays so, but for a request
\* overlapping its activation (ActivateAccountView saves is_active on what it
\* loaded) and for an invitation that outlives the account's erasure
\* (AcceptInviteView takes the unusable password for a new invitee's).
DeactivationHolds ==
    [][(user # None /\ user.verified /\ ~user.active) =>
          \/ ~user'.active
          \/ \E c \in Clients :
                /\ req[c] # None
                /\ \/ req[c].op = "enter" /\ ~req[c].verified
                   \/ req[c].op = "accept" /\ req[c].pwd = "unusable"]_vars

\* MFA is never switched on without a secret, which would shut the holder out
\* of every login, but for a confirmation that overlaps a disabling or erasure
\* (MfaConfirmView saves mfa_enabled alone).
MfaKeepsSecret ==
    [][(user # None /\ user'.mfa /\ user'.secret = None) =>
          \/ user.mfa /\ user.secret = None
          \/ \E c \in Clients : /\ req[c] # None /\ req[c].op = "mfa_confirm"
                                /\ req[c].secret # user.secret]_vars

\* An account is activated in the end, whatever codes were guessed wrong,
\* expired, were lost in the mail or replaced by other requests: a locked or
\* spent code can always be replaced (resend-activation).
IsActivated == (user # None) ~> (user # None /\ user.verified)

=============================================================================
