---------------------------- MODULE IdentityProofs ----------------------------
(***************************************************************************)
(* Proofs about who may sign in and who is in which team.  First Accounts,  *)
(* for any clients, codes, secrets and bounds: one account and the requests *)
(* that overlap on it.  Then Provisioning, for any connectors, accounts,    *)
(* teams, configurations and bounds: the accounts and teams of a project as *)
(* SCIM maintains them.  The two share no state: Provisioning names its own *)
(* specification ScimSpec and its absent value Null.                        *)
(***************************************************************************)
EXTENDS Accounts, Provisioning, FiniteSetTheorems, SequenceTheorems, WellFoundedInduction, TLAPS

(* Codes of purpose p between their UPDATE and their INSERT. *)
Inserting(p) == {c \in Clients : At(c, "issue", "insert") /\ req[c].purpose = p}

CodesInv ==
    \A p \in Purposes : Len(live[p]) + Cardinality(Inserting(p)) <= Cardinality(Clients)

(* Requests, codes and tokens belong to an account. *)
OwnedInv ==
    /\ (token \/ \E c \in Clients : req[c] # None) => user # None
    /\ \A p \in Purposes : live[p] # <<>> => user # None

(* What a request has found out holds of what it carries. *)
Sound(r) ==
    /\ r.op = "enter" /\ r.pc = "compare" => r.row.attempts < MaxAttempts
    /\ r.op = "enter" /\ r.purpose = "activation" => ~r.verified
    /\ r.op = "accept" /\ r.pc = "password" => r.pwd = "unusable"
    /\ r.op \in {"mfa_confirm", "mfa_disable"} => r.secret # None

RequestInv ==
    \A c \in Clients : req[c] # None => Sound(req[c])

-----------------------------------------------------------------------------
(* Records *)

LEMMA NoneIsNone ==
    None \notin Users /\ None \notin InFlight /\ None \notin Secrets /\ None \notin Codes
BY NoneAssumption, CodesAssumption

(* Whoever the account is saved by, the columns it does not name keep what was *)
(* loaded afresh.                                                              *)
LEMMA UserFields ==
    ASSUME NEW u \in Users
    PROVE  /\ u.active \in BOOLEAN /\ u.verified \in BOOLEAN /\ u.erased \in BOOLEAN
           /\ u.pwd \in Passwords /\ u.mfa \in BOOLEAN /\ u.secret \in Secrets \cup {None}
BY DEF Users

LEMMA Activated ==
    ASSUME NEW u \in Users
    PROVE  LET v == [u EXCEPT !.active = TRUE, !.verified = TRUE]
           IN  v \in Users /\ v.mfa = u.mfa /\ v.secret = u.secret
BY DEF Users

LEMMA WithPassword ==
    ASSUME NEW u \in Users
    PROVE  LET v == [u EXCEPT !.pwd = "set"]
           IN  v \in Users /\ v.active = u.active /\ v.mfa = u.mfa /\ v.secret = u.secret
BY DEF Users, Passwords

LEMMA Accepted ==
    ASSUME NEW u \in Users
    PROVE  LET v == [u EXCEPT !.pwd = "set", !.active = TRUE, !.verified = TRUE]
           IN  v \in Users /\ v.mfa = u.mfa /\ v.secret = u.secret
BY DEF Users, Passwords

LEMMA WithSecret ==
    ASSUME NEW u \in Users, NEW s \in Secrets
    PROVE  LET v == [u EXCEPT !.secret = s, !.mfa = FALSE]
           IN  v \in Users /\ v.active = u.active /\ v.mfa = FALSE
BY DEF Users

LEMMA Confirmed ==
    ASSUME NEW u \in Users
    PROVE  LET v == [u EXCEPT !.mfa = TRUE]
           IN  v \in Users /\ v.active = u.active /\ v.secret = u.secret
BY DEF Users

LEMMA WithoutMfa ==
    ASSUME user \in Users
    PROVE  Disabled \in Users /\ Disabled.active = user.active /\ Disabled.mfa = FALSE
BY DEF Users, Disabled

LEMMA Deactivated ==
    ASSUME NEW u \in Users
    PROVE  LET v == [u EXCEPT !.active = FALSE]
           IN  v \in Users /\ v.active = FALSE /\ v.mfa = u.mfa /\ v.secret = u.secret
BY DEF Users

(* A request is what its operation makes it. *)
LEMMA RequestKinds ==
    ASSUME NEW r \in InFlight
    PROVE  /\ r.op = "issue" => r \in Issuing
           /\ r.op = "enter" => r \in Entering
           /\ r.op = "accept" => r \in Accepting
           /\ r.op = "mfa" => r \in LoggingIn
           /\ r.op \in HolderOps => r \in Saving
BY DEF InFlight, Issuing, Entering, Accepting, LoggingIn, Saving, HolderOps

LEMMA RowFields ==
    ASSUME NEW r \in Rows
    PROVE  r.code \in Codes /\ r.attempts \in 0 .. MaxAttempts /\ r.expired \in BOOLEAN
BY DEF Rows

LEMMA EnteringFields ==
    ASSUME NEW r \in Entering
    PROVE  /\ r.op = "enter" /\ r.pc \in {"read", "compare", "save"}
           /\ r.purpose \in {"activation", "password_reset"}
           /\ r.code \in Codes \cup {None} /\ r.row \in Rows \cup {NoRow}
           /\ r.verified \in BOOLEAN
BY DEF Entering

-----------------------------------------------------------------------------
(* Lists of rows *)

LEMMA SeqOfFunction ==
    ASSUME NEW S, NEW n \in Nat, NEW f \in [1 .. n -> S]
    PROVE  f \in Seq(S) /\ Len(f) = n
<1>1. f \in Seq(S)
  BY SeqDef
<1>2. DOMAIN f = 1 .. n /\ DOMAIN f = 1 .. Len(f) /\ Len(f) \in Nat
  BY <1>1, LenProperties
<1> QED  BY <1>1, <1>2

LEMMA RemoveAtShortens ==
    ASSUME NEW S, NEW s \in Seq(S), NEW i \in 1 .. Len(s)
    PROVE  RemoveAt(s, i) \in Seq(S) /\ Len(RemoveAt(s, i)) = Len(s) - 1
<1> DEFINE a == SubSeq(s, 1, i - 1)
           b == SubSeq(s, i + 1, Len(s))
<1>1. Len(s) \in Nat /\ \A j \in 1 .. Len(s) : s[j] \in S
  BY LenProperties, ElementOfSeq
<1>2. a \in Seq(S) /\ Len(a) = i - 1
  <2>1. Len(a) = IF 1 <= i - 1 THEN i - 1 - 1 + 1 ELSE 0
    BY <1>1, SubSeqProperties
  <2>2. a \in Seq(S)
    BY <1>1, SubSeqProperties
  <2> QED  BY <2>1, <2>2
<1>3. b \in Seq(S) /\ Len(b) = Len(s) - i
  <2>1. Len(b) = IF i + 1 <= Len(s) THEN Len(s) - (i + 1) + 1 ELSE 0
    BY <1>1, SubSeqProperties
  <2>2. b \in Seq(S)
    BY <1>1, SubSeqProperties
  <2> QED  BY <1>1, <2>1, <2>2
<1>4. RemoveAt(s, i) = a \o b
  BY DEF RemoveAt
<1> HIDE DEF a, b
<1>5. a \o b \in Seq(S) /\ Len(a \o b) = Len(a) + Len(b)
  BY <1>2, <1>3, ConcatProperties
<1> QED  BY <1>1, <1>2, <1>3, <1>4, <1>5

(* Consuming a row shortens one list or none. *)
LEMMA ConsumedShortens ==
    ASSUME live \in [Purposes -> Seq(Rows)], NEW p \in Purposes, NEW k
    PROVE  /\ Consumed(p, k) \in [Purposes -> Seq(Rows)]
           /\ \A q \in Purposes : Len(Consumed(p, k)[q]) <= Len(live[q])
           /\ \A q \in Purposes : live[q] = <<>> => Consumed(p, k)[q] = <<>>
<1> DEFINE at == {i \in DOMAIN live[p] : live[p][i].code = k}
           i == CHOOSE i \in at : TRUE
<1>0. \A q \in Purposes : Len(live[q]) \in Nat /\ DOMAIN live[q] = 1 .. Len(live[q])
  BY LenProperties
<1>1. CASE at = {}
  <2>1. Consumed(p, k) = live
    BY <1>1 DEF Consumed
  <2> QED  BY <1>0, <2>1
<1>2. CASE at # {}
  <2>1. Consumed(p, k) = [live EXCEPT ![p] = RemoveAt(live[p], i)]
    BY <1>2 DEF Consumed
  <2>2. i \in 1 .. Len(live[p])
    <3>1. i \in at
      BY <1>2
    <3> QED  BY <1>0, <3>1
  <2> HIDE DEF at, i
  <2>3. RemoveAt(live[p], i) \in Seq(Rows) /\ Len(RemoveAt(live[p], i)) = Len(live[p]) - 1
    BY <2>2, RemoveAtShortens
  <2>4. live[p] # <<>>
    BY <1>0, <2>2, EmptySeq
  <2> QED  BY <1>0, <2>1, <2>3, <2>4
<1> QED  BY <1>1, <1>2

-----------------------------------------------------------------------------
(* Requests *)

LEMMA NewRequest ==
    ASSUME TypeOK, NEW c \in Clients, NEW r \in InFlight, Request(c, r)
    PROVE  /\ req' \in [Clients -> InFlight \cup {None}]
           /\ req[c] = None /\ req'[c] = r /\ \A d \in Clients \ {c} : req'[d] = req[d]
BY DEF TypeOK, Request

LEMMA Answered ==
    ASSUME TypeOK, NEW c \in Clients, Answer(c)
    PROVE  /\ req' \in [Clients -> InFlight \cup {None}]
           /\ req'[c] = None /\ \A d \in Clients \ {c} : req'[d] = req[d]
BY DEF TypeOK, Answer

LEMMA Went ==
    ASSUME TypeOK, NEW c \in Clients, NEW pc, [req[c] EXCEPT !.pc = pc] \in InFlight, Goto(c, pc)
    PROVE  /\ req' \in [Clients -> InFlight \cup {None}]
           /\ req'[c] = [req[c] EXCEPT !.pc = pc]
           /\ \A d \in Clients \ {c} : req'[d] = req[d]
BY DEF TypeOK, Goto

LEMMA Moves ==
    ASSUME NEW r \in InFlight
    PROVE  /\ r.op = "issue" => [r EXCEPT !.pc = "insert"] \in InFlight
           /\ r.op = "enter" => [r EXCEPT !.pc = "save"] \in InFlight
           /\ r.op = "accept" => [r EXCEPT !.pc = "member"] \in InFlight
<1>1. CASE r.op = "issue"
  <2>1. [r EXCEPT !.pc = "insert"] \in Issuing
    BY <1>1, RequestKinds DEF Issuing
  <2> QED  BY <1>1, <2>1 DEF InFlight
<1>2. CASE r.op = "enter"
  <2>1. [r EXCEPT !.pc = "save"] \in Entering
    BY <1>2, RequestKinds DEF Entering
  <2> QED  BY <1>2, <2>1 DEF InFlight
<1>3. CASE r.op = "accept"
  <2>1. [r EXCEPT !.pc = "member"] \in Accepting
    BY <1>3, RequestKinds DEF Accepting
  <2> QED  BY <1>3, <2>1 DEF InFlight
<1> QED  BY <1>1, <1>2, <1>3

(* The row read is kept with the request. *)
LEMMA ReadRow ==
    ASSUME NEW r \in Entering, NEW row \in Rows
    PROVE  LET s == [r EXCEPT !.pc = "compare", !.row = row]
           IN  /\ s \in Entering /\ s.op = "enter" /\ s.pc = "compare" /\ s.row = row
               /\ s.purpose = r.purpose /\ s.verified = r.verified
BY DEF Entering

LEMMA NewIssue ==
    ASSUME NEW p \in Purposes
    PROVE  [op |-> "issue", pc |-> "consume", purpose |-> p] \in InFlight
<1>1. [op |-> "issue", pc |-> "consume", purpose |-> p] \in Issuing
  BY DEF Issuing
<1> QED  BY <1>1 DEF InFlight

LEMMA NewEnter ==
    ASSUME NEW p \in {"activation", "password_reset"}, NEW k \in Codes \cup {None},
           NEW v \in BOOLEAN
    PROVE  [op |-> "enter", pc |-> "read", purpose |-> p, code |-> k, row |-> NoRow,
            verified |-> v] \in InFlight
<1>1. [op |-> "enter", pc |-> "read", purpose |-> p, code |-> k, row |-> NoRow,
       verified |-> v] \in Entering
  BY DEF Entering
<1> QED  BY <1>1 DEF InFlight

LEMMA NewAccept ==
    ASSUME NEW pwd \in Passwords, NEW pc \in {"password", "member"}
    PROVE  [op |-> "accept", pwd |-> pwd, pc |-> pc] \in InFlight
<1>1. [op |-> "accept", pwd |-> pwd, pc |-> pc] \in Accepting
  BY DEF Accepting
<1> QED  BY <1>1 DEF InFlight

LEMMA NewMfa ==
    ASSUME NEW s \in Secrets \cup {None}, NEW k \in Codes
    PROVE  [op |-> "mfa", pc |-> "consume", secret |-> s, code |-> k] \in InFlight
<1>1. [op |-> "mfa", pc |-> "consume", secret |-> s, code |-> k] \in LoggingIn
  BY DEF LoggingIn
<1> QED  BY <1>1 DEF InFlight

LEMMA NewSave ==
    ASSUME NEW op \in HolderOps, NEW s \in Secrets \cup {None}
    PROVE  [op |-> op, pc |-> "save", secret |-> s] \in InFlight
<1>1. [op |-> op, pc |-> "save", secret |-> s] \in Saving
  BY DEF Saving
<1> QED  BY <1>1 DEF InFlight

-----------------------------------------------------------------------------
(* Types *)

LEMMA TypeInit ==
    Init => TypeOK
<1> SUFFICES ASSUME Init
             PROVE  TypeOK
  OBVIOUS
<1>1. user \in Users \cup {None}
  <2>1. Account(TRUE, TRUE, "random") \in Users
    BY DEF Account, Users, Passwords
  <2> QED  BY <2>1 DEF Init
<1>2. live \in [Purposes -> Seq(Rows)]
  BY EmptySeq DEF Init
<1>3. events \in 0 .. MaxEvents
  BY BoundsAssumption DEF Init
<1> QED  BY <1>1, <1>2, <1>3 DEF Init, TypeOK

LEMMA EventType ==
    ASSUME TypeOK, Event \/ UNCHANGED events
    PROVE  events' \in 0 .. MaxEvents
BY BoundsAssumption DEF TypeOK, Event

LEMMA AppendRow ==
    ASSUME TypeOK, NEW p \in Purposes, NEW row \in Rows
    PROVE  /\ [live EXCEPT ![p] = Append(@, row)] \in [Purposes -> Seq(Rows)]
           /\ Len(Append(live[p], row)) = Len(live[p]) + 1
BY AppendProperties DEF TypeOK

LEMMA LeastNumber ==
    ASSUME NEW S \in SUBSET Nat, S # {}
    PROVE  \E x \in S : \A y \in S : x <= y
<1>1. PICK n \in S : TRUE
  OBVIOUS
<1> DEFINE Up == 0 .. n
           R == StrictSubsetOrdering(Up)
           T == {0 .. x : x \in S \cap Up}
<1>2. IsWellFoundedOn(R, FiniteSubsetsOf(Up))
  BY FS_StrictSubsetOrderingWellFounded
<1>3. T \subseteq FiniteSubsetsOf(Up) /\ T # {}
  <2>1. \A x \in S \cap Up : IsFiniteSet(0 .. x) /\ 0 .. x \subseteq Up
    BY FS_Interval
  <2> QED  BY <1>1, <2>1 DEF FiniteSubsetsOf
<1>4. PICK t \in T : \A u \in T : ~(<<u, t>> \in R)
  <2> HIDE DEF R, T
  <2> QED  BY <1>2, <1>3, WFMin
<1>5. PICK x \in S \cap Up : t = 0 .. x
  OBVIOUS
<1>6. \A y \in S \cap Up : x <= y
  <2> SUFFICES ASSUME NEW y \in S \cap Up, y < x
               PROVE  FALSE
    OBVIOUS
  <2>1. /\ 0 .. y \in T /\ 0 .. y \subseteq 0 .. x /\ 0 .. y # 0 .. x
        /\ 0 .. y \subseteq Up /\ 0 .. x \subseteq Up
    OBVIOUS
  <2>2. <<0 .. y, 0 .. x>> \in R
    BY <2>1 DEF StrictSubsetOrdering
  <2> QED  BY <1>4, <1>5, <2>1, <2>2
<1> QED  BY <1>6

(* The next code is one of the codes. *)
LEMMA CodeInserted ==
    ASSUME TypeOK, NEW c \in Clients, InsertCode(c)
    PROVE  LET p == req[c].purpose IN
           \E k \in Codes :
              /\ live' = [live EXCEPT ![p] = Append(@, [code |-> k, attempts |-> 0,
                                                        expired |-> FALSE])]
              /\ SendCode(p, k)
<1> DEFINE k == CHOOSE k \in Fresh : \A j \in Fresh : k <= j
<1>1. Fresh \in SUBSET Nat /\ Fresh \subseteq Codes /\ Fresh # {}
  BY CodesAssumption DEF Fresh, InsertCode
<1>2. \E x \in Fresh : \A y \in Fresh : x <= y
  BY <1>1, LeastNumber
<1>3. k \in Fresh
  <2> HIDE DEF Fresh
  <2> QED  BY <1>2
<1>4. k \in Codes
  <2> HIDE DEF k
  <2> QED  BY <1>1, <1>3
<1> QED  BY <1>4 DEF InsertCode

(* A wrong code changes the count of one row. *)
LEMMA CountedType ==
    ASSUME TypeOK, RequestInv, NEW c \in Clients, CompareWrong(c)
    PROVE  /\ live' \in [Purposes -> Seq(Rows)]
           /\ \A q \in Purposes : Len(live'[q]) = Len(live[q])
<1> DEFINE p == req[c].purpose
           n == req[c].row.attempts + 1
           new == [i \in DOMAIN live[p] |->
                     IF live[p][i].code = req[c].row.code
                     THEN [live[p][i] EXCEPT !.attempts = n] ELSE live[p][i]]
<1>1. live \in [Purposes -> Seq(Rows)] /\ live' = [live EXCEPT ![p] = new]
  BY DEF CompareWrong, TypeOK
<1>2. req[c] \in Entering /\ req[c].row.attempts < MaxAttempts
  BY RequestKinds DEF CompareWrong, At, TypeOK, RequestInv, Sound
<1>3. p \in Purposes /\ n \in 0 .. MaxAttempts
  <2>1. req[c].row \in Rows \cup {NoRow} /\ p \in Purposes
    BY <1>2, EnteringFields DEF Purposes
  <2>2. req[c].row.attempts \in Nat
    BY <2>1, RowFields, BoundsAssumption DEF NoRow
  <2> QED  BY <1>2, <2>1, <2>2, BoundsAssumption
<1> HIDE DEF p, n
<1>4. \A i \in DOMAIN live[p] : live[p][i] \in Rows
  BY <1>1, <1>3, ElementOfSeq, LenProperties
<1>5. \A i \in DOMAIN live[p] : [live[p][i] EXCEPT !.attempts = n] \in Rows
  <2>1. ASSUME NEW r \in Rows
        PROVE  [r EXCEPT !.attempts = n] \in Rows
    BY <1>3, Zenon DEF Rows
  <2> QED  BY <1>4, <2>1
<1>6. \A i \in DOMAIN live[p] : new[i] \in Rows
  BY <1>4, <1>5
<1>7. Len(live[p]) \in Nat /\ DOMAIN live[p] = 1 .. Len(live[p])
  BY <1>1, <1>3, LenProperties
<1>8. new \in [1 .. Len(live[p]) -> Rows]
  BY <1>6, <1>7
<1> HIDE DEF new
<1>9. new \in Seq(Rows) /\ Len(new) = Len(live[p])
  BY <1>7, <1>8, SeqOfFunction
<1> QED  BY <1>1, <1>3, <1>9

LEMMA ExpiredType ==
    ASSUME TypeOK, Expire
    PROVE  /\ live' \in [Purposes -> Seq(Rows)]
           /\ \A q \in Purposes : Len(live'[q]) = Len(live[q])
<1>0. PICK p \in Purposes :
         \E i \in DOMAIN live[p] : live' = [live EXCEPT ![p][i].expired = TRUE]
  BY DEF Expire
<1>1. PICK i \in DOMAIN live[p] : live' = [live EXCEPT ![p][i].expired = TRUE]
  BY <1>0
<1> DEFINE row == [live[p][i] EXCEPT !.expired = TRUE]
           new == [live[p] EXCEPT ![i] = row]
<1>2. live \in [Purposes -> Seq(Rows)] /\ live' = [live EXCEPT ![p] = new]
  BY <1>1, Zenon DEF TypeOK
<1>3. i \in 1 .. Len(live[p]) /\ live[p][i] \in Rows
  BY <1>2, ElementOfSeq, LenProperties
<1>4. row \in Rows
  BY <1>3, Zenon DEF Rows
<1> HIDE DEF row
<1>5. new \in Seq(Rows) /\ Len(new) = Len(live[p])
  BY <1>2, <1>3, <1>4, ExceptSeq
<1> HIDE DEF new
<1> QED  BY <1>2, <1>5

(* A code arrives, or a mail is lost. *)
LEMMA SentType ==
    ASSUME TypeOK, NEW p \in Purposes, NEW k \in Codes, SendCode(p, k)
    PROVE  inbox' \in [Purposes -> Codes \cup {None}] /\ events' \in 0 .. MaxEvents
BY EventType DEF TypeOK, SendCode

LEMMA TypeStep ==
    ASSUME TypeOK, OwnedInv, RequestInv, [Next]_vars
    PROVE  TypeOK'
<1>0. /\ user \in Users \cup {None}
      /\ member \in [{"own", "other"} -> {"none", "invited", "accepted"}]
      /\ live \in [Purposes -> Seq(Rows)]
      /\ req \in [Clients -> InFlight \cup {None}]
  BY DEF TypeOK
<1>1. ASSUME NEW c \in Clients, Register(c)
      PROVE  TypeOK'
  <2>1. Account(FALSE, FALSE, "set") \in Users
    BY DEF Account, Users, Passwords
  <2>2. user' \in Users /\ member' \in [{"own", "other"} -> {"none", "invited", "accepted"}]
    BY <1>0, <1>1, <2>1 DEF Register, CreateAccount
  <2>3. req' \in [Clients -> InFlight \cup {None}]
    BY <1>1, NewIssue, NewRequest DEF Register, Issue, Purposes
  <2> QED  BY <1>1, <2>2, <2>3 DEF TypeOK, Register
<1>2. ASSUME NEW c \in Clients, Invite(c)
      PROVE  TypeOK'
  <2>1. Account(TRUE, FALSE, "blank") \in Users
    BY DEF Account, Users, Passwords
  <2>2. user' \in Users \cup {None}
        /\ member' \in [{"own", "other"} -> {"none", "invited", "accepted"}]
    BY <1>0, <1>2, <2>1 DEF Invite
  <2> QED  BY <1>2, <2>2, EventType DEF TypeOK, Invite
<1>3. ASSUME NEW c \in Clients, ResendActivation(c) \/ PasswordResetRequest(c)
      PROVE  TypeOK'
  <2>1. req' \in [Clients -> InFlight \cup {None}]
    BY <1>3, NewIssue, NewRequest DEF ResendActivation, PasswordResetRequest, Issue, Purposes
  <2>2. events' \in 0 .. MaxEvents
    BY <1>3, EventType DEF ResendActivation, PasswordResetRequest, Patient
  <2> QED  BY <1>3, <2>1, <2>2 DEF TypeOK, ResendActivation, PasswordResetRequest
<1>4. ASSUME NEW c \in Clients, NEW k \in Codes \cup {None},
             ActivateAccount(c, k) \/ PasswordResetConfirm(c, k)
      PROVE  TypeOK'
  <2>1. user.verified \in BOOLEAN
    BY <1>0, <1>4, UserFields DEF ActivateAccount, NeedsActivation, PasswordResetConfirm, Found
  <2>2. req' \in [Clients -> InFlight \cup {None}]
    BY <1>4, <2>1, NewEnter, NewRequest DEF ActivateAccount, PasswordResetConfirm, EnterCode
  <2>3. events' \in 0 .. MaxEvents
    BY <1>4, EventType DEF ActivateAccount, PasswordResetConfirm, Patient
  <2> QED  BY <1>4, <2>2, <2>3 DEF TypeOK, ActivateAccount, PasswordResetConfirm
<1>5. ASSUME NEW c \in Clients, NEW password \in BOOLEAN, AcceptInvite(c, password)
      PROVE  TypeOK'
  <2>1. user.pwd \in Passwords
    BY <1>0, <1>5, UserFields DEF AcceptInvite
  <2>2. req' \in [Clients -> InFlight \cup {None}]
    BY <1>5, <2>1, NewAccept, NewRequest DEF AcceptInvite
  <2> QED  BY <1>5, <2>2, EventType DEF TypeOK, AcceptInvite
<1>6. ASSUME NEW c \in Clients, Login(c)
      PROVE  TypeOK'
  <2>1. req' \in [Clients -> InFlight \cup {None}] /\ token' \in BOOLEAN
    BY <1>0, <1>6, NewIssue, NewRequest DEF TypeOK, Login, Issue, Purposes
  <2> QED  BY <1>6, <2>1, EventType DEF TypeOK, Login
<1>7. ASSUME NEW c \in Clients, MfaVerifyLogin(c)
      PROVE  TypeOK'
  <2>1. PICK i \in DOMAIN live["mfa_login"] :
           Request(c, [op |-> "mfa", pc |-> "consume", secret |-> user.secret,
                       code |-> live["mfa_login"][i].code])
    BY <1>7 DEF MfaVerifyLogin
  <2>2. live["mfa_login"] \in Seq(Rows)
    BY <1>0 DEF Purposes
  <2>3. live["mfa_login"][i] \in Rows /\ live["mfa_login"] # <<>>
    BY <2>2, ElementOfSeq, LenProperties, EmptySeq
  <2>4. live["mfa_login"][i].code \in Codes
    BY <2>3, RowFields
  <2>5. user.secret \in Secrets \cup {None}
    BY <1>0, <2>3, UserFields DEF OwnedInv, Purposes
  <2>6. req' \in [Clients -> InFlight \cup {None}]
    BY <2>1, <2>4, <2>5, NewMfa, NewRequest
  <2> QED  BY <1>7, <2>6, EventType DEF TypeOK, MfaVerifyLogin
<1>8. ASSUME NEW c \in Clients, NEW op \in HolderOps, Authenticated(c, op)
      PROVE  TypeOK'
  <2>1. user.secret \in Secrets \cup {None}
    BY <1>0, <1>8, UserFields DEF Authenticated, Authenticates, OwnedInv
  <2>2. req' \in [Clients -> InFlight \cup {None}]
    BY <1>8, <2>1, NewSave, NewRequest DEF Authenticated
  <2> QED  BY <1>8, <2>2, EventType DEF TypeOK, Authenticated
<1>9. ASSUME NEW c \in Clients, ConsumeLive(c)
      PROVE  TypeOK'
  <2>1. req[c] \in InFlight /\ req[c].op = "issue"
    BY <1>0, <1>9 DEF ConsumeLive, At
  <2>2. req' \in [Clients -> InFlight \cup {None}]
    BY <1>9, <2>1, Moves, Went DEF ConsumeLive
  <2>3. live' \in [Purposes -> Seq(Rows)]
    BY <1>0, <1>9, EmptySeq DEF ConsumeLive, Invalidate
  <2> QED  BY <1>9, <2>2, <2>3 DEF TypeOK, ConsumeLive
<1>10. ASSUME NEW c \in Clients, InsertCode(c)
       PROVE  TypeOK'
  <2> DEFINE p == req[c].purpose
  <2>1. p \in Purposes
    BY <1>0, <1>10, RequestKinds DEF InsertCode, At, Issuing
  <2>2. PICK k \in Codes :
           /\ live' = [live EXCEPT ![p] = Append(@, [code |-> k, attempts |-> 0,
                                                     expired |-> FALSE])]
           /\ SendCode(p, k)
    BY <1>10, CodeInserted
  <2>3. [code |-> k, attempts |-> 0, expired |-> FALSE] \in Rows
    <3>1. 0 \in 0 .. MaxAttempts
      BY BoundsAssumption
    <3> QED  BY <3>1, Zenon DEF Rows
  <2>4. live' \in [Purposes -> Seq(Rows)]
    BY <2>1, <2>2, <2>3, AppendRow
  <2>5. req' \in [Clients -> InFlight \cup {None}]
    BY <1>10, Answered DEF InsertCode
  <2>6. inbox' \in [Purposes -> Codes \cup {None}] /\ events' \in 0 .. MaxEvents
    BY <2>1, <2>2, SentType
  <2> QED  BY <1>10, <2>4, <2>5, <2>6 DEF TypeOK, InsertCode
<1>11. ASSUME NEW c \in Clients, ReadChallenge(c)
       PROVE  TypeOK'
  <2> DEFINE rows == live[req[c].purpose]
             s == [req[c] EXCEPT !.pc = "compare", !.row = Last(rows)]
  <2>1. req[c] \in Entering
    BY <1>0, <1>11, RequestKinds DEF ReadChallenge, At
  <2>2. CASE Answer(c)
    BY <1>11, <2>2, Answered DEF TypeOK, ReadChallenge
  <2>3. CASE ~Answer(c)
    <3>1. rows # <<>> /\ req' = [req EXCEPT ![c].pc = "compare", ![c].row = Last(rows)]
      BY <1>11, <2>3 DEF ReadChallenge
    <3>2. rows \in Seq(Rows)
      BY <1>0, <2>1, EnteringFields DEF Purposes
    <3>3. Last(rows) \in Rows
      <4>1. Len(rows) \in 1 .. Len(rows)
        BY <3>1, <3>2, EmptySeq
      <4> QED  BY <3>2, <4>1, ElementOfSeq DEF Last
    <3>4. s \in InFlight
      BY <2>1, <3>3, ReadRow DEF InFlight
    <3>5. req' = [req EXCEPT ![c] = s]
      BY <1>0, <3>1, Zenon
    <3> HIDE DEF s, rows
    <3>6. req' \in [Clients -> InFlight \cup {None}]
      BY <1>0, <3>4, <3>5
    <3> QED  BY <1>11, <3>6 DEF TypeOK, ReadChallenge
  <2> QED  BY <2>2, <2>3
<1>12. ASSUME NEW c \in Clients, CompareWrong(c)
       PROVE  TypeOK'
  <2>1. live' \in [Purposes -> Seq(Rows)]
    BY <1>12, CountedType
  <2>2. req' \in [Clients -> InFlight \cup {None}]
    BY <1>12, Answered DEF CompareWrong
  <2> QED  BY <1>12, <2>1, <2>2 DEF TypeOK, CompareWrong
<1>13. ASSUME NEW c \in Clients, CompareRight(c)
       PROVE  TypeOK'
  <2>1. req[c] \in InFlight /\ req[c].op = "enter" /\ req[c].purpose \in Purposes
    BY <1>0, <1>13, RequestKinds, EnteringFields DEF CompareRight, At, Purposes
  <2>2. live' \in [Purposes -> Seq(Rows)]
    BY <1>0, <1>13, <2>1, ConsumedShortens DEF CompareRight
  <2>3. req' \in [Clients -> InFlight \cup {None}]
    BY <1>13, <2>1, Moves, Went DEF CompareRight
  <2> QED  BY <1>13, <2>2, <2>3 DEF TypeOK, CompareRight
<1>14. ASSUME NEW c \in Clients, ActivateSave(c) \/ ResetSave(c)
       PROVE  TypeOK'
  <2>1. user \in Users
    BY <1>0, <1>14 DEF ActivateSave, ResetSave, At, OwnedInv
  <2>2. user' \in Users
    BY <1>14, <2>1, Activated, WithPassword DEF ActivateSave, ResetSave
  <2>3. req' \in [Clients -> InFlight \cup {None}]
    BY <1>14, Answered DEF ActivateSave, ResetSave
  <2> QED  BY <1>14, <2>2, <2>3 DEF TypeOK, ActivateSave, ResetSave
<1>15. ASSUME NEW c \in Clients, AcceptSavePassword(c)
       PROVE  TypeOK'
  <2>1. user \in Users /\ req[c] \in InFlight /\ req[c].op = "accept"
    BY <1>0, <1>15 DEF AcceptSavePassword, At, OwnedInv
  <2>2. user' \in Users
    BY <1>15, <2>1, Accepted DEF AcceptSavePassword
  <2>3. req' \in [Clients -> InFlight \cup {None}]
    BY <1>15, <2>1, Moves, Went DEF AcceptSavePassword
  <2> QED  BY <1>15, <2>2, <2>3 DEF TypeOK, AcceptSavePassword
<1>16. ASSUME NEW c \in Clients, AcceptSaveMember(c)
       PROVE  TypeOK'
  <2>1. req' \in [Clients -> InFlight \cup {None}]
    BY <1>16, Answered DEF AcceptSaveMember
  <2>2. member' \in [{"own", "other"} -> {"none", "invited", "accepted"}]
    BY <1>0, <1>16 DEF AcceptSaveMember
  <2> QED  BY <1>16, <2>1, <2>2 DEF TypeOK, AcceptSaveMember
<1>17. ASSUME NEW c \in Clients, NEW right \in BOOLEAN, MfaConsume(c, right)
       PROVE  TypeOK'
  <2>1. live' \in [Purposes -> Seq(Rows)]
    BY <1>0, <1>17, ConsumedShortens DEF MfaConsume, Purposes
  <2>2. req' \in [Clients -> InFlight \cup {None}]
    BY <1>17, Answered DEF MfaConsume
  <2>3. token' \in BOOLEAN
    BY <1>17, Zenon DEF MfaConsume
  <2> QED  BY <1>17, <2>1, <2>2, <2>3 DEF TypeOK, MfaConsume
<1>18. ASSUME NEW c \in Clients,
              \/ MfaSetup(c) \/ MfaConfirm(c) \/ MfaDisable(c) \/ ChangePassword(c)
              \/ EraseMyAccount(c)
       PROVE  TypeOK'
  <2> DEFINE erased == [active |-> FALSE, verified |-> user.verified, erased |-> TRUE,
                        pwd |-> "unusable", mfa |-> FALSE, secret |-> None]
  <2>1. user \in Users
    BY <1>0, <1>18 DEF MfaSetup, MfaConfirm, MfaDisable, ChangePassword, EraseMyAccount, Save,
       At, OwnedInv
  <2>2. erased \in Users
    BY <2>1, UserFields DEF Users, Passwords
  <2> HIDE DEF erased
  <2>3. user' \in Users
    <3>1. CASE MfaSetup(c)
      BY <2>1, <3>1, WithSecret DEF MfaSetup, Save
    <3>2. CASE MfaConfirm(c)
      BY <2>1, <3>2, Confirmed DEF MfaConfirm, Save
    <3>3. CASE MfaDisable(c)
      BY <2>1, <3>3, WithoutMfa DEF MfaDisable, Save
    <3>4. CASE ChangePassword(c)
      BY <2>1, <3>4, WithPassword DEF ChangePassword, Save
    <3>5. CASE EraseMyAccount(c)
      BY <2>2, <3>5 DEF EraseMyAccount, Save, erased
    <3> QED  BY <1>18, <3>1, <3>2, <3>3, <3>4, <3>5
  <2>4. Answer(c) /\ UNCHANGED <<member, live, inbox, token, events>>
    BY <1>18 DEF MfaSetup, MfaConfirm, MfaDisable, ChangePassword, EraseMyAccount, Save
  <2> QED  BY <2>3, <2>4, Answered DEF TypeOK
<1>19. CASE Deactivate
  <2>1. user' \in Users
    BY <1>0, <1>19, Deactivated DEF Deactivate
  <2> QED  BY <1>19, <2>1, EventType DEF TypeOK, Deactivate
<1>20. CASE Expire
  BY <1>20, ExpiredType, EventType DEF TypeOK, Expire
<1>21. ASSUME NEW c \in Clients, Crash(c)
       PROVE  TypeOK'
  BY <1>21, Answered, EventType DEF TypeOK, Crash
<1>22. CASE UNCHANGED vars
  BY <1>22 DEF TypeOK, vars
<1>23. inbox["activation"] \in Codes \cup {None} /\ inbox["password_reset"] \in Codes \cup {None}
  BY DEF TypeOK, Purposes
<1> QED
  BY <1>1, <1>2, <1>3, <1>4, <1>5, <1>6, <1>7, <1>8, <1>9, <1>10, <1>11, <1>12, <1>13, <1>14,
     <1>15, <1>16, <1>17, <1>18, <1>19, <1>20, <1>21, <1>22, <1>23
  DEF Next, Begin, Continue

-----------------------------------------------------------------------------
(* The account and its requests *)

(* An account, once there, stays. *)
LEMMA UserStays ==
    ASSUME TypeOK, [Next]_vars, user # None
    PROVE  user' \in Users
<1>0. user \in Users
  BY DEF TypeOK
<1>1. ASSUME NEW c \in Clients, Begin(c)
      PROVE  user' = user
  BY <1>1 DEF Begin, Register, CreateAccount, Invite, ResendActivation, PasswordResetRequest,
     ActivateAccount, PasswordResetConfirm, AcceptInvite, Login, MfaVerifyLogin, Authenticated
<1>2. ASSUME NEW c \in Clients,
             \/ ConsumeLive(c) \/ InsertCode(c) \/ ReadChallenge(c) \/ CompareWrong(c)
             \/ CompareRight(c) \/ AcceptSaveMember(c) \/ Crash(c)
             \/ \E right \in BOOLEAN : MfaConsume(c, right)
      PROVE  user' = user
  BY <1>2 DEF ConsumeLive, InsertCode, ReadChallenge, CompareWrong, CompareRight,
     AcceptSaveMember, Crash, MfaConsume
<1>3. ASSUME NEW c \in Clients, ActivateSave(c) \/ ResetSave(c) \/ AcceptSavePassword(c)
      PROVE  user' \in Users
  BY <1>0, <1>3, Activated, WithPassword, Accepted DEF ActivateSave, ResetSave, AcceptSavePassword
<1>4. ASSUME NEW c \in Clients,
             \/ MfaSetup(c) \/ MfaConfirm(c) \/ MfaDisable(c) \/ ChangePassword(c)
      PROVE  user' \in Users
  BY <1>0, <1>4, WithSecret, Confirmed, WithoutMfa, WithPassword DEF MfaSetup, MfaConfirm,
     MfaDisable, ChangePassword, Save
<1>5. ASSUME NEW c \in Clients, EraseMyAccount(c)
      PROVE  user' \in Users
  <2>1. [active |-> FALSE, verified |-> user.verified, erased |-> TRUE,
         pwd |-> "unusable", mfa |-> FALSE, secret |-> None] \in Users
    BY <1>0, UserFields DEF Users, Passwords
  <2> QED  BY <1>5, <2>1 DEF EraseMyAccount, Save
<1>6. CASE Deactivate
  BY <1>0, <1>6, Deactivated DEF Deactivate
<1>7. CASE Expire \/ UNCHANGED vars
  BY <1>0, <1>7 DEF Expire, vars
<1> QED  BY <1>0, <1>1, <1>2, <1>3, <1>4, <1>5, <1>6, <1>7 DEF Next, Continue

(* Nothing is done before there is an account but to open it. *)
LEMMA AccountFirst ==
    ASSUME TypeOK, OwnedInv, Next, user = None
    PROVE  user' \in Users
<1>1. /\ token = FALSE /\ \A c \in Clients : req[c] = None
      /\ \A p \in Purposes : live[p] = <<>> /\ DOMAIN live[p] = {}
  BY DEF OwnedInv, TypeOK
<1>2. Account(FALSE, FALSE, "set") \in Users /\ Account(TRUE, FALSE, "blank") \in Users
  BY DEF Account, Users, Passwords
<1>3. ASSUME NEW c \in Clients, Begin(c)
      PROVE  Register(c) \/ Invite(c)
  <2>1. ~MfaVerifyLogin(c)
    BY <1>1 DEF MfaVerifyLogin, Purposes
  <2> QED  BY <1>1, <1>3, <2>1 DEF Begin, ResendActivation, AwaitsActivation, Found,
              PasswordResetRequest, ActivateAccount, NeedsActivation, PasswordResetConfirm,
              AcceptInvite, Login, Credentials, Authenticated, Authenticates
<1>4. ASSUME NEW c \in Clients, Register(c) \/ Invite(c)
      PROVE  user' \in Users
  BY <1>2, <1>4 DEF Register, CreateAccount, Invite
<1>5. ASSUME NEW c \in Clients
      PROVE  ~Continue(c) /\ ~Crash(c)
  BY <1>1 DEF Continue, Crash, ConsumeLive, InsertCode, ReadChallenge, CompareWrong,
     CompareRight, ActivateSave, ResetSave, AcceptSavePassword, AcceptSaveMember, MfaConsume,
     MfaSetup, MfaConfirm, MfaDisable, ChangePassword, EraseMyAccount, Save, At
<1>6. ~Deactivate /\ ~Expire
  BY <1>1 DEF Deactivate, Expire
<1> QED  BY <1>3, <1>4, <1>5, <1>6 DEF Next

LEMMA OwnedStep ==
    ASSUME TypeOK, OwnedInv, [Next]_vars
    PROVE  OwnedInv'
<1>1. CASE UNCHANGED vars
  BY <1>1 DEF OwnedInv, vars
<1>2. CASE Next
  <2>1. user' \in Users
    BY <1>2, UserStays, AccountFirst
  <2>2. user' # None
    BY <2>1, NoneIsNone
  <2> QED  BY <2>2 DEF OwnedInv
<1> QED  BY <1>1, <1>2

(* A request is begun with what it has found; what it finds later is added. *)
LEMMA RequestStep ==
    ASSUME TypeOK, OwnedInv, RequestInv, [Next]_vars
    PROVE  RequestInv'
<1>0. req \in [Clients -> InFlight \cup {None}]
  BY DEF TypeOK
<1>1. ASSUME NEW c \in Clients, NEW r, r # None => Sound(r),
             req'[c] = r, \A d \in Clients \ {c} : req'[d] = req[d]
      PROVE  RequestInv'
  BY <1>1 DEF RequestInv
<1>2. ASSUME NEW c \in Clients, NEW r, Sound(r), Request(c, r)
      PROVE  RequestInv'
  BY <1>0, <1>1, <1>2 DEF Request
<1>3. ASSUME NEW c \in Clients, Answer(c)
      PROVE  RequestInv'
  BY <1>0, <1>1, <1>3 DEF Answer
<1>4. CASE UNCHANGED req
  BY <1>4 DEF RequestInv
<1>5. ASSUME NEW c \in Clients, NEW p \in Purposes, Issue(c, p)
      PROVE  RequestInv'
  BY <1>2, <1>5 DEF Issue, Sound
<1>6. ASSUME NEW c \in Clients, NEW k, ActivateAccount(c, k)
      PROVE  RequestInv'
  <2> DEFINE r == [op |-> "enter", pc |-> "read", purpose |-> "activation", code |-> k,
                   row |-> NoRow, verified |-> user.verified]
  <2>1. Sound(r)
    BY <1>6 DEF ActivateAccount, NeedsActivation, Sound
  <2> QED  BY <1>2, <1>6, <2>1 DEF ActivateAccount, EnterCode
<1>7. ASSUME NEW c \in Clients, NEW k, PasswordResetConfirm(c, k)
      PROVE  RequestInv'
  <2> DEFINE r == [op |-> "enter", pc |-> "read", purpose |-> "password_reset", code |-> k,
                   row |-> NoRow, verified |-> user.verified]
  <2>1. Sound(r)
    BY DEF Sound
  <2> QED  BY <1>2, <1>7, <2>1 DEF PasswordResetConfirm, EnterCode
<1>8. ASSUME NEW c \in Clients, NEW password, AcceptInvite(c, password)
      PROVE  RequestInv'
  <2> DEFINE r == [op |-> "accept", pwd |-> user.pwd,
                   pc |-> IF user.pwd = "unusable" THEN "password" ELSE "member"]
  <2>1. Sound(r)
    BY DEF Sound
  <2> QED  BY <1>2, <1>8, <2>1 DEF AcceptInvite
<1>9. ASSUME NEW c \in Clients, MfaVerifyLogin(c)
      PROVE  RequestInv'
  <2>1. PICK i \in DOMAIN live["mfa_login"] :
           Request(c, [op |-> "mfa", pc |-> "consume", secret |-> user.secret,
                       code |-> live["mfa_login"][i].code])
    BY <1>9 DEF MfaVerifyLogin
  <2>2. Sound([op |-> "mfa", pc |-> "consume", secret |-> user.secret,
               code |-> live["mfa_login"][i].code])
    BY DEF Sound
  <2> QED  BY <1>2, <2>1, <2>2
<1>10. ASSUME NEW c \in Clients, NEW op \in HolderOps, Authenticated(c, op)
       PROVE  RequestInv'
  <2>1. Sound([op |-> op, pc |-> "save", secret |-> user.secret])
    BY <1>10 DEF Authenticated, HolderOps, Sound
  <2> QED  BY <1>2, <1>10, <2>1 DEF Authenticated
<1>11. ASSUME NEW c \in Clients, Login(c)
       PROVE  RequestInv'
  BY <1>4, <1>5, <1>11 DEF Login, Purposes
<1>12. ASSUME NEW c \in Clients, Begin(c)
       PROVE  RequestInv'
  BY <1>4, <1>5, <1>6, <1>7, <1>8, <1>9, <1>10, <1>11, <1>12 DEF Begin, Register, Invite,
     ResendActivation, PasswordResetRequest, Purposes
<1>13. ASSUME NEW c \in Clients, ConsumeLive(c)
       PROVE  RequestInv'
  <2>1. req[c] \in Issuing
    BY <1>0, <1>13, RequestKinds DEF ConsumeLive, At
  <2>2. Sound([req[c] EXCEPT !.pc = "insert"])
    BY <2>1 DEF Sound, Issuing
  <2>3. [req[c] EXCEPT !.pc = "insert"] \in InFlight
    BY <2>1, Moves DEF Issuing, InFlight
  <2> QED  BY <1>1, <1>13, <2>2, <2>3, Went DEF ConsumeLive
<1>14. ASSUME NEW c \in Clients, ReadChallenge(c)
       PROVE  RequestInv'
  <2> DEFINE rows == live[req[c].purpose]
             s == [req[c] EXCEPT !.pc = "compare", !.row = Last(rows)]
  <2>1. CASE Answer(c)
    BY <1>3, <2>1
  <2>2. CASE ~Answer(c)
    <3>1. /\ rows # <<>> /\ Last(rows).attempts < MaxAttempts
          /\ req' = [req EXCEPT ![c].pc = "compare", ![c].row = Last(rows)]
      BY <1>14, <2>2 DEF ReadChallenge
    <3>2. req[c] \in Entering /\ Sound(req[c])
      BY <1>0, <1>14, RequestKinds DEF ReadChallenge, At, RequestInv
    <3>3. rows \in Seq(Rows)
      BY <3>2, EnteringFields DEF Purposes, TypeOK
    <3>4. Last(rows) \in Rows
      <4>1. Len(rows) \in 1 .. Len(rows)
        BY <3>1, <3>3, EmptySeq
      <4> QED  BY <3>3, <4>1, ElementOfSeq DEF Last
    <3>5. /\ s.op = "enter" /\ s.row = Last(rows)
          /\ s.purpose = req[c].purpose /\ s.verified = req[c].verified
      BY <3>2, <3>4, ReadRow
    <3>6. req' = [req EXCEPT ![c] = s]
      BY <1>0, <3>1, Zenon
    <3> HIDE DEF s
    <3>7. Sound(s)
      BY <3>1, <3>2, <3>5, EnteringFields DEF Sound
    <3> HIDE DEF rows
    <3> QED  BY <1>0, <1>1, <3>6, <3>7
  <2> QED  BY <2>1, <2>2
<1>15. ASSUME NEW c \in Clients, CompareRight(c)
       PROVE  RequestInv'
  <2>1. req[c] \in Entering /\ Sound(req[c])
    BY <1>0, <1>15, RequestKinds DEF CompareRight, At, RequestInv
  <2>2. Sound([req[c] EXCEPT !.pc = "save"])
    BY <2>1 DEF Sound, Entering
  <2>3. [req[c] EXCEPT !.pc = "save"] \in InFlight
    BY <2>1, Moves DEF Entering, InFlight
  <2> QED  BY <1>1, <1>15, <2>2, <2>3, Went DEF CompareRight
<1>16. ASSUME NEW c \in Clients, AcceptSavePassword(c)
       PROVE  RequestInv'
  <2>1. req[c] \in Accepting
    BY <1>0, <1>16, RequestKinds DEF AcceptSavePassword, At
  <2>2. Sound([req[c] EXCEPT !.pc = "member"])
    BY <2>1 DEF Sound, Accepting
  <2>3. [req[c] EXCEPT !.pc = "member"] \in InFlight
    BY <2>1, Moves DEF Accepting, InFlight
  <2> QED  BY <1>1, <1>16, <2>2, <2>3, Went DEF AcceptSavePassword
<1>17. ASSUME NEW c \in Clients,
              \/ InsertCode(c) \/ CompareWrong(c) \/ ActivateSave(c) \/ ResetSave(c)
              \/ AcceptSaveMember(c) \/ MfaSetup(c) \/ MfaConfirm(c) \/ MfaDisable(c)
              \/ ChangePassword(c) \/ EraseMyAccount(c) \/ Crash(c)
              \/ \E right \in BOOLEAN : MfaConsume(c, right)
       PROVE  RequestInv'
  BY <1>3, <1>17 DEF InsertCode, CompareWrong, ActivateSave, ResetSave, AcceptSaveMember,
     MfaSetup, MfaConfirm, MfaDisable, ChangePassword, EraseMyAccount, Save, Crash, MfaConsume
<1>18. CASE Deactivate \/ Expire \/ UNCHANGED vars
  BY <1>4, <1>18 DEF Deactivate, Expire, vars
<1> QED  BY <1>12, <1>13, <1>14, <1>15, <1>16, <1>17, <1>18 DEF Next, Continue

-----------------------------------------------------------------------------
(* Codes in force *)

LEMMA ClientsCount ==
    ASSUME NEW S \in SUBSET Clients
    PROVE  /\ IsFiniteSet(S) /\ Cardinality(S) \in Nat /\ Cardinality(Clients) \in Nat
           /\ Cardinality(S) <= Cardinality(Clients)
           /\ \A T \in SUBSET S : Cardinality(T) <= Cardinality(S)
BY BoundsAssumption, FS_Subset, FS_CardinalityType

(* Only the UPDATE of the codes in force brings a request to its INSERT. *)
LEMMA InsertingStep ==
    ASSUME TypeOK, [Next]_vars, NEW q \in Purposes, \A c \in Clients : ~ConsumeLive(c)
    PROVE  Inserting(q)' \subseteq Inserting(q)
<1>0. req \in [Clients -> InFlight \cup {None}]
  BY DEF TypeOK
<1>1. ASSUME NEW c \in Clients, NEW r, r # None => r.pc # "insert",
             req' = [req EXCEPT ![c] = r]
      PROVE  Inserting(q)' \subseteq Inserting(q)
  BY <1>0, <1>1 DEF Inserting, At
<1>2. ASSUME NEW c \in Clients, Begin(c)
      PROVE  UNCHANGED req \/ \E r : r.pc # "insert" /\ Request(c, r)
  <2>1. ASSUME NEW p \in Purposes, Issue(c, p)
        PROVE  \E r : r.pc # "insert" /\ Request(c, r)
    BY <2>1 DEF Issue
  <2>2. ASSUME NEW p, NEW k, EnterCode(c, p, k)
        PROVE  \E r : r.pc # "insert" /\ Request(c, r)
    BY <2>2 DEF EnterCode
  <2>3. CASE MfaVerifyLogin(c)
    <3>1. PICK i \in DOMAIN live["mfa_login"] :
             Request(c, [op |-> "mfa", pc |-> "consume", secret |-> user.secret,
                         code |-> live["mfa_login"][i].code])
      BY <2>3 DEF MfaVerifyLogin
    <3> QED  BY <3>1
  <2>4. ASSUME NEW op \in HolderOps, Authenticated(c, op)
        PROVE  \E r : r.pc # "insert" /\ Request(c, r)
    BY <2>4 DEF Authenticated
  <2>5. ASSUME NEW password, AcceptInvite(c, password)
        PROVE  \E r : r.pc # "insert" /\ Request(c, r)
    <3> DEFINE r == [op |-> "accept", pwd |-> user.pwd,
                     pc |-> IF user.pwd = "unusable" THEN "password" ELSE "member"]
    <3>1. r.pc # "insert" /\ Request(c, r)
      BY <2>5 DEF AcceptInvite
    <3> HIDE DEF r
    <3> QED  BY <3>1
  <2> QED  BY <1>2, <2>1, <2>2, <2>3, <2>4, <2>5 DEF Begin, Register, Invite, ResendActivation,
              PasswordResetRequest, ActivateAccount, PasswordResetConfirm, Login, Purposes
<1>3. ASSUME NEW c \in Clients,
             \/ InsertCode(c) \/ CompareWrong(c) \/ ActivateSave(c) \/ ResetSave(c)
             \/ AcceptSaveMember(c) \/ MfaSetup(c) \/ MfaConfirm(c) \/ MfaDisable(c)
             \/ ChangePassword(c) \/ EraseMyAccount(c) \/ Crash(c)
             \/ \E right \in BOOLEAN : MfaConsume(c, right)
      PROVE  Answer(c)
  BY <1>3 DEF InsertCode, CompareWrong, ActivateSave, ResetSave, AcceptSaveMember, MfaSetup,
     MfaConfirm, MfaDisable, ChangePassword, EraseMyAccount, Save, Crash, MfaConsume
<1>4. ASSUME NEW c \in Clients, CompareRight(c) \/ AcceptSavePassword(c)
      PROVE  Inserting(q)' \subseteq Inserting(q)
  BY <1>0, <1>4 DEF CompareRight, AcceptSavePassword, Goto, At, Inserting, InFlight, Entering,
     Accepting, Issuing, LoggingIn, Saving
<1>5. ASSUME NEW c \in Clients, ReadChallenge(c)
      PROVE  Inserting(q)' \subseteq Inserting(q)
  <2> DEFINE s == [req[c] EXCEPT !.pc = "compare", !.row = Last(live[req[c].purpose])]
  <2>1. CASE Answer(c)
    BY <1>1, <2>1 DEF Answer
  <2>2. CASE ~Answer(c)
    <3>1. req' = [req EXCEPT ![c].pc = "compare", ![c].row = Last(live[req[c].purpose])]
      BY <1>5, <2>2 DEF ReadChallenge
    <3>2. req' = [req EXCEPT ![c] = s]
      BY <1>0, <3>1, Zenon
    <3>3. req[c] \in Entering
      BY <1>0, <1>5, RequestKinds DEF ReadChallenge, At
    <3>4. s.pc # "insert"
      BY <3>3 DEF Entering
    <3> HIDE DEF s
    <3> QED  BY <1>1, <3>2, <3>4
  <2> QED  BY <2>1, <2>2
<1>6. CASE UNCHANGED req
  BY <1>6 DEF Inserting, At
<1>7. CASE Deactivate \/ Expire \/ UNCHANGED vars
  BY <1>6, <1>7 DEF Deactivate, Expire, vars
<1>8. ASSUME NEW c \in Clients, Begin(c)
      PROVE  Inserting(q)' \subseteq Inserting(q)
  <2>1. CASE UNCHANGED req
    BY <1>6, <2>1
  <2>2. ASSUME NEW r, r.pc # "insert", Request(c, r)
        PROVE  Inserting(q)' \subseteq Inserting(q)
    BY <1>1, <2>2 DEF Request
  <2> QED  BY <1>2, <1>8, <2>1, <2>2
<1>9. ASSUME NEW c \in Clients, Answer(c)
      PROVE  Inserting(q)' \subseteq Inserting(q)
  BY <1>1, <1>9 DEF Answer
<1> QED  BY <1>3, <1>4, <1>5, <1>7, <1>8, <1>9 DEF Next, Continue

(* Only the INSERT makes a list of codes longer. *)
LEMMA LengthStep ==
    ASSUME TypeOK, RequestInv, [Next]_vars, NEW q \in Purposes,
           \A c \in Clients : ~ConsumeLive(c) /\ ~InsertCode(c)
    PROVE  Len(live'[q]) <= Len(live[q])
<1>0. live \in [Purposes -> Seq(Rows)] /\ Len(live[q]) \in Nat
  BY LenProperties DEF TypeOK
<1>1. ASSUME NEW c \in Clients, Begin(c)
      PROVE  live' = live
  BY <1>1 DEF Begin, Register, Invite, ResendActivation, PasswordResetRequest,
     ActivateAccount, PasswordResetConfirm, AcceptInvite, Login, MfaVerifyLogin, Authenticated
<1>2. ASSUME NEW c \in Clients, CompareWrong(c)
      PROVE  Len(live'[q]) <= Len(live[q])
  BY <1>0, <1>2, CountedType
<1>3. ASSUME NEW c \in Clients, CompareRight(c)
      PROVE  Len(live'[q]) <= Len(live[q])
  <2>1. req[c].purpose \in Purposes
    BY <1>3, RequestKinds, EnteringFields DEF CompareRight, At, TypeOK, Purposes
  <2> QED  BY <1>0, <1>3, <2>1, ConsumedShortens DEF CompareRight
<1>4. ASSUME NEW c \in Clients, NEW right \in BOOLEAN, MfaConsume(c, right)
      PROVE  Len(live'[q]) <= Len(live[q])
  BY <1>0, <1>4, ConsumedShortens DEF MfaConsume, Purposes
<1>5. CASE Expire
  BY <1>0, <1>5, ExpiredType
<1>6. CASE \/ Deactivate \/ UNCHANGED vars
           \/ \E c \in Clients :
                \/ ReadChallenge(c) \/ ActivateSave(c) \/ ResetSave(c) \/ AcceptSavePassword(c)
                \/ AcceptSaveMember(c) \/ MfaSetup(c) \/ MfaConfirm(c) \/ MfaDisable(c)
                \/ ChangePassword(c) \/ EraseMyAccount(c) \/ Crash(c)
  <2>1. live' = live
    BY <1>6 DEF Deactivate, vars, ReadChallenge, ActivateSave, ResetSave, AcceptSavePassword,
       AcceptSaveMember, MfaSetup, MfaConfirm, MfaDisable, ChangePassword, EraseMyAccount,
       Save, Crash
  <2> QED  BY <1>0, <2>1
<1> QED  BY <1>0, <1>1, <1>2, <1>3, <1>4, <1>5, <1>6 DEF Next, Continue

LEMMA CodesStep ==
    ASSUME TypeOK, RequestInv, CodesInv, [Next]_vars
    PROVE  CodesInv'
<1> SUFFICES ASSUME NEW q \in Purposes
             PROVE  Len(live'[q]) + Cardinality(Inserting(q)') <= Cardinality(Clients)
  BY DEF CodesInv
<1>0. /\ live \in [Purposes -> Seq(Rows)]
      /\ req \in [Clients -> InFlight \cup {None}]
      /\ Len(live[q]) \in Nat
      /\ Len(live[q]) + Cardinality(Inserting(q)) <= Cardinality(Clients)
  BY LenProperties DEF TypeOK, CodesInv
<1>1. Inserting(q) \in SUBSET Clients /\ Inserting(q)' \in SUBSET Clients
  BY DEF Inserting
<1>2. /\ IsFiniteSet(Inserting(q)) /\ Cardinality(Inserting(q)) \in Nat
      /\ Cardinality(Inserting(q)') \in Nat /\ Cardinality(Clients) \in Nat
      /\ Cardinality(Inserting(q)') <= Cardinality(Clients)
      /\ Inserting(q)' \subseteq Inserting(q) =>
           Cardinality(Inserting(q)') <= Cardinality(Inserting(q))
  BY <1>1, ClientsCount
<1>3. ASSUME NEW c \in Clients, ConsumeLive(c)
      PROVE  Len(live'[q]) + Cardinality(Inserting(q)') <= Cardinality(Clients)
  <2>1. req[c] \in Issuing
    BY <1>0, <1>3, RequestKinds DEF ConsumeLive, At
  <2>2. CASE req[c].purpose = q
    <3>1. live'[q] = <<>>
      BY <1>0, <1>3, <2>2 DEF ConsumeLive, Invalidate
    <3>2. Len(live'[q]) = 0
      BY <3>1
    <3> QED  BY <1>2, <3>2
  <2>3. CASE req[c].purpose # q
    <3>1. live'[q] = live[q]
      BY <1>0, <1>3, <2>3 DEF ConsumeLive, Invalidate
    <3>2. Inserting(q)' \subseteq Inserting(q)
      BY <1>0, <1>3, <2>1, <2>3 DEF ConsumeLive, Goto, Inserting, At, Issuing
    <3> QED  BY <1>0, <1>2, <3>1, <3>2
  <2> QED  BY <2>2, <2>3
<1>4. ASSUME NEW c \in Clients, InsertCode(c)
      PROVE  Len(live'[q]) + Cardinality(Inserting(q)') <= Cardinality(Clients)
  <2> DEFINE p == req[c].purpose
  <2>1. PICK k \in Codes : live' = [live EXCEPT ![p] = Append(@, [code |-> k, attempts |-> 0,
                                                                 expired |-> FALSE])]
    BY <1>4, CodeInserted
  <2> DEFINE row == [code |-> k, attempts |-> 0, expired |-> FALSE]
  <2>2. Inserting(q)' = Inserting(q) \ {c}
    BY <1>0, <1>4 DEF InsertCode, Answer, Inserting, At
  <2>3. CASE p = q
    <3>1. row \in Rows
      <4>1. 0 \in 0 .. MaxAttempts
        BY BoundsAssumption
      <4> QED  BY <4>1, Zenon DEF Rows
    <3>2. live'[q] = Append(live[q], row)
      BY <1>0, <2>1, <2>3
    <3> HIDE DEF row
    <3>3. Len(live'[q]) = Len(live[q]) + 1
      BY <1>0, <3>1, <3>2, AppendProperties
    <3>4. c \in Inserting(q)
      BY <1>4, <2>3 DEF InsertCode, Inserting
    <3>5. Cardinality(Inserting(q)') = Cardinality(Inserting(q)) - 1
      BY <1>2, <2>2, <3>4, FS_RemoveElement
    <3> QED  BY <1>0, <1>2, <3>3, <3>5
  <2>4. CASE p # q
    <3>1. live'[q] = live[q]
      BY <1>0, <2>1, <2>4
    <3> QED  BY <1>0, <1>2, <2>2, <3>1
  <2> QED  BY <2>3, <2>4
<1>5. CASE \A c \in Clients : ~ConsumeLive(c) /\ ~InsertCode(c)
  <2>1. Len(live'[q]) \in Nat /\ Len(live'[q]) <= Len(live[q])
    <3>1. live' \in [Purposes -> Seq(Rows)] \/ Len(live'[q]) \in Nat
      BY <1>0, LenProperties DEF TypeOK
    <3> QED  BY <1>5, LengthStep
  <2>2. Inserting(q)' \subseteq Inserting(q)
    BY <1>5, InsertingStep
  <2> QED  BY <1>0, <1>2, <2>1, <2>2
<1> QED  BY <1>3, <1>4, <1>5

-----------------------------------------------------------------------------
(* The theorems *)

AccountsInv == TypeOK /\ OwnedInv /\ RequestInv /\ CodesInv

LEMMA AccountsInvInit ==
    Init => AccountsInv
<1> SUFFICES ASSUME Init
             PROVE  AccountsInv
  OBVIOUS
<1>1. TypeOK
  BY TypeInit
<1>2. OwnedInv /\ RequestInv
  BY DEF Init, OwnedInv, RequestInv
<1>3. CodesInv
  <2> SUFFICES ASSUME NEW p \in Purposes
               PROVE  Len(live[p]) + Cardinality(Inserting(p)) <= Cardinality(Clients)
    BY DEF CodesInv
  <2>1. live[p] = <<>> /\ Inserting(p) = {}
    BY DEF Init, Inserting, At
  <2>2. Len(live[p]) = 0 /\ Cardinality(Inserting(p)) = 0
    BY <2>1, FS_EmptySet
  <2>3. Cardinality(Clients) \in Nat
    BY ClientsCount
  <2> QED  BY <2>2, <2>3
<1> QED  BY <1>1, <1>2, <1>3 DEF AccountsInv

LEMMA AccountsInvariant ==
    Spec => []AccountsInv
<1>1. Init => AccountsInv
  BY AccountsInvInit
<1>2. AccountsInv /\ [Next]_vars => AccountsInv'
  BY TypeStep, OwnedStep, RequestStep, CodesStep DEF AccountsInv
<1> QED  BY <1>1, <1>2, PTL DEF Spec

(* The account, the codes sent, the rows not consumed and the requests in    *)
(* flight keep their types: a code is never entered more often than          *)
(* OTP_MAX_ATTEMPTS allows (verify, models.py), although wrong codes write   *)
(* the count they have read.                                                 *)
THEOREM TypeCorrect ==
    Spec => []TypeOK
<1>1. AccountsInv => TypeOK
  BY DEF AccountsInv
<1> QED  BY AccountsInvariant, <1>1, PTL

(* However many requests overlap between the UPDATE that consumes the codes  *)
(* in force and the INSERT of the next one (create_challenge,                *)
(* create_login_session), no more codes of a purpose are in force than       *)
(* requests can overlap.                                                     *)
THEOREM CodesBounded ==
    Spec => []CodesInForce
<1>1. AccountsInv => CodesInForce
  <2> SUFFICES ASSUME AccountsInv, NEW p \in Purposes
               PROVE  Len(live[p]) <= Cardinality(Clients)
    BY DEF CodesInForce
  <2>1. Inserting(p) \in SUBSET Clients
    BY DEF Inserting
  <2>2. Cardinality(Inserting(p)) \in Nat /\ Cardinality(Clients) \in Nat
    BY <2>1, ClientsCount
  <2>3. Len(live[p]) \in Nat
    BY LenProperties DEF AccountsInv, TypeOK
  <2> QED  BY <2>2, <2>3 DEF AccountsInv, CodesInv
<1> QED  BY AccountsInvariant, <1>1, PTL

(* Only these steps write the account once it is there. *)
Writes(c) ==
    \/ ActivateSave(c) \/ ResetSave(c) \/ AcceptSavePassword(c) \/ MfaSetup(c)
    \/ MfaConfirm(c) \/ MfaDisable(c) \/ ChangePassword(c) \/ EraseMyAccount(c)

LEMMA OthersKeepUser ==
    ASSUME [Next]_vars, user # None, ~Deactivate, \A c \in Clients : ~Writes(c)
    PROVE  user' = user
<1>1. ASSUME NEW c \in Clients, Begin(c)
      PROVE  user' = user
  BY <1>1 DEF Begin, Register, CreateAccount, Invite, ResendActivation, PasswordResetRequest,
     ActivateAccount, PasswordResetConfirm, AcceptInvite, Login, MfaVerifyLogin, Authenticated
<1>2. ASSUME NEW c \in Clients,
             \/ ConsumeLive(c) \/ InsertCode(c) \/ ReadChallenge(c) \/ CompareWrong(c)
             \/ CompareRight(c) \/ AcceptSaveMember(c) \/ Crash(c)
             \/ \E right \in BOOLEAN : MfaConsume(c, right)
      PROVE  user' = user
  BY <1>2 DEF ConsumeLive, InsertCode, ReadChallenge, CompareWrong, CompareRight,
     AcceptSaveMember, Crash, MfaConsume
<1>3. CASE Expire \/ UNCHANGED vars
  BY <1>3 DEF Expire, vars
<1> QED  BY <1>1, <1>2, <1>3 DEF Next, Continue, Writes

(* What a step that writes the account does to its columns. *)
LEMMA WritesFields ==
    ASSUME AccountsInv, NEW c \in Clients, Writes(c), user # None
    PROVE  /\ user.active = FALSE /\ user'.active # FALSE =>
                \/ req[c].op = "enter" /\ ~req[c].verified
                \/ req[c].op = "accept" /\ req[c].pwd = "unusable"
           /\ user'.mfa = TRUE /\ user'.secret = None =>
                \/ user.mfa = TRUE /\ user.secret = None
                \/ req[c].op = "mfa_confirm" /\ user.secret = None
           /\ req[c] # None
<1>0. user \in Users /\ (req[c] # None => Sound(req[c]))
  BY DEF AccountsInv, TypeOK, RequestInv
<1> USE <1>0
<1>1. CASE ActivateSave(c)
  <2>1. user'.mfa = user.mfa /\ user'.secret = user.secret
    BY <1>1, Activated DEF ActivateSave
  <2>2. req[c] # None /\ req[c].op = "enter" /\ ~req[c].verified
    BY <1>1 DEF ActivateSave, At, Sound
  <2> QED  BY <2>1, <2>2
<1>2. CASE ResetSave(c)
  BY <1>2, WithPassword DEF ResetSave, At
<1>3. CASE AcceptSavePassword(c)
  <2>1. user'.mfa = user.mfa /\ user'.secret = user.secret
    BY <1>3, Accepted DEF AcceptSavePassword
  <2>2. req[c] # None /\ req[c].op = "accept" /\ req[c].pwd = "unusable"
    BY <1>3 DEF AcceptSavePassword, At, Sound
  <2> QED  BY <2>1, <2>2
<1>4. CASE MfaSetup(c)
  <2>1. user'.active = user.active /\ user'.mfa = FALSE
    BY <1>4, WithSecret DEF MfaSetup, Save
  <2> QED  BY <1>4, <2>1 DEF MfaSetup, Save, At
<1>5. CASE MfaConfirm(c)
  BY <1>5, Confirmed DEF MfaConfirm, Save, At
<1>6. CASE MfaDisable(c)
  BY <1>6, WithoutMfa DEF MfaDisable, Save, At
<1>7. CASE ChangePassword(c)
  BY <1>7, WithPassword DEF ChangePassword, Save, At
<1>8. CASE EraseMyAccount(c)
  <2>1. user'.active = FALSE /\ user'.mfa = FALSE
    BY <1>8 DEF EraseMyAccount, Save
  <2> QED  BY <1>8, <2>1 DEF EraseMyAccount, Save, At
<1> QED  BY <1>1, <1>2, <1>3, <1>4, <1>5, <1>6, <1>7, <1>8 DEF Writes

(* A deactivated account that had been activated stays deactivated, but for  *)
(* a request that loaded it before it was activated (ActivateAccountView) or *)
(* an invitation accepted with the password erasure has left                 *)
(* (AcceptInviteView).                                                       *)
THEOREM DeactivationStays ==
    Spec => DeactivationHolds
<1>1. ASSUME AccountsInv, [Next]_vars, user # None, user.verified, ~user.active, user'.active
      PROVE  \E c \in Clients :
                /\ req[c] # None
                /\ \/ req[c].op = "enter" /\ ~req[c].verified
                   \/ req[c].op = "accept" /\ req[c].pwd = "unusable"
  <2>1. user \in Users /\ user' \in Users
    BY <1>1, UserStays DEF AccountsInv, TypeOK
  <2>2. user.active = FALSE /\ user'.active # FALSE
    BY <1>1, <2>1, UserFields
  <2>3. ~Deactivate
    BY <1>1 DEF Deactivate
  <2>4. PICK c \in Clients : Writes(c)
    BY <1>1, <2>2, <2>3, OthersKeepUser
  <2> QED  BY <1>1, <2>2, <2>4, WritesFields
<1>2. AccountsInv /\ [Next]_vars =>
        [(user # None /\ user.verified /\ ~user.active) =>
          \/ ~user'.active
          \/ \E c \in Clients :
                /\ req[c] # None
                /\ \/ req[c].op = "enter" /\ ~req[c].verified
                   \/ req[c].op = "accept" /\ req[c].pwd = "unusable"]_vars
  BY <1>1
<1> QED  BY AccountsInvariant, <1>2, PTL DEF Spec, DeactivationHolds

(* MFA is never switched on without a secret, but by a confirmation that     *)
(* checked its code against a secret a disabling or an erasure has removed   *)
(* since (MfaConfirmView saves mfa_enabled alone).                           *)
THEOREM SecretIsKept ==
    Spec => MfaKeepsSecret
<1>1. ASSUME AccountsInv, [Next]_vars, user # None, user'.mfa, user'.secret = None
      PROVE  \/ user.mfa /\ user.secret = None
             \/ \E c \in Clients : /\ req[c] # None /\ req[c].op = "mfa_confirm"
                                   /\ req[c].secret # user.secret
  <2>1. user \in Users /\ user' \in Users
    BY <1>1, UserStays DEF AccountsInv, TypeOK
  <2>2. user'.mfa = TRUE /\ user.mfa \in BOOLEAN
    BY <1>1, <2>1, UserFields
  <2>3. CASE Deactivate
    BY <1>1, <2>1, <2>2, <2>3, Deactivated DEF Deactivate
  <2>4. CASE user' = user
    BY <1>1, <2>4
  <2>5. ASSUME NEW c \in Clients, Writes(c), ~(user.mfa /\ user.secret = None)
        PROVE  /\ req[c] # None /\ req[c].op = "mfa_confirm"
               /\ req[c].secret # user.secret
    <3>1. req[c] # None /\ req[c].op = "mfa_confirm" /\ user.secret = None
      BY <1>1, <2>2, <2>5, WritesFields
    <3>2. Sound(req[c])
      BY <1>1, <3>1 DEF AccountsInv, RequestInv
    <3> QED  BY <3>1, <3>2 DEF Sound
  <2> QED  BY <1>1, <2>3, <2>4, <2>5, OthersKeepUser
<1>2. AccountsInv /\ [Next]_vars =>
        [(user # None /\ user'.mfa /\ user'.secret = None) =>
          \/ user.mfa /\ user.secret = None
          \/ \E c \in Clients : /\ req[c] # None /\ req[c].op = "mfa_confirm"
                                /\ req[c].secret # user.secret]_vars
  BY <1>1
<1> QED  BY AccountsInvariant, <1>2, PTL DEF Spec, MfaKeepsSecret

-----------------------------------------------------------------------------
(* Provisioning: what is known of requests, memberships and programs.       *)

(* The members a program is to let in. *)
Joins(prog) == {prog[i].arg : i \in {j \in DOMAIN prog : prog[j].op = "join"}}
(* c is serving a request on a group. *)
OfGroup(c) == call[c] # Null /\ call[c].op = "group"

(* Members, and those that programs are to let in, are ids SCIM was told in an *)
(* answer; where it provisions accounts itself, these are of the tenant.       *)
KnownInv ==
    /\ \A t \in Teams : Members(t) \subseteq known
    /\ \A c \in Connectors : OfGroup(c) => Joins(call[c].prog) \subseteq known
    /\ config.autoProvision => known \subseteq tenant

(* The rest of a PUT once the old memberships are gone: _sync_group_members. *)
SyncOp(s) ==
    /\ s.op \in {"role", "join", "leave"}
    /\ s.op = "leave" => config.push

(* Such a rest in full. *)
Syncing(prog) == \A i \in DOMAIN prog : SyncOp(prog[i])

(* A PUT that has yet to remove the old memberships, after a new name at most *)
(* (replace_group).                                                           *)
Clearing(prog) ==
    \E k \in {1, 2} \cap DOMAIN prog :
        /\ prog[k].op = "clear" /\ (k = 2 => prog[1].op = "rename")
        /\ \A i \in DOMAIN prog : i > k => SyncOp(prog[i])

(* A PUT has still to clear the team and then to let in everybody it names; or   *)
(* those in the team and those still to be let in are everybody it names, unless *)
(* others changed the team meanwhile or the members leave it as they join.       *)
PutOnTrack(c) ==
    LET q == call[c]
    IN  /\ q.unassigned # Null => config.push
        /\ \/ Clearing(q.prog) /\ Joins(q.prog) = q.want
           \/ /\ Syncing(q.prog)
              /\ c \notin raced /\ q.unassigned # q.team =>
                   Members(q.team) \cup Joins(q.prog) = q.want

(* Every PUT in flight is on its way to exactly the members it names. *)
PutInv ==
    config.role # Null =>
        \A c \in Connectors : OfGroup(c) /\ call[c].want # Null => PutOnTrack(c)

-----------------------------------------------------------------------------
(* Programs *)

(* Statements are records of their operation and what it is about. *)
LEMMA StmtType ==
    /\ \A op \in {"join", "leave"}, r \in UserIds : Stmt(op, r) \in Statements
    /\ \A rs \in SUBSET UserIds : Stmt("remove", rs) \in Statements
    /\ \A n \in Names : Stmt("rename", n) \in Statements
    /\ \A op \in {"role", "clear", "drop"} : Stmt(op, Null) \in Statements
    /\ \A op, arg : Stmt(op, arg).op = op /\ Stmt(op, arg).arg = arg
BY DEF Stmt, Statements

(* _sync_group_members lets in exactly the members it is given, with push groups *)
(* as without.                                                                   *)
LEMMA SyncIs ==
    ASSUME NEW ms \in Seq(UserIds), config \in SsoConfigs
    PROVE  /\ Sync(ms) \in Seq(Statements) /\ Sync(ms) # <<>>
           /\ Syncing(Sync(ms)) /\ Joins(Sync(ms)) = ToSet(ms)
<1> DEFINE n == Len(ms)
           pushed == [i \in 1 .. 2 * n |->
                        Stmt(IF i % 2 = 1 THEN "join" ELSE "leave", ms[(i + 1) \div 2])]
           plain == [i \in 1 .. n |-> Stmt("join", ms[i])]
           rest == IF config.push THEN pushed ELSE plain
           m == IF config.push THEN 2 * n ELSE n
<1>1. n \in Nat /\ \A i \in 1 .. n : ms[i] \in UserIds
  OBVIOUS
<1>2. Sync(ms) = <<Stmt("role", Null)>> \o rest
  BY Zenon DEF Sync
<1> HIDE DEF n
<1>3. ASSUME config.push
      PROVE  /\ \A i \in 1 .. m : rest[i] \in Statements /\ SyncOp(rest[i])
             /\ \A i \in 1 .. m : rest[i].op = "join" => \E k \in 1 .. n : rest[i].arg = ms[k]
             /\ \A k \in 1 .. n : \E i \in 1 .. m : rest[i].op = "join" /\ rest[i].arg = ms[k]
             /\ rest \in [1 .. m -> Statements]
  <2>1. \A i \in 1 .. 2 * n : (i + 1) \div 2 \in 1 .. n
    BY <1>1
  <2>2. \A i \in 1 .. m : rest[i] = Stmt(IF i % 2 = 1 THEN "join" ELSE "leave", ms[(i + 1) \div 2])
    BY <1>3
  <2>3. \A i \in 1 .. m : rest[i] \in Statements /\ SyncOp(rest[i])
    BY <1>1, <1>3, <2>1, <2>2, StmtType DEF SyncOp
  <2>4. \A i \in 1 .. m : rest[i].op = "join" => \E k \in 1 .. n : rest[i].arg = ms[k]
    BY <1>3, <2>1, <2>2, StmtType
  <2>5. ASSUME NEW k \in 1 .. n
        PROVE  \E i \in 1 .. m : rest[i].op = "join" /\ rest[i].arg = ms[k]
    <3>1. 2 * k - 1 \in 1 .. 2 * n /\ (2 * k - 1) % 2 = 1 /\ ((2 * k - 1) + 1) \div 2 = k
      BY <1>1
    <3> QED  BY <1>3, <2>2, <3>1, StmtType
  <2>6. rest \in [1 .. m -> Statements]
    BY <1>3, <2>3
  <2> QED  BY <2>3, <2>4, <2>5, <2>6
<1>4. ASSUME ~config.push
      PROVE  /\ \A i \in 1 .. m : rest[i] \in Statements /\ SyncOp(rest[i])
             /\ \A i \in 1 .. m : rest[i].op = "join" => \E k \in 1 .. n : rest[i].arg = ms[k]
             /\ \A k \in 1 .. n : \E i \in 1 .. m : rest[i].op = "join" /\ rest[i].arg = ms[k]
             /\ rest \in [1 .. m -> Statements]
  BY <1>1, <1>4, StmtType DEF SyncOp
<1>5. m \in Nat /\ rest \in Seq(Statements) /\ Len(rest) = m
  BY <1>1, <1>3, <1>4
<1> HIDE DEF rest, m
<1>6. /\ Sync(ms) \in Seq(Statements) /\ Len(Sync(ms)) = m + 1
      /\ Sync(ms)[1] = Stmt("role", Null) /\ \A i \in 1 .. m : Sync(ms)[i + 1] = rest[i]
  BY <1>2, <1>5, StmtType
<1>7. DOMAIN Sync(ms) = 1 .. m + 1
  BY <1>5, <1>6
<1>8. \A i \in 2 .. m + 1 : i - 1 \in 1 .. m /\ Sync(ms)[i] = rest[i - 1]
  BY <1>5, <1>6
<1>9. Syncing(Sync(ms))
  BY <1>3, <1>4, <1>5, <1>6, <1>7, <1>8, StmtType DEF Syncing, SyncOp
<1>10. Joins(Sync(ms)) = ToSet(ms)
  <2>1. ASSUME NEW i \in DOMAIN Sync(ms), Sync(ms)[i].op = "join"
        PROVE  \E k \in 1 .. n : Sync(ms)[i].arg = ms[k]
    <3>1. i \in 2 .. m + 1
      BY <1>5, <1>6, <1>7, <2>1, StmtType
    <3>2. i - 1 \in 1 .. m /\ Sync(ms)[i] = rest[i - 1]
      BY <1>8, <3>1
    <3> QED  BY <1>3, <1>4, <2>1, <3>2
  <2>2. ASSUME NEW k \in 1 .. n
        PROVE  \E i \in DOMAIN Sync(ms) : Sync(ms)[i].op = "join" /\ Sync(ms)[i].arg = ms[k]
    <3>1. PICK i \in 1 .. m : rest[i].op = "join" /\ rest[i].arg = ms[k]
      BY <1>3, <1>4
    <3>2. i + 1 \in DOMAIN Sync(ms)
      BY <1>5, <1>7
    <3> QED  BY <1>6, <3>1, <3>2
  <2>3. DOMAIN ms = 1 .. n
    BY DEF n
  <2> QED  BY <2>1, <2>2, <2>3 DEF Joins, ToSet
<1> QED  BY <1>5, <1>6, <1>9, <1>10

(* Joins, member by member. *)
LEMMA JoinsAre ==
    ASSUME NEW prog, NEW x
    PROVE  x \in Joins(prog) <=> \E i \in DOMAIN prog : prog[i].op = "join" /\ prog[i].arg = x
BY DEF Joins

(* Where the elements of two sequences are once they are one. *)
LEMMA Concatenation ==
    ASSUME NEW S, NEW a \in Seq(S), NEW b \in Seq(S)
    PROVE  /\ a \o b \in Seq(S) /\ Len(a) \in Nat /\ Len(b) \in Nat
           /\ Len(a \o b) = Len(a) + Len(b) /\ DOMAIN (a \o b) = 1 .. Len(a) + Len(b)
           /\ \A i \in 1 .. Len(a) : (a \o b)[i] = a[i]
           /\ \A i \in 1 .. Len(b) : (a \o b)[Len(a) + i] = b[i]
OBVIOUS

(* replace_group clears the team before it lets in the members it is given. *)
LEMMA ReplaceIs ==
    ASSUME NEW ms \in Seq(UserIds), config \in SsoConfigs, NEW rename,
           rename = <<>> \/ \E n \in Names : rename = <<Stmt("rename", n)>>
    PROVE  /\ ReplaceProgram(rename, ms) \in Seq(Statements)
           /\ ReplaceProgram(rename, ms) # <<>>
           /\ Clearing(ReplaceProgram(rename, ms))
           /\ Joins(ReplaceProgram(rename, ms)) = ToSet(ms)
<1> DEFINE s == Sync(ms)
           head == rename \o <<Stmt("clear", Null)>>
           p == ReplaceProgram(rename, ms)
           k == Len(head)
<1>1. s \in Seq(Statements) /\ Syncing(s) /\ Joins(s) = ToSet(ms)
  BY SyncIs
<1>2. /\ head \in Seq(Statements) /\ k \in {1, 2} /\ head[k] = Stmt("clear", Null)
      /\ k = 2 => head[1].op = "rename"
  <2>1. CASE rename = <<>>
    BY <2>1, StmtType
  <2>2. CASE \E n \in Names : rename = <<Stmt("rename", n)>>
    BY <2>2, StmtType
  <2> QED  BY <2>1, <2>2
<1>3. p = head \o s
  BY DEF ReplaceProgram
<1> HIDE DEF s, head, k, p
<1>4. /\ p \in Seq(Statements) /\ p # <<>>
      /\ DOMAIN p = 1 .. k + Len(s) /\ Len(s) \in Nat
      /\ \A i \in 1 .. k : p[i] = head[i]
      /\ \A i \in 1 .. Len(s) : p[k + i] = s[i]
  <2>1. k \in Nat /\ k # 0
    BY <1>2
  <2>2. p # <<>>
    <3>1. Len(p) # 0
      BY <1>1, <1>2, <1>3, <2>1, Concatenation DEF k
    <3> QED  BY <3>1
  <2> QED  BY <1>1, <1>2, <1>3, <2>2, Concatenation DEF k
<1>5. DOMAIN s = 1 .. Len(s)
  BY <1>1
<1>6. \A i \in DOMAIN p : i > k => i - k \in DOMAIN s /\ p[i] = s[i - k]
  <2> SUFFICES ASSUME NEW i \in DOMAIN p, i > k
               PROVE  i - k \in DOMAIN s /\ p[i] = s[i - k]
    OBVIOUS
  <2>1. i - k \in 1 .. Len(s) /\ k + (i - k) = i
    BY <1>2, <1>4
  <2>2. p[k + (i - k)] = s[i - k]
    BY <1>4, <2>1
  <2> QED  BY <1>5, <2>1, <2>2
<1>7. Clearing(p)
  <2>1. k \in {1, 2} \cap DOMAIN p /\ p[k].op = "clear" /\ (k = 2 => p[1].op = "rename")
    BY <1>2, <1>4, StmtType
  <2>2. \A i \in DOMAIN p : i > k => SyncOp(p[i])
    BY <1>1, <1>6 DEF Syncing
  <2> QED  BY <2>1, <2>2 DEF Clearing
<1>8. Joins(p) = Joins(s)
  <2>1. \A i \in DOMAIN p : ~(i > k) => p[i].op # "join"
    <3> SUFFICES ASSUME NEW i \in DOMAIN p, ~(i > k)
                 PROVE  p[i].op # "join"
      OBVIOUS
    <3>1. i \in 1 .. k /\ (i = k \/ (k = 2 /\ i = 1))
      BY <1>2, <1>4
    <3> QED  BY <1>2, <1>4, <3>1, StmtType
  <2>2. \A i \in DOMAIN s : k + i \in DOMAIN p /\ p[k + i] = s[i]
    BY <1>2, <1>4, <1>5
  <2>3. \A x : x \in Joins(p) <=> x \in Joins(s)
    BY <1>6, <2>1, <2>2, JoinsAre
  <2> QED  BY <2>3
<1> QED  BY <1>1, <1>4, <1>7, <1>8 DEF p

(* What running the first statement of a program leaves of it. *)
LEMMA TailIs ==
    ASSUME NEW prog \in Seq(Statements), prog # <<>>
    PROVE  /\ Len(prog) \in Nat \ {0} /\ Head(prog) \in Statements /\ Tail(prog) \in Seq(Statements)
           /\ Head(prog).op = "join" => Joins(prog) = {Head(prog).arg} \cup Joins(Tail(prog))
           /\ Head(prog).op # "join" => Joins(prog) = Joins(Tail(prog))
           /\ Len(prog) # 1 => Tail(prog) # <<>>
           /\ Len(prog) = 1 => Joins(Tail(prog)) = {}
           /\ Syncing(prog) => SyncOp(Head(prog)) /\ Syncing(Tail(prog))
           /\ Clearing(prog) =>
                \/ Head(prog).op = "clear" /\ Syncing(Tail(prog))
                \/ Head(prog).op = "rename" /\ Clearing(Tail(prog)) /\ Len(prog) # 1
<1> DEFINE t == Tail(prog)
           n == Len(prog)
<1>1. /\ n \in Nat \ {0} /\ DOMAIN prog = 1 .. n /\ Head(prog) = prog[1] /\ prog[1] \in Statements
      /\ t \in Seq(Statements) /\ Len(t) = n - 1 /\ DOMAIN t = 1 .. n - 1
      /\ \A i \in 1 .. n - 1 : t[i] = prog[i + 1]
  OBVIOUS
<1> HIDE DEF n, t
<1>2. n # 1 => t # <<>>
  <2>1. n # 1 => Len(t) # 0
    BY <1>1
  <2> QED  BY <2>1
<1>3. /\ \A i \in DOMAIN t : i + 1 \in DOMAIN prog /\ t[i] = prog[i + 1] /\ i + 1 # 1
      /\ \A i \in DOMAIN prog : i = 1 \/ \E j \in DOMAIN t : i = j + 1 /\ prog[i] = t[j]
      /\ 1 \in DOMAIN prog
  <2>1. \A i \in DOMAIN t : i + 1 \in DOMAIN prog /\ t[i] = prog[i + 1] /\ i + 1 # 1
    BY <1>1
  <2>2. ASSUME NEW i \in DOMAIN prog, i # 1
        PROVE  \E j \in DOMAIN t : i = j + 1 /\ prog[i] = t[j]
    <3>1. i - 1 \in DOMAIN t /\ i = (i - 1) + 1
      BY <1>1, <2>2
    <3>2. prog[(i - 1) + 1] = t[i - 1]
      BY <2>1, <3>1
    <3> QED  BY <3>1, <3>2
  <2> QED  BY <1>1, <2>1, <2>2
<1> DEFINE Joined(p, i, x) == p[i].op = "join" /\ p[i].arg = x
<1>9. ASSUME NEW x
      PROVE  x \in Joins(prog) <=> Joined(prog, 1, x) \/ x \in Joins(t)
  <2>1. ASSUME NEW i \in DOMAIN prog, Joined(prog, i, x), i # 1
        PROVE  \E j \in DOMAIN t : Joined(t, j, x)
    <3>1. PICK j \in DOMAIN t : prog[i] = t[j]
      BY <1>3, <2>1
    <3> QED  BY <2>1, <3>1
  <2>2. ASSUME NEW j \in DOMAIN t, Joined(t, j, x)
        PROVE  \E i \in DOMAIN prog : Joined(prog, i, x)
    <3>1. j + 1 \in DOMAIN prog /\ prog[j + 1] = t[j]
      BY <1>3
    <3> QED  BY <2>2, <3>1
  <2> QED  BY <1>3, <2>1, <2>2, JoinsAre
<1>4. Head(prog).op = "join" => Joins(prog) = {Head(prog).arg} \cup Joins(t)
  <2> SUFFICES ASSUME Head(prog).op = "join", NEW x
               PROVE  x \in Joins(prog) <=> x = Head(prog).arg \/ x \in Joins(t)
    BY Zenon
  <2> QED  BY <1>1, <1>9
<1>5. Head(prog).op # "join" => Joins(prog) = Joins(t)
  <2> SUFFICES ASSUME Head(prog).op # "join", NEW x
               PROVE  x \in Joins(prog) <=> x \in Joins(t)
    BY Zenon
  <2> QED  BY <1>1, <1>9
<1>6. n = 1 => Joins(t) = {}
  BY <1>1 DEF Joins
<1>7. Syncing(prog) => SyncOp(Head(prog)) /\ Syncing(t)
  BY <1>1, <1>3 DEF Syncing
<1>8. ASSUME Clearing(prog)
      PROVE  \/ Head(prog).op = "clear" /\ Syncing(t)
             \/ Head(prog).op = "rename" /\ Clearing(t) /\ n # 1
  <2>1. PICK k \in {1, 2} \cap DOMAIN prog :
          /\ prog[k].op = "clear" /\ (k = 2 => prog[1].op = "rename")
          /\ \A i \in DOMAIN prog : i > k => SyncOp(prog[i])
    BY <1>8 DEF Clearing
  <2>2. CASE k = 1
    <3>1. \A i \in DOMAIN t : SyncOp(t[i])
      <4> SUFFICES ASSUME NEW i \in DOMAIN t PROVE SyncOp(t[i])
        OBVIOUS
      <4>1. i + 1 \in DOMAIN prog /\ i + 1 > 1 /\ t[i] = prog[i + 1]
        BY <1>1, <1>3
      <4> QED  BY <2>1, <2>2, <4>1
    <3> QED  BY <1>1, <2>1, <2>2, <3>1 DEF Syncing
  <2>3. CASE k = 2
    <3>1. n # 1 /\ 1 \in DOMAIN t /\ t[1].op = "clear"
      BY <1>1, <2>1, <2>3
    <3>2. \A i \in DOMAIN t : i > 1 => SyncOp(t[i])
      <4> SUFFICES ASSUME NEW i \in DOMAIN t, i > 1 PROVE SyncOp(t[i])
        OBVIOUS
      <4>1. i + 1 \in DOMAIN prog /\ i + 1 > 2 /\ t[i] = prog[i + 1]
        BY <1>1, <1>3
      <4> QED  BY <2>1, <2>3, <4>1
    <3>3. Clearing(t)
      BY <3>1, <3>2 DEF Clearing
    <3> QED  BY <1>1, <2>1, <2>3, <3>1, <3>3
  <2> QED  BY <2>1, <2>2, <2>3
<1> QED  BY <1>1, <1>2, <1>4, <1>5, <1>6, <1>7, <1>8 DEF t, n

-----------------------------------------------------------------------------
(* Requests *)

(* The fields of a request on a group. *)
LEMMA GroupCallIs ==
    ASSUME ScimTypeOK, NEW c \in Connectors, OfGroup(c)
    PROVE  /\ call[c] \in GroupCalls
           /\ call[c].team \in Teams /\ call[c].prog \in Seq(Statements)
           /\ call[c].want \in (SUBSET UserIds) \cup {Null}
           /\ call[c].unassigned \in Teams \cup {Null}
<1>1. call[c] \in GroupCalls
  BY DEF ScimTypeOK, OfGroup, Updates
<1> QED  BY <1>1 DEF GroupCalls

(* A request that goes on has one statement less, on the same team, or was at its *)
(* last.                                                                          *)
LEMMA AdvanceIs ==
    ASSUME ScimTypeOK, NEW c \in Connectors, OfGroup(c), call[c].prog # <<>>,
           NEW u \in Teams \cup {Null}, AdvanceKnowing(c, u)
    PROVE  /\ call' \in [Connectors -> Updates \cup GroupCalls \cup {Null}]
           /\ \A d \in Connectors \ {c} : call'[d] = call[d]
           /\ \/ call'[c] = Null /\ Len(call[c].prog) = 1
              \/ /\ Len(call[c].prog) # 1 /\ OfGroup(c)'
                 /\ call'[c].prog = Tail(call[c].prog) /\ call'[c].prog # <<>>
                 /\ call'[c].team = call[c].team /\ call'[c].want = call[c].want
                 /\ call'[c].unassigned = u
<1> DEFINE q == call[c]
           r == [q EXCEPT !.prog = Tail(@), !.unassigned = u]
<1>1. call \in [Connectors -> Updates \cup GroupCalls \cup {Null}] /\ q \in GroupCalls
  BY GroupCallIs DEF ScimTypeOK
<1>2. Tail(q.prog) \in Seq(Statements) /\ (Len(q.prog) # 1 => Tail(q.prog) # <<>>)
  BY TailIs, GroupCallIs
<1>3. call' = [call EXCEPT ![c] = IF Len(q.prog) = 1 THEN Null ELSE r]
  BY DEF AdvanceKnowing
<1>4. /\ r \in GroupCalls /\ r.op = "group" /\ r.prog = Tail(q.prog)
      /\ r.team = q.team /\ r.want = q.want /\ r.unassigned = u
  BY <1>1, <1>2 DEF GroupCalls
<1> HIDE DEF q, r
<1>5. r # Null
  BY <1>4, NullAssumption
<1>6. call'[c] = IF Len(q.prog) = 1 THEN Null ELSE r
  BY <1>1, <1>3
<1>7. call' \in [Connectors -> Updates \cup GroupCalls \cup {Null}]
      /\ \A d \in Connectors \ {c} : call'[d] = call[d]
  BY <1>1, <1>3, <1>4
<1> QED  BY <1>2, <1>4, <1>5, <1>6, <1>7 DEF OfGroup, q

(* A request ends and the others stay. *)
LEMMA EndIs ==
    ASSUME ScimTypeOK, NEW c \in Connectors, call' = [call EXCEPT ![c] = Null]
    PROVE  /\ call' \in [Connectors -> Updates \cup GroupCalls \cup {Null}]
           /\ call'[c] = Null /\ \A d \in Connectors \ {c} : call'[d] = call[d]
BY DEF ScimTypeOK

(* A request takes a new value and the others stay. *)
LEMMA StartIs ==
    ASSUME ScimTypeOK, NEW c \in Connectors, NEW q \in GroupCalls \cup Updates,
           call' = [call EXCEPT ![c] = q]
    PROVE  /\ call' \in [Connectors -> Updates \cup GroupCalls \cup {Null}]
           /\ call'[c] = q /\ \A d \in Connectors \ {c} : call'[d] = call[d]
BY DEF ScimTypeOK

(* A request on a group begins with its program, and the others stay. *)
LEMMA GroupRequestIs ==
    ASSUME ScimTypeOK, NEW c \in Connectors, NEW t \in Teams, NEW prog \in Seq(Statements),
           NEW want \in (SUBSET UserIds) \cup {Null}, GroupRequest(c, t, prog, want)
    PROVE  /\ call' \in [Connectors -> Updates \cup GroupCalls \cup {Null}]
           /\ \A d \in Connectors \ {c} : call'[d] = call[d]
           /\ OfGroup(c)' /\ call'[c].prog = prog /\ call'[c].want = want
           /\ call'[c].team = t /\ call'[c].unassigned = Null
<1> DEFINE q == [op |-> "group", team |-> t, prog |-> prog, want |-> want, unassigned |-> Null]
<1>1. q \in GroupCalls /\ q # Null
  <2>1. q \in GroupCalls
    BY DEF GroupCalls
  <2> QED  BY <2>1, NullAssumption
<1>2. call' = [call EXCEPT ![c] = q]
  BY DEF GroupRequest
<1>3. call'[c] = q
  BY <1>1, <1>2, StartIs
<1> QED  BY <1>1, <1>2, <1>3, StartIs DEF OfGroup

(* The members a request names are accounts SCIM was told of. *)
LEMMA MembersListed ==
    ASSUME ScimTypeOK, NEW ms \in MemberLists
    PROVE  ms \in Seq(UserIds) /\ ToSet(ms) \subseteq known /\ ToSet(ms) \in SUBSET UserIds
<1>1. PICK n \in 0 .. MaxMembers : ms \in [1 .. n -> known]
  BY DEF MemberLists
<1>2. n \in Nat /\ known \subseteq UserIds
  BY LimitsAssumption DEF ScimTypeOK
<1> QED  BY <1>1, <1>2 DEF ToSet

(* The four requests of ChangeGroup. *)
LEMMA ChangeIs ==
    ASSUME ScimTypeOK, NEW c \in Connectors, NEW t \in Teams, NEW ms \in MemberLists,
           ChangeGroup(c, t, ms)
    PROVE  \E prog \in Seq(Statements), want \in (SUBSET UserIds) \cup {Null} :
              /\ GroupRequest(c, t, prog, want) /\ Joins(prog) \subseteq known
              /\ want # Null => Clearing(prog) /\ Joins(prog) = want
<1>1. ms \in Seq(UserIds) /\ ToSet(ms) \subseteq known /\ ToSet(ms) \in SUBSET UserIds
      /\ config \in SsoConfigs
  BY MembersListed DEF ScimTypeOK
<1>2. ASSUME NEW n \in Names \cup {Null},
             GroupRequest(c, t,
                 ReplaceProgram(IF n = Null THEN <<>> ELSE <<Stmt("rename", n)>>, ms),
                 ToSet(ms))
      PROVE  \E prog \in Seq(Statements), want \in (SUBSET UserIds) \cup {Null} :
                /\ GroupRequest(c, t, prog, want) /\ Joins(prog) \subseteq known
                /\ want # Null => Clearing(prog) /\ Joins(prog) = want
  <2> DEFINE rename == IF n = Null THEN <<>> ELSE <<Stmt("rename", n)>>
             prog == ReplaceProgram(rename, ms)
  <2>1. rename = <<>> \/ \E x \in Names : rename = <<Stmt("rename", x)>>
    OBVIOUS
  <2> HIDE DEF rename
  <2>2. prog \in Seq(Statements) /\ Clearing(prog) /\ Joins(prog) = ToSet(ms)
    BY <1>1, <2>1, ReplaceIs
  <2>3. GroupRequest(c, t, prog, ToSet(ms))
    BY <1>2 DEF rename
  <2> QED  BY <1>1, <2>2, <2>3
<1>3. ASSUME NEW prog \in Seq(Statements), Joins(prog) \subseteq known,
             GroupRequest(c, t, prog, Null)
      PROVE  \E p \in Seq(Statements), want \in (SUBSET UserIds) \cup {Null} :
                /\ GroupRequest(c, t, p, want) /\ Joins(p) \subseteq known
                /\ want # Null => Clearing(p) /\ Joins(p) = want
  <2>1. Null \in (SUBSET UserIds) \cup {Null}
    BY Zenon
  <2> QED  BY <1>3, <2>1
<1>4. \A n \in Names :
        /\ <<Stmt("rename", n)>> \in Seq(Statements)
        /\ Joins(<<Stmt("rename", n)>>) = {}
  BY StmtType DEF Joins
<1>5. Sync(ms) \in Seq(Statements) /\ Joins(Sync(ms)) = ToSet(ms)
  BY <1>1, SyncIs
<1>6. /\ <<Stmt("remove", ToSet(ms))>> \in Seq(Statements)
      /\ Joins(<<Stmt("remove", ToSet(ms))>>) = {}
  BY <1>1, StmtType DEF Joins
<1> QED  BY <1>1, <1>2, <1>3, <1>4, <1>5, <1>6 DEF ChangeGroup

-----------------------------------------------------------------------------
(* Types *)

(* What the requests on users leave of a request in flight. *)
LEMMA UserTypes ==
    ASSUME ScimTypeOK, NEW c \in Connectors, UserStep(c)
    PROVE  /\ account' \in [UserIds -> AccountRows \cup {Null}]
           /\ \A r \in UserIds : account[r] # Null => account'[r] # Null
           /\ call' \in [Connectors -> Updates \cup GroupCalls \cup {Null}]
           /\ \A d \in Connectors : OfGroup(d)' => call'[d] = call[d]
           /\ requests' \in 0 .. MaxRequests /\ faults' \in 0 .. MaxFaults
           /\ config' = config
<1>1. /\ account \in [UserIds -> AccountRows \cup {Null}]
      /\ call \in [Connectors -> Updates \cup GroupCalls \cup {Null}]
      /\ requests \in 0 .. MaxRequests /\ faults \in 0 .. MaxFaults
      /\ MaxRequests \in Nat /\ config \in SsoConfigs
      /\ known \subseteq {r \in UserIds : account[r] # Null}
      /\ Null \notin AccountRows \cup Updates \cup GroupCalls
  BY LimitsAssumption, NullAssumption DEF ScimTypeOK
<1>2. BeginCall(c) => requests' \in 0 .. MaxRequests
  BY <1>1 DEF BeginCall
<1>3. ASSUME NEW e \in Emails, CreateUser(c, e)
      PROVE  /\ account' \in [UserIds -> AccountRows \cup {Null}]
             /\ \A r \in UserIds : account[r] # Null => account'[r] # Null
  <2>1. PICK r \in RowFor(e) : Provision(r, e)
    BY <1>3 DEF CreateUser
  <2>2. [email |-> e, active |-> TRUE, erased |-> FALSE] \in AccountRows
    BY DEF AccountRows
  <2>3. account' = account
        \/ account' = [account EXCEPT ![r] = [email |-> e, active |-> TRUE, erased |-> FALSE]]
    BY <2>1 DEF Provision
  <2> QED  BY <1>1, <2>2, <2>3
<1>4. ASSUME NEW r \in UserIds, NEW e \in Emails \cup {Null}, NEW a \in {Null, "yes", "no"},
             UpdateLoad(c, r, e, a)
      PROVE  /\ call' \in [Connectors -> Updates \cup GroupCalls \cup {Null}]
             /\ \A d \in Connectors : OfGroup(d)' => call'[d] = call[d]
  <2> DEFINE copy == [account[r] EXCEPT !.email = IF e = Null THEN @ ELSE e,
                                        !.active = IF a = Null \/ config.push THEN @
                                                   ELSE a = "yes"]
             q == [op |-> "update", row |-> r, todo |-> a = "no" /\ ~config.push, copy |-> copy]
  <2>1. account[r] \in AccountRows
    BY <1>1, <1>4 DEF UpdateLoad
  <2>2. copy \in AccountRows
    BY <2>1 DEF AccountRows
  <2> HIDE DEF copy
  <2>3. (a = "no" /\ ~config.push) \in BOOLEAN
    OBVIOUS
  <2>4. q \in Updates
    BY <2>2, <2>3 DEF Updates
  <2>5. call' = [call EXCEPT ![c] = q]
    BY <1>4 DEF UpdateLoad, copy
  <2>6. q.op # "group"
    OBVIOUS
  <2> HIDE DEF q
  <2> QED  BY <2>4, <2>5, <2>6, StartIs DEF OfGroup
<1>5. ASSUME UpdateDeprovision(c)
      PROVE  /\ call' \in [Connectors -> Updates \cup GroupCalls \cup {Null}]
             /\ \A d \in Connectors : OfGroup(d)' => call'[d] = call[d]
  <2>1. call[c] \in Updates
    BY <1>1, <1>5 DEF UpdateDeprovision, GroupCalls
  <2> DEFINE q == [call[c] EXCEPT !.todo = FALSE]
  <2>2. q \in Updates /\ q.op # "group"
    BY <2>1 DEF Updates
  <2>3. call' = [call EXCEPT ![c] = q]
    BY <1>5 DEF UpdateDeprovision
  <2> HIDE DEF q
  <2> QED  BY <2>2, <2>3, StartIs DEF OfGroup
<1>6. ASSUME UpdateSave(c)
      PROVE  /\ call' \in [Connectors -> Updates \cup GroupCalls \cup {Null}]
             /\ \A d \in Connectors : OfGroup(d)' => call'[d] = call[d]
             /\ account' \in [UserIds -> AccountRows \cup {Null}]
             /\ \A r \in UserIds : account[r] # Null => account'[r] # Null
  <2>1. call[c] \in Updates
    BY <1>1, <1>6 DEF UpdateSave, GroupCalls
  <2>2. call[c].row \in UserIds /\ call[c].copy \in AccountRows
    BY <2>1 DEF Updates
  <2>3. account' = account \/ account' = [account EXCEPT ![call[c].row] = call[c].copy]
    BY <1>6 DEF UpdateSave
  <2>4. call' = [call EXCEPT ![c] = Null]
    BY <1>6 DEF UpdateSave
  <2> QED  BY <1>1, <2>2, <2>3, <2>4, EndIs DEF OfGroup
<1>7. \A e \in Emails : CreateUser(c, e) =>
         /\ BeginCall(c) /\ UNCHANGED <<config, call, faults>>
  BY DEF CreateUser
<1>8. \A e \in Emails : LookUpUser(c, e) =>
         /\ BeginCall(c) /\ UNCHANGED <<account, config, call, faults>>
  BY DEF LookUpUser
<1>9. ListUsers(c) => BeginCall(c) /\ UNCHANGED <<account, config, call, faults>>
  BY DEF ListUsers
<1>10. \A r \in UserIds : DeleteUser(c, r) =>
         /\ BeginCall(c) /\ UNCHANGED <<account, config, call, faults>>
  BY DEF DeleteUser
<1>11. \A r \in UserIds, e \in Emails \cup {Null}, a \in {Null, "yes", "no"} :
          UpdateLoad(c, r, e, a) => BeginCall(c) /\ UNCHANGED <<account, config, faults>>
  BY DEF UpdateLoad
<1>12. UpdateDeprovision(c) => UNCHANGED <<account, config, requests, faults>>
  BY DEF UpdateDeprovision
<1>13. UpdateSave(c) => UNCHANGED <<config, requests, faults>>
  BY DEF UpdateSave
<1> QED  BY <1>1, <1>2, <1>3, <1>4, <1>5, <1>6, <1>7, <1>8, <1>9, <1>10, <1>11, <1>12, <1>13
         DEF UserStep

(* Enrolment lets in one account, and only into the teams it names; with a *)
(* default role it does (get_or_create of a team membership).              *)
LEMMA EnrolIs ==
    ASSUME ScimTypeOK, NEW r \in UserIds, NEW ts, role' = Enrol(r, ts)
    PROVE  /\ role' \in [Teams -> [UserIds -> Roles \cup {Null}]]
           /\ \A t \in Teams : Members(t)' \subseteq Members(t) \cup {r}
           /\ \A t \in Teams \ ts : role'[t] = role[t]
           /\ config.role # Null =>
                \A t \in Teams \cap ts : Members(t)' = Members(t) \cup {r}
<1>1. role \in [Teams -> [UserIds -> Roles \cup {Null}]] /\ config.role \in Roles \cup {Null}
  BY DEF ScimTypeOK, SsoConfigs
<1>2. \A t \in Teams : role'[t] = IF t \in ts /\ role[t][r] = Null
                                  THEN [role[t] EXCEPT ![r] = config.role] ELSE role[t]
  BY DEF Enrol
<1>3. role' \in [Teams -> [UserIds -> Roles \cup {Null}]]
  BY <1>1 DEF Enrol
<1>4. \A t \in Teams, x \in UserIds :
         role'[t][x] = IF t \in ts /\ x = r /\ role[t][r] = Null THEN config.role ELSE role[t][x]
  BY <1>1, <1>2
<1> QED  BY <1>2, <1>3, <1>4 DEF Members

(* Clearing a team, removing a member and deprovisioning let nobody in. *)
LEMMA RemovalIs ==
    ASSUME ScimTypeOK,
           \/ \E t \in Teams, x \in UserIds : role' = [role EXCEPT ![t][x] = Null]
           \/ \E t \in Teams, rs \in SUBSET UserIds : role' = Expel(t, rs)
           \/ \E t \in Teams : role' = [role EXCEPT ![t] = NoTeams]
           \/ \E r \in UserIds : role' = Deprovision(r)
           \/ role' = role
    PROVE  /\ role' \in [Teams -> [UserIds -> Roles \cup {Null}]]
           /\ \A t \in Teams : Members(t)' \subseteq Members(t)
<1>1. role \in [Teams -> [UserIds -> Roles \cup {Null}]]
  BY DEF ScimTypeOK
<1>2. ASSUME NEW t \in Teams, NEW x \in UserIds, role' = [role EXCEPT ![t][x] = Null]
      PROVE  /\ role' \in [Teams -> [UserIds -> Roles \cup {Null}]]
             /\ \A u \in Teams : Members(u)' \subseteq Members(u)
  BY <1>1, <1>2 DEF Members
<1>3. ASSUME NEW t \in Teams, role' = [role EXCEPT ![t] = NoTeams]
      PROVE  /\ role' \in [Teams -> [UserIds -> Roles \cup {Null}]]
             /\ \A u \in Teams : Members(u)' \subseteq Members(u)
  BY <1>1, <1>3 DEF Members, NoTeams
<1>4. ASSUME NEW r \in UserIds, role' = Deprovision(r)
      PROVE  /\ role' \in [Teams -> [UserIds -> Roles \cup {Null}]]
             /\ \A u \in Teams : Members(u)' \subseteq Members(u)
  <2>1. CASE role' = role
    BY <1>1, <2>1 DEF Members
  <2>2. CASE role' = [t \in Teams |-> IF t \in config.teams
                                      THEN [role[t] EXCEPT ![r] = Null] ELSE role[t]]
    BY <1>1, <2>2 DEF Members
  <2> QED  BY <1>4, <2>1, <2>2 DEF Deprovision
<1>5. ASSUME NEW t \in Teams, NEW rs \in SUBSET UserIds, role' = Expel(t, rs)
      PROVE  /\ role' \in [Teams -> [UserIds -> Roles \cup {Null}]]
             /\ \A u \in Teams : Members(u)' \subseteq Members(u)
  <2>1. /\ role' \in [Teams -> [UserIds -> Roles \cup {Null}]]
        /\ \A u \in Teams, r \in UserIds :
              role'[u][r] = IF u = t /\ r \in rs THEN Null ELSE role[u][r]
    BY <1>1, <1>5 DEF Expel
  <2> QED  BY <2>1 DEF Members
<1> QED  BY <1>1, <1>2, <1>3, <1>4, <1>5 DEF Members

(* The statements of a group request. *)
Statement(c) ==
    CheckRole(c) \/ Rename(c) \/ Clear(c) \/ Join(c) \/ Leave(c) \/ RemoveMembers(c) \/ Drop(c)

(* The statement a request is at, and what it is about. *)
LEMMA HeadIs ==
    ASSUME ScimTypeOK, NEW c \in Connectors, NEW op, Running(c, op)
    PROVE  /\ OfGroup(c) /\ call[c].prog # <<>> /\ Head(call[c].prog).op = op
           /\ op \in {"join", "leave"} => Head(call[c].prog).arg \in UserIds
           /\ op = "remove" => Head(call[c].prog).arg \in SUBSET UserIds
           /\ op = "rename" => Head(call[c].prog).arg \in Names
<1>1. OfGroup(c) /\ call[c].prog # <<>> /\ Head(call[c].prog).op = op
  BY DEF Running, OfGroup
<1>2. Head(call[c].prog) \in Statements
  BY <1>1, GroupCallIs, TailIs
<1> QED  BY <1>1, <1>2 DEF Statements

(* The request goes on, or ends. *)
GoesOn(c) ==
    \/ call' = [call EXCEPT ![c] = Null]
    \/ \E u \in Teams \cup {Null} : AdvanceKnowing(c, u)

(* A statement of a group request lets in only ids SCIM was told of, and keeps    *)
(* what the configuration says of provisioning, push groups and the default role. *)
LEMMA StatementIs ==
    ASSUME ScimTypeOK, KnownInv, NEW c \in Connectors, Statement(c)
    PROVE  /\ OfGroup(c) /\ call[c].prog # <<>> /\ GoesOn(c)
           /\ role' \in [Teams -> [UserIds -> Roles \cup {Null}]]
           /\ \A t \in Teams : Members(t)' \subseteq known
           /\ name' \in [Teams -> Names \cup {Null}]
           /\ config' \in SsoConfigs /\ config'.autoProvision = config.autoProvision
           /\ config'.push = config.push /\ config'.role = config.role
           /\ UNCHANGED <<account, tenant, known, requests, faults>>
<1>1. /\ role \in [Teams -> [UserIds -> Roles \cup {Null}]]
      /\ name \in [Teams -> Names \cup {Null}] /\ config \in SsoConfigs
      /\ Unassigned \in Names
      /\ \A t \in Teams : Members(t) \subseteq known
  BY NamesAssumption DEF ScimTypeOK, KnownInv
<1>2. ASSUME OfGroup(c) PROVE call[c].team \in Teams /\ (Advance(c) => GoesOn(c))
  BY <1>2, GroupCallIs DEF Advance, GoesOn
<1>3. CASE CheckRole(c)
  BY <1>1, <1>2, <1>3, HeadIs, RemovalIs DEF CheckRole, GoesOn
<1>4. CASE Rename(c)
  <2>1. /\ OfGroup(c) /\ call[c].prog # <<>> /\ GoesOn(c) /\ role' = role
        /\ \/ name' = name
           \/ name' = [name EXCEPT ![call[c].team] = Head(call[c].prog).arg]
        /\ Head(call[c].prog).arg \in Names
        /\ UNCHANGED <<config, account, tenant, known, requests, faults>>
    BY <1>2, <1>4, HeadIs DEF Rename, GoesOn
  <2>2. name' \in [Teams -> Names \cup {Null}]
    BY <1>1, <2>1
  <2> QED  BY <1>1, <2>1, <2>2, RemovalIs
<1>5. CASE Clear(c)
  <2>1. OfGroup(c) /\ call[c].prog # <<>> /\ GoesOn(c)
        /\ role' = [role EXCEPT ![call[c].team] = NoTeams]
        /\ UNCHANGED <<account, tenant, name, config, known, requests, faults>>
    BY <1>2, <1>5, HeadIs DEF Clear
  <2> QED  BY <1>1, <1>2, <2>1, RemovalIs
<1>6. CASE Join(c)
  <2>1. /\ OfGroup(c) /\ call[c].prog # <<>> /\ GoesOn(c)
        /\ role' = role \/ role' = Enrol(Head(call[c].prog).arg, {call[c].team})
        /\ Head(call[c].prog).op = "join" /\ Head(call[c].prog).arg \in UserIds
        /\ UNCHANGED <<account, tenant, name, config, known, requests, faults>>
    BY <1>2, <1>6, HeadIs DEF Join, GoesOn
  <2>2. Head(call[c].prog).arg \in Joins(call[c].prog)
    BY <2>1, GroupCallIs, TailIs
  <2>3. Head(call[c].prog).arg \in known
    BY <2>1, <2>2 DEF KnownInv
  <2>4. role' \in [Teams -> [UserIds -> Roles \cup {Null}]]
        /\ \A t \in Teams : Members(t)' \subseteq known
    BY <1>1, <2>1, <2>3, EnrolIs, RemovalIs
  <2> QED  BY <1>1, <2>1, <2>4
<1>7. CASE Leave(c)
  <2>1. /\ OfGroup(c) /\ call[c].prog # <<>> /\ Head(call[c].prog).arg \in UserIds
        /\ UNCHANGED <<account, tenant, config, known, requests, faults>>
    BY <1>7, HeadIs DEF Leave
  <2>2. PICK t \in TeamLeft(c) :
          /\ name' = IF call[c].unassigned = Null THEN [name EXCEPT ![t] = Unassigned] ELSE name
          /\ role' = [role EXCEPT ![t][Head(call[c].prog).arg] = Null]
          /\ AdvanceKnowing(c, t)
    BY <1>7 DEF Leave
  <2>3. t \in Teams
    BY <2>1, GroupCallIs DEF TeamLeft, NamedOrNew, Named
  <2>4. name' \in [Teams -> Names \cup {Null}]
    BY <1>1, <2>2, <2>3
  <2>5. role' \in [Teams -> [UserIds -> Roles \cup {Null}]]
        /\ \A u \in Teams : Members(u)' \subseteq known
    BY <1>1, <2>1, <2>2, <2>3, RemovalIs
  <2>6. GoesOn(c)
    BY <2>2, <2>3 DEF GoesOn
  <2> QED  BY <1>1, <2>1, <2>4, <2>5, <2>6
<1>8. CASE RemoveMembers(c)
  <2>1. /\ OfGroup(c) /\ call[c].prog # <<>> /\ GoesOn(c)
        /\ Head(call[c].prog).arg \in SUBSET UserIds
        /\ role' = Expel(call[c].team, Head(call[c].prog).arg)
        /\ UNCHANGED <<account, tenant, name, config, known, requests, faults>>
    BY <1>2, <1>8, HeadIs DEF RemoveMembers
  <2> QED  BY <1>1, <1>2, <2>1, RemovalIs
<1>9. CASE Drop(c)
  <2>1. /\ OfGroup(c) /\ call[c].prog # <<>> /\ GoesOn(c)
        /\ role' = [role EXCEPT ![call[c].team] = NoTeams]
        /\ name' = [name EXCEPT ![call[c].team] = Null]
        /\ config' = [config EXCEPT !.teams = @ \ {call[c].team}]
        /\ UNCHANGED <<account, tenant, known, requests, faults>>
    BY <1>2, <1>9, HeadIs DEF Drop
  <2>2. config' \in SsoConfigs /\ config'.autoProvision = config.autoProvision
        /\ config'.push = config.push /\ config'.role = config.role
    BY <1>1, <2>1 DEF SsoConfigs
  <2>3. name' \in [Teams -> Names \cup {Null}]
    BY <1>1, <2>1
  <2> QED  BY <1>1, <1>2, <2>1, <2>2, <2>3, RemovalIs
<1> QED  BY <1>3, <1>4, <1>5, <1>6, <1>7, <1>8, <1>9 DEF Statement

(* What the requests on users change of memberships. *)
LEMMA UserMembers ==
    ASSUME ScimTypeOK, KnownInv, NEW c \in Connectors, UserStep(c)
    PROVE  /\ role' \in [Teams -> [UserIds -> Roles \cup {Null}]]
           /\ name' \in [Teams -> Names \cup {Null}]
           /\ known \subseteq known' /\ tenant \subseteq tenant'
           /\ known' \subseteq {r \in UserIds : account'[r] # Null}
           /\ tenant' \subseteq UserIds
           /\ \A t \in Teams : Members(t)' \subseteq known'
           /\ config.autoProvision => known' \subseteq tenant'
<1>1. /\ role \in [Teams -> [UserIds -> Roles \cup {Null}]]
      /\ name \in [Teams -> Names \cup {Null}] /\ Unassigned \in Names
      /\ known \subseteq {r \in UserIds : account[r] # Null} /\ tenant \subseteq UserIds
      /\ account \in [UserIds -> AccountRows \cup {Null}]
      /\ \A t \in Teams : Members(t) \subseteq known
      /\ config.autoProvision => known \subseteq tenant
  BY NamesAssumption DEF ScimTypeOK, KnownInv
<1>2. \A r \in UserIds : account[r] # Null => account'[r] # Null
  BY UserTypes
<1>3. ASSUME NEW e \in Emails, CreateUser(c, e)
      PROVE  /\ role' \in [Teams -> [UserIds -> Roles \cup {Null}]]
             /\ name' \in [Teams -> Names \cup {Null}]
             /\ known \subseteq known' /\ tenant \subseteq tenant'
             /\ known' \subseteq {r \in UserIds : account'[r] # Null}
             /\ tenant' \subseteq UserIds
             /\ \A t \in Teams : Members(t)' \subseteq known'
             /\ config.autoProvision => known' \subseteq tenant'
  <2>1. PICK r \in RowFor(e) : Provision(r, e) /\ known' = known \cup {r}
    BY <1>3 DEF CreateUser
  <2>2. r \in UserIds
    BY <2>1 DEF RowFor, FindUser
  <2>3. tenant' = tenant \cup {r}
    BY <2>1 DEF Provision, EnrolInTenant
  <2>4. account'[r] # Null
    <3>1. CASE FindUser(e) = {}
      <4>1. account' = [account EXCEPT ![r] = [email |-> e, active |-> TRUE, erased |-> FALSE]]
        BY <2>1, <3>1 DEF Provision
      <4>2. [email |-> e, active |-> TRUE, erased |-> FALSE] \in AccountRows
        BY DEF AccountRows
      <4> QED  BY <1>1, <2>2, <4>1, <4>2, NullAssumption
    <3>2. CASE FindUser(e) # {}
      BY <2>1, <3>2 DEF RowFor, FindUser, Provision
    <3> QED  BY <3>1, <3>2
  <2>5. PICK ts \in TargetTeams :
          /\ role' = Enrol(r, ts)
          /\ name' = [t \in Teams |-> IF t \in ts /\ name[t] = Null THEN Unassigned ELSE name[t]]
    BY <2>1 DEF Provision
  <2>6. name' \in [Teams -> Names \cup {Null}]
    BY <1>1, <2>5
  <2>7. role' \in [Teams -> [UserIds -> Roles \cup {Null}]]
        /\ \A t \in Teams : Members(t)' \subseteq known \cup {r}
    BY <1>1, <2>2, <2>5, EnrolIs
  <2> QED  BY <1>1, <1>2, <2>1, <2>2, <2>3, <2>4, <2>6, <2>7
<1>4. ASSUME \/ \E e \in Emails : LookUpUser(c, e)
             \/ ListUsers(c)
             \/ \E r \in UserIds : DeleteUser(c, r)
             \/ \E r \in UserIds, e \in Emails \cup {Null}, a \in {Null, "yes", "no"} :
                   UpdateLoad(c, r, e, a)
             \/ UpdateDeprovision(c)
             \/ UpdateSave(c)
      PROVE  /\ role' = role \/ \E r \in UserIds : role' = Deprovision(r)
             /\ UNCHANGED <<name, tenant>>
             /\ known \subseteq known'
             /\ \A r \in known' : r \in UserIds /\ account[r] # Null
             /\ config.autoProvision => known' = known
  <2>1. ASSUME NEW e \in Emails, LookUpUser(c, e)
        PROVE  /\ UNCHANGED <<name, tenant, role>>
               /\ known' = known \cup FindUser(e) /\ ~config.autoProvision
    BY <2>1 DEF LookUpUser
  <2>2. ListUsers(c) => /\ UNCHANGED <<name, tenant, role>>
                        /\ known' = known \cup ProjectUsers
    BY DEF ListUsers
  <2>3. ProjectUsers \subseteq known
    BY <1>1 DEF ProjectUsers
  <2>4. \A r \in UserIds : DeleteUser(c, r) => /\ UNCHANGED <<name, tenant, known>>
                                               /\ role' = Deprovision(r)
    BY DEF DeleteUser
  <2>5. \A r \in UserIds, e \in Emails \cup {Null}, a \in {Null, "yes", "no"} :
           UpdateLoad(c, r, e, a) => UNCHANGED <<name, tenant, known, role>>
    BY DEF UpdateLoad
  <2>6. UpdateDeprovision(c) => /\ UNCHANGED <<name, tenant, known>>
                                /\ \E r \in UserIds : role' = Deprovision(r)
    <3>1. UpdateDeprovision(c) => call[c].row \in UserIds
      BY DEF UpdateDeprovision, ScimTypeOK, Updates, GroupCalls
    <3> QED  BY <3>1 DEF UpdateDeprovision
  <2>7. UpdateSave(c) => UNCHANGED <<name, tenant, known, role>>
    BY DEF UpdateSave
  <2>8. \A e : \A r \in FindUser(e) : r \in UserIds /\ account[r] # Null
    BY DEF FindUser
  <2> QED  BY <1>1, <1>4, <2>1, <2>2, <2>3, <2>4, <2>5, <2>6, <2>7, <2>8
<1>5. ASSUME role' = role \/ \E r \in UserIds : role' = Deprovision(r),
             UNCHANGED <<name, tenant>>, known \subseteq known',
             \A r \in known' : r \in UserIds /\ account[r] # Null,
             config.autoProvision => known' = known
      PROVE  /\ role' \in [Teams -> [UserIds -> Roles \cup {Null}]]
             /\ name' \in [Teams -> Names \cup {Null}]
             /\ known \subseteq known' /\ tenant \subseteq tenant'
             /\ known' \subseteq {r \in UserIds : account'[r] # Null}
             /\ tenant' \subseteq UserIds
             /\ \A t \in Teams : Members(t)' \subseteq known'
             /\ config.autoProvision => known' \subseteq tenant'
  <2>1. role' \in [Teams -> [UserIds -> Roles \cup {Null}]]
        /\ \A t \in Teams : Members(t)' \subseteq Members(t)
    BY <1>5, RemovalIs
  <2> QED  BY <1>1, <1>2, <1>5, <2>1
<1> QED  BY <1>3, <1>4, <1>5 DEF UserStep

(* A request that goes on or ends. *)
LEMMA GoesOnIs ==
    ASSUME ScimTypeOK, NEW c \in Connectors, OfGroup(c), call[c].prog # <<>>, GoesOn(c)
    PROVE  /\ call' \in [Connectors -> Updates \cup GroupCalls \cup {Null}]
           /\ \A d \in Connectors \ {c} : call'[d] = call[d]
           /\ OfGroup(c)' => /\ call'[c].prog = Tail(call[c].prog)
                             /\ Joins(call'[c].prog) \subseteq Joins(call[c].prog)
<1>1. CASE call' = [call EXCEPT ![c] = Null]
  BY <1>1, EndIs DEF OfGroup
<1>2. ASSUME NEW u \in Teams \cup {Null}, AdvanceKnowing(c, u)
      PROVE  /\ call' \in [Connectors -> Updates \cup GroupCalls \cup {Null}]
             /\ \A d \in Connectors \ {c} : call'[d] = call[d]
             /\ OfGroup(c)' => call'[c].prog = Tail(call[c].prog)
  BY <1>2, AdvanceIs DEF OfGroup
<1>3. Joins(Tail(call[c].prog)) \subseteq Joins(call[c].prog)
  BY GroupCallIs, TailIs
<1> QED  BY <1>1, <1>2, <1>3 DEF GoesOn

(* A request on a group begins. *)
GroupStart(c) ==
    \/ \E n \in Names, ms \in MemberLists : CreateGroup(c, n, ms)
    \/ \E t \in Teams, ms \in MemberLists : ChangeGroup(c, t, ms)
    \/ \E t \in Teams : DeleteGroup(c, t)

(* A request on a group lets in only ids SCIM was told of; a PUT clears first and *)
(* then lets in exactly whom it names.                                            *)
LEMMA GroupStartIs ==
    ASSUME ScimTypeOK, NEW c \in Connectors, GroupStart(c)
    PROVE  /\ \E t \in Teams, prog \in Seq(Statements), want \in (SUBSET UserIds) \cup {Null} :
                /\ GroupRequest(c, t, prog, want) /\ Joins(prog) \subseteq known
                /\ want # Null => Clearing(prog) /\ Joins(prog) = want
           /\ name' \in [Teams -> Names \cup {Null}] /\ requests' \in 0 .. MaxRequests
           /\ call[c] = Null
           /\ UNCHANGED <<account, tenant, role, config, known, faults>>
<1>1. /\ name \in [Teams -> Names \cup {Null}] /\ config \in SsoConfigs
      /\ requests \in 0 .. MaxRequests /\ MaxRequests \in Nat
  BY LimitsAssumption DEF ScimTypeOK
<1>2. BeginCall(c) => call[c] = Null /\ requests' \in 0 .. MaxRequests
  BY <1>1 DEF BeginCall
<1>3. Null \in (SUBSET UserIds) \cup {Null}
  BY Zenon
<1>4. ASSUME NEW n \in Names, NEW ms \in MemberLists, CreateGroup(c, n, ms)
      PROVE  /\ \E t \in Teams, prog \in Seq(Statements) :
                  GroupRequest(c, t, prog, Null) /\ Joins(prog) \subseteq known
             /\ name' \in [Teams -> Names \cup {Null}]
             /\ BeginCall(c)
             /\ UNCHANGED <<account, tenant, role, config, known, faults>>
  <2>1. PICK t \in NamedOrNew(n) :
          name' = [name EXCEPT ![t] = n] /\ GroupRequest(c, t, Sync(ms), Null)
    BY <1>4 DEF CreateGroup
  <2>2. t \in Teams
    BY <2>1 DEF NamedOrNew, Named
  <2>3. Sync(ms) \in Seq(Statements) /\ Joins(Sync(ms)) \subseteq known
    BY <1>1, MembersListed, SyncIs
  <2>4. name' \in [Teams -> Names \cup {Null}]
    BY <1>1, <2>1, <2>2
  <2> QED  BY <1>4, <2>1, <2>2, <2>3, <2>4 DEF CreateGroup
<1>5. ASSUME NEW t \in Teams, NEW ms \in MemberLists, ChangeGroup(c, t, ms)
      PROVE  BeginCall(c) /\ UNCHANGED <<account, tenant, name, role, config, known, faults>>
  BY <1>5 DEF ChangeGroup
<1>6. ASSUME NEW t \in Teams, DeleteGroup(c, t)
      PROVE  /\ \E u \in Teams, prog \in Seq(Statements) :
                  GroupRequest(c, u, prog, Null) /\ Joins(prog) \subseteq known
             /\ BeginCall(c) /\ UNCHANGED <<account, tenant, name, role, config, known, faults>>
  <2> DEFINE prog == <<Stmt("clear", Null), Stmt("drop", Null)>>
  <2>1. prog \in Seq(Statements)
    BY StmtType
  <2>2. \A i \in DOMAIN prog : prog[i].op # "join"
    BY StmtType
  <2>3. GroupRequest(c, t, prog, Null)
        /\ BeginCall(c) /\ UNCHANGED <<account, tenant, name, role, config, known, faults>>
    BY <1>6 DEF DeleteGroup
  <2> HIDE DEF prog
  <2>4. Joins(prog) = {}
    BY <2>2 DEF Joins
  <2> QED  BY <2>1, <2>3, <2>4
<1> QED  BY <1>1, <1>2, <1>3, <1>4, <1>5, <1>6, ChangeIs DEF GroupStart

(* The kinds of step there are. *)
LEMMA StepKinds ==
    ASSUME ScimNext
    PROVE  /\ \/ \E c \in Connectors : UserStep(c) \/ GroupStart(c) \/ Statement(c) \/ CrashCall(c)
              \/ \E r \in UserIds : EraseUser(r)
           /\ TrackRaces
BY DEF ScimNext, GroupStep, GroupStart, Statement

(* Every step keeps the types and the rule that members are known ids. *)
LEMMA ScimTypeStep ==
    ASSUME ScimTypeOK, KnownInv, [ScimNext]_scimVars
    PROVE  ScimTypeOK' /\ KnownInv'
<1>1. /\ account \in [UserIds -> AccountRows \cup {Null}]
      /\ call \in [Connectors -> Updates \cup GroupCalls \cup {Null}]
      /\ role \in [Teams -> [UserIds -> Roles \cup {Null}]]
      /\ config \in SsoConfigs /\ faults \in 0 .. MaxFaults /\ MaxFaults \in Nat
      /\ \A t \in Teams : Members(t) \subseteq known
      /\ \A d \in Connectors : OfGroup(d) => Joins(call[d].prog) \subseteq known
      /\ config.autoProvision => known \subseteq tenant
  BY LimitsAssumption DEF ScimTypeOK, KnownInv
<1>2. ASSUME TrackRaces
      PROVE  raced' \subseteq Connectors
  BY <1>2 DEF TrackRaces
<1>3. ASSUME NEW c \in Connectors, UserStep(c), TrackRaces
      PROVE  ScimTypeOK' /\ KnownInv'
  <2>1. ScimTypeOK'
    BY <1>1, <1>2, <1>3, UserTypes, UserMembers DEF ScimTypeOK
  <2>2. KnownInv'
    <3>1. \A d \in Connectors : OfGroup(d)' => call'[d] = call[d]
          /\ config' = config
      BY <1>3, UserTypes
    <3>2. ASSUME NEW d \in Connectors, OfGroup(d)'
          PROVE  Joins(call'[d].prog) \subseteq known'
      <4>1. call'[d] = call[d] /\ OfGroup(d)
        BY <3>1, <3>2 DEF OfGroup
      <4> QED  BY <1>1, <1>3, <4>1, UserMembers
    <3>3. config' = config
      BY <1>3, UserTypes
    <3> QED  BY <1>3, <3>2, <3>3, UserMembers DEF KnownInv
  <2> QED  BY <2>1, <2>2
<1>4. ASSUME NEW c \in Connectors, Statement(c), TrackRaces
      PROVE  ScimTypeOK' /\ KnownInv'
  <2>1. /\ call' \in [Connectors -> Updates \cup GroupCalls \cup {Null}]
        /\ \A d \in Connectors \ {c} : call'[d] = call[d]
        /\ OfGroup(c)' => Joins(call'[c].prog) \subseteq Joins(call[c].prog)
        /\ OfGroup(c)
    BY <1>4, StatementIs, GoesOnIs
  <2>2. ScimTypeOK'
    BY <1>2, <1>4, <2>1, StatementIs DEF ScimTypeOK
  <2>3. \A d \in Connectors : OfGroup(d)' => Joins(call'[d].prog) \subseteq known
    BY <1>1, <2>1 DEF OfGroup
  <2> QED  BY <1>1, <1>4, <2>2, <2>3, StatementIs DEF KnownInv
<1>5. ASSUME NEW c \in Connectors, GroupStart(c), TrackRaces
      PROVE  ScimTypeOK' /\ KnownInv'
  <2>1. PICK t \in Teams, prog \in Seq(Statements), want \in (SUBSET UserIds) \cup {Null} :
          GroupRequest(c, t, prog, want) /\ Joins(prog) \subseteq known
    BY <1>5, GroupStartIs
  <2>2. /\ call' \in [Connectors -> Updates \cup GroupCalls \cup {Null}]
        /\ \A d \in Connectors \ {c} : call'[d] = call[d]
        /\ call'[c].prog = prog
    BY <2>1, GroupRequestIs
  <2>3. \A d \in Connectors : OfGroup(d)' => Joins(call'[d].prog) \subseteq known
    BY <1>1, <2>1, <2>2 DEF OfGroup
  <2>4. ScimTypeOK'
    BY <1>2, <1>5, <2>2, GroupStartIs DEF ScimTypeOK
  <2>5. KnownInv'
    BY <1>1, <1>5, <2>3, GroupStartIs DEF KnownInv, Members
  <2> QED  BY <2>4, <2>5
<1>6. ASSUME NEW c \in Connectors, CrashCall(c), TrackRaces
      PROVE  ScimTypeOK' /\ KnownInv'
  <2>1. /\ call' \in [Connectors -> Updates \cup GroupCalls \cup {Null}]
        /\ call'[c] = Null /\ \A d \in Connectors \ {c} : call'[d] = call[d]
        /\ UNCHANGED <<account, tenant, name, role, config, known, requests>>
    BY <1>6, EndIs DEF CrashCall
  <2>2. faults' \in 0 .. MaxFaults
    BY <1>1, <1>6 DEF CrashCall
  <2>3. \A d \in Connectors : OfGroup(d)' => Joins(call'[d].prog) \subseteq known
    BY <1>1, <2>1 DEF OfGroup
  <2>4. ScimTypeOK'
    BY <1>2, <1>6, <2>1, <2>2 DEF ScimTypeOK
  <2>5. KnownInv'
    BY <1>1, <2>1, <2>3 DEF KnownInv, Members
  <2> QED  BY <2>4, <2>5
<1>7. ASSUME NEW r \in UserIds, EraseUser(r), TrackRaces
      PROVE  ScimTypeOK' /\ KnownInv'
  <2>1. /\ account' = [account EXCEPT ![r] = [email |-> Anon, active |-> FALSE, erased |-> TRUE]]
        /\ UNCHANGED <<tenant, name, role, config, known, call, requests>>
    BY <1>7 DEF EraseUser
  <2>2. [email |-> Anon, active |-> FALSE, erased |-> TRUE] \in AccountRows
    BY DEF AccountRows
  <2>3. account' \in [UserIds -> AccountRows \cup {Null}]
        /\ \A x \in UserIds : account[x] # Null => account'[x] # Null
    BY <1>1, <2>1, <2>2, NullAssumption
  <2>4. faults' \in 0 .. MaxFaults
    BY <1>1, <1>7 DEF EraseUser
  <2>5. ScimTypeOK'
    BY <1>2, <1>7, <2>1, <2>3, <2>4 DEF ScimTypeOK
  <2>6. KnownInv'
    BY <1>1, <2>1 DEF KnownInv, Members, OfGroup
  <2> QED  BY <2>5, <2>6
<1>8. CASE UNCHANGED scimVars
  <2>1. ScimTypeOK'
    BY <1>8 DEF ScimTypeOK, scimVars
  <2>2. KnownInv'
    BY <1>1, <1>8 DEF KnownInv, Members, OfGroup, scimVars
  <2> QED  BY <2>1, <2>2
<1> QED  BY <1>3, <1>4, <1>5, <1>6, <1>7, <1>8, StepKinds

-----------------------------------------------------------------------------
(* The members a PUT leaves *)

(* While others work a request stays on track, unless they change its team. *)
LEMMA OthersTrack ==
    ASSUME ScimTypeOK, NEW d \in Connectors, OfGroup(d), PutOnTrack(d), call'[d] = call[d],
           config'.push = config.push, TrackRaces
    PROVE  PutOnTrack(d)'
<1> DEFINE p == call[d].prog
           t == call[d].team
<1>1. call'[d].prog = p /\ call'[d].team = t /\ call'[d].want = call[d].want
      /\ call'[d].unassigned = call[d].unassigned
  OBVIOUS
<1>2. Clearing(p) => Clearing(call[d].prog)'
  BY DEF Clearing, SyncOp
<1>3. Syncing(p) => Syncing(call[d].prog)'
  BY DEF Syncing, SyncOp
<1>4. Joins(call[d].prog)' = Joins(p)
  BY DEF Joins
<1>5. d \notin raced' => d \notin raced /\ role'[t] = role[t]
  BY DEF TrackRaces, OfGroup
<1>6. d \notin raced' => Members(call[d].team)' = Members(t)
  BY <1>1, <1>5 DEF Members
<1> HIDE DEF p, t
<1>7. CASE Clearing(p) /\ Joins(p) = call[d].want
  BY <1>1, <1>2, <1>4, <1>7 DEF PutOnTrack
<1>8. CASE Syncing(p) /\ (d \notin raced /\ call[d].unassigned # t =>
                            Members(t) \cup Joins(p) = call[d].want)
  BY <1>1, <1>3, <1>4, <1>5, <1>6, <1>8 DEF PutOnTrack
<1> QED  BY <1>7, <1>8 DEF PutOnTrack, p, t

(* Who is in a team after a step. *)
MembersNext(t) == {r \in UserIds : role'[t][r] # Null}

(* With a default role a join adds its account to the team. *)
LEMMA EnrolNext ==
    ASSUME ScimTypeOK, NEW r \in UserIds, NEW t \in Teams, config.role # Null,
           role' = Enrol(r, {t})
    PROVE  MembersNext(t) = Members(t) \cup {r}
<1>1. \A u \in Teams \cap {t} : Members(u)' = Members(u) \cup {r}
  BY EnrolIs
<1>2. Members(t)' = Members(t) \cup {r}
  BY <1>1
<1> QED  BY <1>2 DEF Members, MembersNext

(* A statement of a PUT brings the members nearer to the ones it names, or     *)
(* ends the request before its last statement or with its team gone.           *)
LEMMA StatementTracks ==
    ASSUME ScimTypeOK, NEW c \in Connectors, Statement(c), config.role # Null,
           call[c].want # Null, PutOnTrack(c)
    PROVE  \/ /\ call' = [call EXCEPT ![c] = Null]
              /\ Len(call[c].prog) # 1 \/ name[call[c].team] = Null
           \/ \E u \in Teams \cup {Null} :
                /\ AdvanceKnowing(c, u)
                /\ u # Null => config.push /\ u \in TeamLeft(c)
                /\ \/ /\ Clearing(Tail(call[c].prog)) /\ Len(call[c].prog) # 1
                      /\ Joins(Tail(call[c].prog)) = call[c].want
                   \/ /\ Syncing(Tail(call[c].prog))
                      /\ c \notin raced /\ u # call[c].team =>
                           MembersNext(call[c].team) \cup Joins(Tail(call[c].prog)) = call[c].want
<1> DEFINE p == call[c].prog
           t == call[c].team
           u0 == call[c].unassigned
           M == Members(t)
           Good(u) == \/ /\ Clearing(Tail(p)) /\ Len(p) # 1
                         /\ Joins(Tail(p)) = call[c].want
                      \/ /\ Syncing(Tail(p))
                         /\ c \notin raced /\ u # t =>
                              MembersNext(t) \cup Joins(Tail(p)) = call[c].want
<1>0. OfGroup(c) /\ p # <<>>
  BY HeadIs DEF Statement, CheckRole, Rename, Clear, Join, Leave, RemoveMembers, Drop
<1>1. /\ p \in Seq(Statements) /\ t \in Teams /\ u0 \in Teams \cup {Null}
      /\ role \in [Teams -> [UserIds -> Roles \cup {Null}]]
  BY <1>0, GroupCallIs DEF ScimTypeOK
<1>2. u0 # Null => config.push /\ u0 \in TeamLeft(c)
  BY DEF PutOnTrack, TeamLeft
<1>3. \/ Clearing(p) /\ Joins(p) = call[c].want
      \/ Syncing(p) /\ (c \notin raced /\ u0 # t => M \cup Joins(p) = call[c].want)
  BY DEF PutOnTrack
<1>4. \/ Head(p).op = "clear" /\ Syncing(Tail(p))
      \/ Head(p).op = "rename" /\ Clearing(Tail(p)) /\ Len(p) # 1
      \/ SyncOp(Head(p)) /\ Syncing(p) /\ Syncing(Tail(p))
  BY <1>0, <1>1, <1>3, TailIs
<1>5. /\ Head(p).op = "join" => Joins(p) = {Head(p).arg} \cup Joins(Tail(p))
      /\ Head(p).op # "join" => Joins(p) = Joins(Tail(p))
  BY <1>0, <1>1, TailIs
<1>6. Head(p).op \in {"clear", "rename"} => Clearing(p)
  BY <1>0, <1>1, <1>3, TailIs DEF SyncOp
<1>7. Head(p).op \in {"role", "join", "leave"} =>
        /\ Syncing(Tail(p)) /\ SyncOp(Head(p))
        /\ c \notin raced /\ u0 # t => M \cup Joins(p) = call[c].want
  BY <1>0, <1>1, <1>3, TailIs
<1>8. Head(p).op \in {"role", "join", "leave", "clear", "rename"}
  BY <1>4 DEF SyncOp
<1>9. CASE CheckRole(c)
  <2>1. Head(p).op = "role" /\ AdvanceKnowing(c, u0) /\ MembersNext(t) = M
    BY <1>9, HeadIs DEF CheckRole, Advance, Members, MembersNext
  <2>2. Good(u0)
    BY <1>5, <1>7, <2>1
  <2> QED  BY <1>1, <1>2, <2>1, <2>2
<1>10. CASE Rename(c)
  <2>1. Head(p).op = "rename"
    BY <1>10, HeadIs DEF Rename
  <2>2. Clearing(Tail(p)) /\ Len(p) # 1
    BY <1>4, <2>1 DEF SyncOp
  <2>3. ~Syncing(p)
    BY <1>0, <1>1, <2>1, TailIs DEF SyncOp
  <2>4. Good(u0)
    BY <1>3, <1>5, <2>1, <2>2, <2>3
  <2>5. call' = [call EXCEPT ![c] = Null] \/ AdvanceKnowing(c, u0)
    BY <1>10 DEF Rename, Advance
  <2> QED  BY <1>1, <1>2, <2>2, <2>4, <2>5
<1>11. CASE Clear(c)
  <2>1. Head(p).op = "clear" /\ AdvanceKnowing(c, u0) /\ role' = [role EXCEPT ![t] = NoTeams]
    BY <1>11, HeadIs DEF Clear, Advance
  <2>2. MembersNext(t) = {}
    <3>1. role'[t] = NoTeams /\ t = call[c].team
      BY <1>1, <2>1
    <3>2. \A r \in UserIds : role'[t][r] = Null
      BY <3>1 DEF NoTeams
    <3> QED  BY <3>2 DEF MembersNext
  <2>3. ~Syncing(p) /\ Syncing(Tail(p))
    BY <1>0, <1>1, <1>4, <2>1, TailIs DEF SyncOp
  <2>4. Good(u0)
    BY <1>3, <1>5, <2>1, <2>2, <2>3
  <2> QED  BY <1>1, <1>2, <2>1, <2>4
<1>12. CASE Join(c)
  <2>1. Head(p).op = "join" /\ Head(p).arg \in UserIds
    BY <1>12, HeadIs DEF Join
  <2>2. CASE name[t] = Null
    BY <1>12, <2>2 DEF Join
  <2>3. CASE name[t] # Null
    <3>1. role' = Enrol(Head(p).arg, {t}) /\ AdvanceKnowing(c, u0)
      BY <1>12, <2>3 DEF Join, Advance
    <3>2. MembersNext(t) = M \cup {Head(p).arg}
      BY <1>1, <2>1, <3>1, EnrolNext
    <3>3. Good(u0)
      BY <1>5, <1>7, <2>1, <3>2
    <3> QED  BY <1>1, <1>2, <3>1, <3>3
  <2> QED  BY <2>2, <2>3
<1>13. CASE Leave(c)
  <2>1. Head(p).op = "leave" /\ Head(p).arg \in UserIds
    BY <1>13, HeadIs DEF Leave
  <2>2. PICK u \in TeamLeft(c) :
          role' = [role EXCEPT ![u][Head(p).arg] = Null] /\ AdvanceKnowing(c, u)
    BY <1>13 DEF Leave
  <2>3. u \in Teams /\ u # Null /\ config.push
    <3>1. u \in Teams
      BY <1>1 DEF TeamLeft, NamedOrNew, Named
    <3> QED  BY <1>7, <2>1, <3>1, NullAssumption DEF SyncOp
  <2>4. u # t => MembersNext(t) = M
    BY <1>1, <2>2, <2>3 DEF Members, MembersNext
  <2>5. u # t => u0 # t
    BY <1>1, <2>2, NullAssumption DEF TeamLeft
  <2>6. Good(u)
    BY <1>5, <1>7, <2>1, <2>4, <2>5
  <2> QED  BY <2>2, <2>3, <2>6
<1>14. CASE RemoveMembers(c) \/ Drop(c)
  <2>1. Head(p).op \in {"remove", "drop"}
    BY <1>14, HeadIs DEF RemoveMembers, Drop
  <2> QED  BY <1>8, <2>1
<1> QED  BY <1>9, <1>10, <1>11, <1>12, <1>13, <1>14 DEF Statement

(* What keeps a request on track, told of its next state. *)
LEMMA OnTrackNext ==
    ASSUME NEW d \in Connectors, config'.push = config.push,
           call'[d].unassigned # Null => config.push,
           \/ Clearing(call'[d].prog) /\ Joins(call'[d].prog) = call'[d].want
           \/ /\ Syncing(call'[d].prog)
              /\ d \notin raced' /\ call'[d].unassigned # call'[d].team =>
                   MembersNext(call'[d].team) \cup Joins(call'[d].prog) = call'[d].want
    PROVE  PutOnTrack(d)'
<1>1. Clearing(call'[d].prog) => Clearing(call[d].prog)'
  BY DEF Clearing, SyncOp
<1>2. Syncing(call'[d].prog) => Syncing(call[d].prog)'
  BY DEF Syncing, SyncOp
<1>3. Joins(call[d].prog)' = Joins(call'[d].prog)
  BY DEF Joins
<1>4. Members(call[d].team)' = MembersNext(call'[d].team)
  BY DEF Members, MembersNext
<1>5. CASE Clearing(call'[d].prog) /\ Joins(call'[d].prog) = call'[d].want
  BY <1>1, <1>3, <1>5 DEF PutOnTrack
<1>6. CASE /\ Syncing(call'[d].prog)
           /\ d \notin raced' /\ call'[d].unassigned # call'[d].team =>
                MembersNext(call'[d].team) \cup Joins(call'[d].prog) = call'[d].want
  BY <1>2, <1>3, <1>4, <1>6 DEF PutOnTrack
<1> QED  BY <1>5, <1>6

(* Every step keeps every PUT on track. *)
LEMMA PutStep ==
    ASSUME ScimTypeOK, KnownInv, PutInv, [ScimNext]_scimVars
    PROVE  PutInv'
<1> SUFFICES ASSUME config'.role # Null, NEW d \in Connectors, OfGroup(d)', call'[d].want # Null
             PROVE  PutOnTrack(d)'
  BY DEF PutInv
<1>1. ASSUME call'[d] = call[d], config'.push = config.push, config'.role = config.role,
             TrackRaces
      PROVE  PutOnTrack(d)'
  <2>1. OfGroup(d) /\ call[d].want # Null
    BY <1>1 DEF OfGroup
  <2>2. PutOnTrack(d)
    BY <1>1, <2>1 DEF PutInv
  <2> QED  BY <1>1, <2>1, <2>2, OthersTrack
<1>2. ASSUME NEW c \in Connectors, UserStep(c), TrackRaces
      PROVE  PutOnTrack(d)'
  BY <1>1, <1>2, UserTypes
<1>3. ASSUME NEW c \in Connectors, Statement(c), TrackRaces
      PROVE  PutOnTrack(d)'
  <2>1. /\ OfGroup(c) /\ call[c].prog # <<>> /\ GoesOn(c)
        /\ config'.push = config.push /\ config'.role = config.role
    BY <1>3, StatementIs
  <2>2. CASE c # d
    <3>1. call'[d] = call[d]
      BY <2>1, <2>2, GoesOnIs
    <3> QED  BY <1>1, <1>3, <2>1, <3>1
  <2>3. CASE c = d
    <3>1. call' # [call EXCEPT ![d] = Null]
      BY EndIs DEF OfGroup
    <3>2. PICK u \in Teams \cup {Null} : AdvanceKnowing(d, u)
      BY <2>1, <2>3, <3>1 DEF GoesOn
    <3>3. call[d].want # Null
      BY <2>1, <2>3, <3>2, AdvanceIs DEF OfGroup
    <3>4. PutOnTrack(d)
      BY <2>1, <2>3, <3>3 DEF PutInv
    <3>5. PICK v \in Teams \cup {Null} :
            /\ AdvanceKnowing(d, v)
            /\ v # Null => config.push /\ v \in TeamLeft(d)
            /\ \/ /\ Clearing(Tail(call[d].prog)) /\ Len(call[d].prog) # 1
                  /\ Joins(Tail(call[d].prog)) = call[d].want
               \/ /\ Syncing(Tail(call[d].prog))
                  /\ d \notin raced /\ v # call[d].team =>
                       MembersNext(call[d].team) \cup Joins(Tail(call[d].prog)) = call[d].want
      BY <1>3, <2>1, <2>3, <3>1, <3>3, <3>4, StatementTracks
    <3>6. /\ call'[d].prog = Tail(call[d].prog) /\ call'[d].team = call[d].team
          /\ call'[d].want = call[d].want /\ call'[d].unassigned = v
      BY <2>1, <2>3, <3>5, AdvanceIs DEF OfGroup
    <3>7. d \notin raced' => d \notin raced
      BY <1>3, <2>1, <2>3 DEF TrackRaces, OfGroup
    <3> QED  BY <2>1, <3>5, <3>6, <3>7, OnTrackNext
  <2> QED  BY <2>2, <2>3
<1>4. ASSUME NEW c \in Connectors, GroupStart(c), TrackRaces
      PROVE  PutOnTrack(d)'
  <2>1. PICK t \in Teams, prog \in Seq(Statements), want \in (SUBSET UserIds) \cup {Null} :
          /\ GroupRequest(c, t, prog, want)
          /\ want # Null => Clearing(prog) /\ Joins(prog) = want
    BY <1>4, GroupStartIs
  <2>2. /\ \A e \in Connectors \ {c} : call'[e] = call[e]
        /\ call'[c].prog = prog /\ call'[c].want = want /\ call'[c].unassigned = Null
    BY <2>1, GroupRequestIs
  <2>3. config' = config
    BY <1>4, GroupStartIs
  <2>4. CASE c # d
    BY <1>1, <1>4, <2>2, <2>3, <2>4
  <2>5. CASE c = d
    BY <2>1, <2>2, <2>3, <2>5, OnTrackNext
  <2> QED  BY <2>4, <2>5
<1>5. ASSUME NEW c \in Connectors, CrashCall(c), TrackRaces
      PROVE  PutOnTrack(d)'
  <2>1. call'[d] = call[d] /\ config' = config
    BY <1>5, EndIs DEF CrashCall, OfGroup
  <2> QED  BY <1>1, <1>5, <2>1
<1>6. ASSUME NEW r \in UserIds, EraseUser(r), TrackRaces
      PROVE  PutOnTrack(d)'
  BY <1>1, <1>6 DEF EraseUser
<1>7. CASE UNCHANGED scimVars
  <2>1. OfGroup(d) /\ call[d].want # Null /\ config.role # Null
    BY <1>7 DEF OfGroup, scimVars
  <2>2. PutOnTrack(d)
    BY <2>1 DEF PutInv
  <2> QED  BY <1>7, <2>2 DEF PutOnTrack, Clearing, Syncing, SyncOp, Joins, Members, scimVars
<1> QED  BY <1>2, <1>3, <1>4, <1>5, <1>6, <1>7, StepKinds

(* The step that answers a PUT leaves the members it names. *)
LEMMA AnswerIsExact ==
    ASSUME ScimTypeOK, KnownInv, PutInv, ScimNext, NEW c \in Connectors,
           PutAnswered(c), c \notin raced
    PROVE  MembersNext(call[c].team) = call[c].want
<1>1. /\ OfGroup(c) /\ call[c].want # Null /\ Len(call[c].prog) = 1 /\ call'[c] = Null
      /\ call[c] # Null /\ faults' = faults /\ config.role # Null
      /\ name[call[c].team] # Null
      /\ config.push => call[c].team \notin TeamLeft(c)
  BY DEF PutAnswered, OfGroup
<1>2. faults \in Nat /\ call[c].team \in Teams
  BY <1>1, GroupCallIs, LimitsAssumption DEF ScimTypeOK
<1>3. PutOnTrack(c)
  BY <1>1 DEF PutInv
<1>4. ASSUME NEW d \in Connectors, UserStep(d)
      PROVE  FALSE
  <2>1. CASE d # c
    BY <1>1, <1>4, <2>1 DEF UserStep, CreateUser, LookUpUser, ListUsers, DeleteUser, UpdateLoad,
         UpdateDeprovision, UpdateSave, ScimTypeOK
  <2>2. CASE d = c
    BY <1>1, <1>4, <2>2 DEF UserStep, CreateUser, LookUpUser, ListUsers, DeleteUser, UpdateLoad,
         UpdateDeprovision, UpdateSave, BeginCall, OfGroup
  <2> QED  BY <2>1, <2>2
<1>5. ASSUME NEW d \in Connectors, GroupStart(d)
      PROVE  FALSE
  BY <1>1, <1>5, GroupStartIs, GroupRequestIs DEF OfGroup
<1>6. ASSUME NEW d \in Connectors, CrashCall(d)
      PROVE  FALSE
  BY <1>1, <1>2, <1>6 DEF CrashCall
<1>7. ASSUME NEW r \in UserIds, EraseUser(r)
      PROVE  FALSE
  BY <1>1, <1>2, <1>7 DEF EraseUser
<1>8. PICK d \in Connectors : Statement(d)
  BY <1>4, <1>5, <1>6, <1>7, StepKinds
<1>9. d = c
  BY <1>1, <1>8, StatementIs, GoesOnIs
<1>10. PICK u \in Teams \cup {Null} :
         /\ u # Null => config.push /\ u \in TeamLeft(c)
         /\ Syncing(Tail(call[c].prog))
         /\ c \notin raced /\ u # call[c].team =>
              MembersNext(call[c].team) \cup Joins(Tail(call[c].prog)) = call[c].want
  BY <1>1, <1>3, <1>8, <1>9, StatementTracks
<1>11. u # call[c].team
  BY <1>1, <1>2, <1>10, NullAssumption
<1>12. Joins(Tail(call[c].prog)) = {}
  BY <1>1, <1>8, <1>9, StatementIs, GroupCallIs, TailIs
<1> QED  BY <1>10, <1>11, <1>12

-----------------------------------------------------------------------------
(* The theorems *)

(* The inductive invariant of Provisioning. *)
ProvisioningInv == ScimTypeOK /\ KnownInv /\ PutInv

(* It holds before the first request. *)
LEMMA ProvisioningStarts ==
    ASSUME ScimInit
    PROVE  ProvisioningInv
<1>1. /\ tenant = {} /\ known = {} /\ name = InitialNames /\ role = [t \in Teams |-> NoTeams]
      /\ config \in Configs /\ call = [c \in Connectors |-> Null]
      /\ raced = {} /\ requests = 0 /\ faults = 0
  BY DEF ScimInit
<1>2. account \in [UserIds -> AccountRows \cup {Null}]
  <2>1. PICK r \in UserIds, e \in Emails :
          account \in {[x \in UserIds |-> Null],
                       [x \in UserIds |-> IF x = r THEN [email |-> e, active |-> TRUE,
                                                       erased |-> FALSE]
                                          ELSE Null]}
    BY DEF ScimInit
  <2>2. [email |-> e, active |-> TRUE, erased |-> FALSE] \in AccountRows
    BY DEF AccountRows
  <2> QED  BY <2>1, <2>2
<1>3. role \in [Teams -> [UserIds -> Roles \cup {Null}]]
      /\ \A t \in Teams, r \in UserIds : role[t][r] = Null
  BY <1>1 DEF NoTeams
<1>4. \A c \in Connectors : ~OfGroup(c)
  BY <1>1 DEF OfGroup
<1>5. ScimTypeOK
  BY <1>1, <1>2, <1>3, NamesAssumption, ConfigsAssumption, LimitsAssumption DEF ScimTypeOK
<1> QED  BY <1>1, <1>3, <1>4, <1>5 DEF ProvisioningInv, KnownInv, PutInv, Members

(* Every step of any request, in any order, keeps it, crashes included. *)
LEMMA ProvisioningIsInvariant == ScimSpec => []ProvisioningInv
<1>1. ScimInit => ProvisioningInv
  BY ProvisioningStarts
<1>2. ProvisioningInv /\ [ScimNext]_scimVars => ProvisioningInv'
  BY ScimTypeStep, PutStep DEF ProvisioningInv
<1> QED  BY <1>1, <1>2, PTL DEF ScimSpec

(* ScimTypeOK: accounts, teams, memberships and the programs of requests in        *)
(* flight keep their types, and every id SCIM was told in an answer is an account. *)
THEOREM ScimTypeCorrect == ScimSpec => []ScimTypeOK
<1>1. ProvisioningInv => ScimTypeOK
  BY DEF ProvisioningInv
<1> QED  BY <1>1, ProvisioningIsInvariant, PTL

(* TeamsWithinTenant: for any connectors, accounts, teams, configurations and *)
(* lists of members, with automatic provisioning nobody is in a team of the   *)
(* project without being a member of the tenant (provision_from_scim,         *)
(* _sync_group_members).                                                      *)
THEOREM TeamsAreWithinTenant == ScimSpec => []TeamsWithinTenant
<1>1. ProvisioningInv => TeamsWithinTenant
  BY DEF ProvisioningInv, KnownInv, TeamsWithinTenant, Members
<1> QED  BY <1>1, ProvisioningIsInvariant, PTL

(* PutIsExact: a PUT of a group that is answered, and that nobody raced, leaves *)
(* exactly the members it names (replace_group), for any number of requests at  *)
(* once and any lists of members.                                               *)
THEOREM PutsAreExact == ScimSpec => PutIsExact
<1> DEFINE Exact == \A c \in Connectors :
                      PutAnswered(c) /\ c \notin raced =>
                         {r \in UserIds : role'[call[c].team][r] # Null} = call[c].want
<1>1. ProvisioningInv /\ [ScimNext]_scimVars => [Exact]_scimVars
  BY AnswerIsExact DEF ProvisioningInv, MembersNext
<1> QED  BY <1>1, ProvisioningIsInvariant, PTL DEF ScimSpec, PutIsExact
=============================================================================
