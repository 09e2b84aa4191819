---------------------------- MODULE RequestsProofs ----------------------------
(***************************************************************************)
(* Proofs about Requests, for any threads, users, teams, roles, keys,        *)
(* resources, calls and limit.                                               *)
(***************************************************************************)
EXTENDS Requests, SequenceTheorems, TLAPS

(* A key that is presented or revoked is there; a change that needs a        *)
(* permission is made for somebody; there is a change when there is one to   *)
(* write.                                                                    *)
Settled(r, ks) ==
    r # None =>
       /\ r.bearer \in Keys => ks[r.bearer] # None
       /\ r.pc = "write" =>
            /\ r.change # None /\ r.change.by = r.user
            /\ r.change.do # <<"register">> => r.user # None
            /\ r.change.do[1] = "revoke key" => ks[r.change.do[2]] # None

SettledInv == \A t \in Threads : Settled(req[t], keys)

(* A window in which no request was missed: at most one is between its get   *)
(* and its set, what it has got is the counter, and the counter has counted  *)
(* every request let through.                                                *)
Counting(t, k) == At(t, "rateset") /\ RateKey(req[t]) = k

LimitInv ==
    \A k \in RateKeys : k \notin overlapped =>
       /\ admitted[k] <= count[k] /\ admitted[k] <= Limit
       /\ \A t \in Threads : Counting(t, k) => req[t].seen = count[k]
       /\ \A t, o \in Threads : Counting(t, k) /\ Counting(o, k) => t = o

(* The actor is whoever the token names, once it has been looked at; before, *)
(* and for good without a token, the session's user if the middleware has    *)
(* come to set it, and otherwise nobody, unless it was left by an earlier    *)
(* request.                                                                  *)
SessionActor(r) == IF r.resolved THEN r.session ELSE None

Rightful(r, act, left) ==
    IF r = None THEN left \/ act = None
    ELSE /\ r.pc = "tenant" => ~r.resolved /\ ~r.set
         /\ r.pc \notin {"handle", "write"} => Caller(r) = None
         /\ IF Caller(r) = None THEN left \/ act = SessionActor(r) ELSE r.set /\ act = Caller(r)

ActorInv == \A t \in Threads : Rightful(req[t], actor[t], t \in open)

(* The team a new resource is given is in the scope its creator had then.    *)
Covers(perms, memberships, team) ==
    All \in perms \/ team = None \/ team \in {memberships[i].team : i \in DOMAIN memberships}

Scoped(r) ==
    r # None /\ r.pc = "write" /\ r.change.do[1] = "create" =>
       Covers(r.change.perms, r.change.belongs, r.change.do[2])

ScopeInv == \A t \in Threads : Scoped(req[t])

-----------------------------------------------------------------------------
(* Requests in flight *)

LEMMA NoneIsNone ==
    /\ None \notin InFlight /\ None \notin Changes /\ None \notin ApiKeys /\ None \notin Owned
    /\ None \notin Users /\ None \notin Teams /\ None \notin Keys
BY NoneAssumption, RolesAssumption

LEMMA RequestFields ==
    ASSUME NEW r \in InFlight
    PROVE  /\ r.pc \in {"tenant", "project", "rate", "rateset", "authenticate", "handle", "write"}
           /\ r.skip \in BOOLEAN /\ r.tenant \in {"named", "absent", "unknown"}
           /\ r.project \in BOOLEAN /\ r.session \in Users \cup {None}
           /\ r.bearer \in Users \cup Keys \cup {None} /\ r.resolved \in BOOLEAN
           /\ r.user \in Users \cup {None} /\ r.key \in Keys \cup {None}
           /\ r.seen \in Nat /\ r.set \in BOOLEAN /\ r.change \in Changes \cup {None}
BY DEF InFlight

LEMMA ChangeFields ==
    ASSUME NEW c \in Changes
    PROVE  /\ c.do \in Doings /\ c.by \in Users \cup {None}
           /\ c.belongs \in Seq(Memberships) /\ c.perms \in SUBSET Permissions
BY DEF Changes

LEMMA Resolved ==
    ASSUME NEW r \in InFlight, NEW b \in BOOLEAN
    PROVE  LET s == [r EXCEPT !.pc = "project", !.resolved = TRUE, !.set = b]
           IN  /\ s \in InFlight /\ s.pc = "project" /\ s.session = r.session
               /\ s.bearer = r.bearer /\ s.resolved = TRUE /\ s.user = r.user
               /\ s.key = r.key /\ s.set = b /\ s.change = r.change
BY DEF InFlight

LEMMA Counted ==
    ASSUME NEW r \in InFlight, NEW n \in Nat
    PROVE  LET s == [r EXCEPT !.pc = "rateset", !.seen = n]
           IN  /\ s \in InFlight /\ s.pc = "rateset" /\ s.session = r.session
               /\ s.bearer = r.bearer /\ s.resolved = r.resolved /\ s.user = r.user
               /\ s.key = r.key /\ s.seen = n /\ s.set = r.set /\ s.change = r.change
BY DEF InFlight

LEMMA Decided ==
    ASSUME NEW r \in InFlight, NEW c \in Changes
    PROVE  LET s == [r EXCEPT !.pc = "write", !.seen = 0, !.change = c]
           IN  /\ s \in InFlight /\ s.pc = "write" /\ s.session = r.session
               /\ s.bearer = r.bearer /\ s.resolved = r.resolved /\ s.user = r.user
               /\ s.key = r.key /\ s.set = r.set /\ s.change = c
BY DEF InFlight

(* A step of a thread is about its own request and its own actor. *)
Becomes(t, s) == req' = [req EXCEPT ![t] = s]

LEMMA Became ==
    ASSUME TypeOK, NEW t \in Threads, NEW s, Becomes(t, s)
    PROVE  req'[t] = s /\ \A o \in Threads \ {t} : req'[o] = req[o]
BY DEF TypeOK, Becomes

LEMMA BecameType ==
    ASSUME TypeOK, NEW t \in Threads, NEW s \in InFlight \cup {None}, Becomes(t, s)
    PROVE  req' \in [Threads -> InFlight \cup {None}]
BY DEF TypeOK, Becomes

LEMMA GotoBecomes ==
    ASSUME TypeOK, NEW t \in Threads, NEW pc, Goto(t, pc)
    PROVE  Becomes(t, [req[t] EXCEPT !.pc = pc])
BY DEF Goto, Becomes

Answers(t, act) ==
    /\ Becomes(t, None)
    /\ actor'[t] = act /\ \A o \in Threads \ {t} : actor'[o] = actor[o]
    /\ \A o \in Threads \ {t} : o \in open' <=> o \in open
    /\ t \in open' <=> ~req[t].resolved /\ (req[t].set \/ t \in open)

LEMMA RespondAnswers ==
    ASSUME TypeOK, NEW t \in Threads, req[t] # None, NEW act, Respond(t, act)
    PROVE  Answers(t, act)
<1>1. actor \in [Threads -> Users \cup Keys \cup {None}]
  BY DEF TypeOK
<1>2. Becomes(t, None)
  BY DEF Respond, Becomes
<1>3. actor'[t] = act /\ \A o \in Threads \ {t} : actor'[o] = actor[o]
  BY <1>1 DEF Respond
<1>4. req[t].set \in BOOLEAN /\ req[t].resolved \in BOOLEAN
  BY RequestFields DEF TypeOK
<1>5. /\ \A o \in Threads \ {t} : o \in open' <=> o \in open
      /\ t \in open' <=> ~req[t].resolved /\ (req[t].set \/ t \in open)
  <2>1. open' = IF req[t].resolved THEN open \ {t}
                ELSE IF req[t].set THEN open \cup {t} ELSE open
    BY DEF Respond, ClearsActor
  <2> QED  BY <1>4, <2>1
<1> QED  BY <1>2, <1>3, <1>5 DEF Answers

(* What the handler settles on. *)
LEMMA DecideBecomes ==
    ASSUME TypeOK, NEW t \in Threads, req[t] # None, NEW do \in Doings, Decide(t, do)
    PROVE  LET u == req[t].user
               c == [do |-> do, by |-> u,
                     belongs |-> IF u = None THEN <<>> ELSE belongs[u],
                     perms |-> IF u = None THEN {} ELSE UserPermissions(u)]
           IN  /\ c \in Changes
               /\ Becomes(t, [req[t] EXCEPT !.pc = "write", !.seen = 0, !.change = c])
<1> DEFINE u == req[t].user
           memberships == IF u = None THEN <<>> ELSE belongs[u]
           perms == IF u = None THEN {} ELSE UserPermissions(u)
           c == [do |-> do, by |-> u, belongs |-> memberships, perms |-> perms]
<1>1. u \in Users \cup {None}
  BY RequestFields DEF TypeOK
<1>2. memberships \in Seq(Memberships)
  BY <1>1, EmptySeq DEF TypeOK
<1>3. perms \in SUBSET Permissions
  <2>1. CASE u = None
    BY <2>1
  <2>2. CASE u # None
    <3>1. u \in Users /\ belongs[u] \in Seq(Memberships)
      BY <1>1, <2>2 DEF TypeOK
    <3>2. \A i \in DOMAIN belongs[u] : grants[belongs[u][i].role] \in SUBSET Permissions
      <4>1. SUFFICES ASSUME NEW i \in DOMAIN belongs[u]
                     PROVE  grants[belongs[u][i].role] \in SUBSET Permissions
        OBVIOUS
      <4>2. belongs[u][i] \in Memberships
        BY <3>1, LenProperties, ElementOfSeq
      <4>3. belongs[u][i].role \in Roles
        BY <4>2 DEF Memberships
      <4>4. grants[belongs[u][i].role] # None
        BY <3>1 DEF TypeOK
      <4> QED  BY <4>3, <4>4 DEF TypeOK
    <3>3. {All} \subseteq Permissions
      BY RolesAssumption
    <3> QED  BY <2>2, <3>2, <3>3 DEF UserPermissions
  <2> QED  BY <2>1, <2>2
<1>4. Becomes(t, [req[t] EXCEPT !.pc = "write", !.seen = 0, !.change = c])
  BY Zenon DEF Decide, Becomes
<1> HIDE DEF memberships, perms
<1>5. c \in Changes
  BY <1>1, <1>2, <1>3 DEF Changes
<1> QED  BY <1>4, <1>5 DEF memberships, perms

-----------------------------------------------------------------------------
(* What is settled on *)

LEMMA DoingsMade ==
    /\ <<"register">> \in Doings /\ <<"new team">> \in Doings /\ <<"new key">> \in Doings
    /\ \A team \in Teams : <<"drop team", team>> \in Doings
    /\ \A team \in Teams, u \in Users, r \in Roles : <<"join", team, u, r>> \in Doings
    /\ \A team \in Teams, u \in Users : <<"leave", team, u>> \in Doings
    /\ \A team \in Teams \cup {None} : <<"create", team>> \in Doings
    /\ \A x \in Resources : <<"delete", x>> \in Doings
    /\ \A r \in Roles : /\ <<"new role", r>> \in Doings /\ <<"edit role", r>> \in Doings
                        /\ <<"drop role", r>> \in Doings
    /\ \A q \in Policies : <<"policy", q>> \in Doings
    /\ \A k \in Keys : <<"revoke key", k>> \in Doings
    /\ \A u \in Users : <<"deactivate", u>> \in Doings
BY DEF Doings

LEMMA DoingsParts ==
    ASSUME NEW do \in Doings
    PROVE  /\ do[1] = "drop team" => do[2] \in Teams
           /\ do[1] = "join" => do[2] \in Teams /\ do[3] \in Users /\ do[4] \in Roles
           /\ do[1] = "leave" => do[2] \in Teams /\ do[3] \in Users
           /\ do[1] = "create" => do[2] \in Teams \cup {None}
           /\ do[1] = "delete" => do[2] \in Resources
           /\ do[1] \in {"new role", "edit role", "drop role"} => do[2] \in Roles
           /\ do[1] = "policy" => do[2] \in Policies
           /\ do[1] = "revoke key" => do[2] \in Keys
           /\ do[1] = "deactivate" => do[2] \in Users
<1>1. CASE do \in {<<"register">>, <<"new team">>, <<"new key">>}
  <2>1. CASE do = <<"register">>
    BY <2>1
  <2>2. CASE do = <<"new team">>
    BY <2>2
  <2>3. CASE do = <<"new key">>
    BY <2>3
  <2> QED  BY <1>1, <2>1, <2>2, <2>3
<1>2. CASE do \in {"drop team"} \X Teams
  BY <1>2
<1>3. CASE do \in {"join"} \X Teams \X Users \X Roles
  BY <1>3
<1>4. CASE do \in {"leave"} \X Teams \X Users
  BY <1>4
<1>5. CASE do \in {"create"} \X (Teams \cup {None})
  BY <1>5
<1>6. CASE do \in {"delete"} \X Resources
  BY <1>6
<1>7. CASE do \in {"new role", "edit role", "drop role"} \X Roles
  BY <1>7
<1>8. CASE do \in {"policy"} \X Policies
  BY <1>8
<1>9. CASE do \in {"revoke key"} \X Keys
  BY <1>9
<1>10. CASE do \in {"deactivate"} \X Users
  BY <1>10
<1> QED  BY <1>1, <1>2, <1>3, <1>4, <1>5, <1>6, <1>7, <1>8, <1>9, <1>10 DEF Doings

(* A change is made for somebody who may see what it creates. *)
Settles(t, do) ==
    /\ do \in Doings /\ At(t, "handle") /\ Decide(t, do)
    /\ do # <<"register">> => req[t].user # None
    /\ do[1] = "revoke key" => keys[do[2]] # None
    /\ do[1] = "create" =>
         Covers(UserPermissions(req[t].user), belongs[req[t].user], do[2])

LEMMA PublicSettles ==
    ASSUME NEW t \in Threads, HandlePublic(t)
    PROVE  Settles(t, <<"register">>)
BY DoingsMade DEF HandlePublic, Settles

LEMMA TeamsGiven ==
    ASSUME TypeOK, NEW u \in Users, NEW payload \in Teams \cup {"null", "absent"},
           NEW team \in TeamForCreate(u, payload)
    PROVE  team \in Teams \cup {None} /\ Covers(UserPermissions(u), belongs[u], team)
<1>0. belongs[u] \in Seq(Memberships) /\ teams \subseteq Teams
  BY DEF TypeOK
<1>1. CASE payload = "null" /\ team \in IF SeesAll(u) THEN {None} ELSE {}
  BY <1>1 DEF Covers
<1>2. CASE team \in {x \in teams : x = payload /\ (SeesAll(u) \/ x \in TeamsOf(u))}
  BY <1>0, <1>2 DEF Covers, SeesAll, TeamsOf
<1>3. CASE team \in IF belongs[u] # <<>> THEN {Head(belongs[u]).team}
                    ELSE IF SeesAll(u) THEN {None} ELSE {}
  <2>1. CASE belongs[u] # <<>>
    <3>1. 1 \in DOMAIN belongs[u] /\ Head(belongs[u]) = belongs[u][1]
          /\ belongs[u][1] \in Memberships
      BY <1>0, <2>1, LenProperties, EmptySeq, ElementOfSeq, HeadTailProperties
    <3> QED  BY <1>3, <2>1, <3>1 DEF Covers, Memberships
  <2> QED  BY <1>3, <2>1 DEF Covers
<1> QED  BY <1>1, <1>2, <1>3 DEF TeamForCreate

LEMMA CreateSettles ==
    ASSUME TypeOK, NEW t \in Threads, NEW payload \in Teams \cup {"null", "absent"},
           HandleCreate(t, payload)
    PROVE  \E do \in Doings : Settles(t, do)
<1>1. At(t, "handle") /\ req[t].user # None
  BY DEF HandleCreate, Can, Authorized
<1>2. req[t].user \in Users
  BY <1>1, RequestFields DEF TypeOK, At
<1>3. PICK team \in TeamForCreate(req[t].user, payload) : Decide(t, <<"create", team>>)
  BY DEF HandleCreate
<1>4. team \in Teams \cup {None} /\ Covers(UserPermissions(req[t].user), belongs[req[t].user], team)
  BY <1>2, TeamsGiven
<1> QED  BY <1>1, <1>3, <1>4, DoingsMade DEF Settles

LEMMA DeleteSettles ==
    ASSUME NEW t \in Threads, NEW x \in Resources, HandleDelete(t, x)
    PROVE  \E do \in Doings : Settles(t, do)
BY DoingsMade DEF HandleDelete, Can, Authorized, Settles

LEMMA ManageSettles ==
    ASSUME TypeOK, NEW t \in Threads, HandleManage(t)
    PROVE  \E do \in Doings : Settles(t, do)
<1>1. ASSUME NEW p, Can(t, p), NEW do \in Doings, Decide(t, do),
             do[1] \notin {"create", "revoke key"} \/ (do[1] = "revoke key" /\ keys[do[2]] # None)
      PROVE  Settles(t, do)
  BY <1>1 DEF Can, Authorized, Settles
<1>2. teams \subseteq Teams
  BY DEF TypeOK
<1>3. CASE \/ Can(t, <<"team", "create">>) /\ Decide(t, <<"new team">>)
           \/ Can(t, <<"team", "delete">>) /\ \E team \in teams : Decide(t, <<"drop team", team>>)
  BY <1>1, <1>2, <1>3, DoingsMade
<1>4. ASSUME NEW team \in teams, NEW u \in Users,
             \/ Can(t, <<"team", "read">>) /\ \E r \in Roles : Decide(t, <<"join", team, u, r>>)
             \/ Can(t, <<"team", "manage_members">>) /\ Decide(t, <<"leave", team, u>>)
      PROVE  \E do \in Doings : Settles(t, do)
  BY <1>1, <1>2, <1>4, DoingsMade
<1>5. ASSUME NEW r \in Roles,
             \/ Can(t, <<"role", "create">>) /\ Decide(t, <<"new role", r>>)
             \/ Can(t, <<"role", "update">>) /\ Decide(t, <<"edit role", r>>)
             \/ Can(t, <<"role", "delete">>) /\ Decide(t, <<"drop role", r>>)
      PROVE  \E do \in Doings : Settles(t, do)
  BY <1>1, <1>5, DoingsMade
<1>6. ASSUME NEW q \in Policies, Can(t, <<"rbac", "manage">>), Decide(t, <<"policy", q>>)
      PROVE  \E do \in Doings : Settles(t, do)
  BY <1>1, <1>6, DoingsMade
<1>7. CASE Can(t, <<"api_key", "create">>) /\ Decide(t, <<"new key">>)
  BY <1>1, <1>7, DoingsMade
<1>8. ASSUME NEW k \in Keys, keys[k] # None, Can(t, <<"api_key", "revoke">>),
             Decide(t, <<"revoke key", k>>)
      PROVE  \E do \in Doings : Settles(t, do)
  BY <1>1, <1>8, DoingsMade
<1>9. ASSUME NEW u \in Users, Can(t, <<"user", "deactivate">>), Decide(t, <<"deactivate", u>>)
      PROVE  \E do \in Doings : Settles(t, do)
  BY <1>1, <1>9, DoingsMade
<1>10. \A r \in Roles, x \in Resources \cup {None}, effect \in {"allow", "deny"} :
          [role |-> r, res |-> x, effect |-> effect] \in Policies
  BY DEF Policies
<1> QED  BY <1>3, <1>4, <1>5, <1>6, <1>7, <1>8, <1>9, <1>10 DEF HandleManage

-----------------------------------------------------------------------------
(* One step of a thread *)

(* Nothing of another thread's changes, and what holds of a request and its  *)
(* actor holds afterwards.                                                   *)
Others(t) ==
    \A o \in Threads \ {t} : req'[o] = req[o] /\ actor'[o] = actor[o] /\ (o \in open' <=> o \in open)

Fine(t) ==
    /\ req' \in [Threads -> InFlight \cup {None}] /\ Others(t)
    /\ Rightful(req'[t], actor'[t], t \in open')
    /\ Settled(req'[t], keys) /\ Scoped(req'[t])

RequestsInv == TypeOK /\ SettledInv /\ ActorInv /\ ScopeInv

LEMMA Became1 ==
    ASSUME TypeOK, NEW t \in Threads, NEW s \in InFlight, Becomes(t, s), UNCHANGED <<actor, open>>,
           Rightful(s, actor[t], t \in open), Settled(s, keys), Scoped(s)
    PROVE  Fine(t)
BY Became, BecameType DEF Fine, Others

LEMMA Answered1 ==
    ASSUME RequestsInv, NEW t \in Threads, req[t] # None, Respond(t, Cleared(t))
    PROVE  Fine(t) /\ req'[t] = None
<1>1. TypeOK /\ Rightful(req[t], actor[t], t \in open)
  BY DEF RequestsInv, ActorInv
<1>2. Answers(t, Cleared(t))
  BY <1>1, RespondAnswers
<1>3. Becomes(t, None)
  BY <1>2 DEF Answers
<1>4. req'[t] = None /\ req' \in [Threads -> InFlight \cup {None}] /\ Others(t)
  BY <1>1, <1>2, <1>3, Became, BecameType DEF Answers, Others
<1>5. t \in open' \/ actor'[t] = None
  <2>1. req[t].resolved \in BOOLEAN /\ req[t].set \in BOOLEAN
    BY <1>1, RequestFields DEF TypeOK
  <2>2. actor'[t] = IF req[t].resolved THEN None ELSE actor[t]
    BY <1>2 DEF Answers, Cleared, ClearsActor
  <2>3. t \in open' <=> ~req[t].resolved /\ (req[t].set \/ t \in open)
    BY <1>2 DEF Answers
  <2> QED  BY <1>1, <2>1, <2>2, <2>3 DEF Rightful, SessionActor
<1> QED  BY <1>4, <1>5 DEF Fine, Rightful, Settled, Scoped

LEMMA ArriveFine ==
    ASSUME RequestsInv, NEW t \in Threads, NEW call \in Calls, Arrive(t, call)
    PROVE  Fine(t) /\ req'[t].pc = "tenant"
<1> DEFINE s == [pc |-> "tenant", skip |-> call.skip, tenant |-> call.tenant,
                 project |-> call.project, session |-> call.session, bearer |-> call.bearer,
                 resolved |-> FALSE, user |-> None, key |-> None, seen |-> 0,
                 set |-> FALSE, change |-> None]
<1>1. Becomes(t, s)
  BY DEF Arrive, Becomes
<1>2. /\ call.skip \in BOOLEAN /\ call.tenant \in {"named", "absent", "unknown"}
      /\ call.project \in BOOLEAN /\ call.session \in Users \cup {None}
      /\ call.bearer \in Users \cup Keys \cup {None}
  BY CallsAssumption
<1>3. s \in InFlight
  BY <1>2 DEF InFlight
<1>4. /\ s.pc = "tenant" /\ s.bearer = call.bearer /\ s.user = None /\ s.key = None
      /\ s.resolved = FALSE /\ s.set = FALSE
  OBVIOUS
<1> HIDE DEF s
<1>5. t \in open \/ actor[t] = None
  BY DEF RequestsInv, ActorInv, Rightful, Arrive
<1>6. Rightful(s, actor[t], t \in open) /\ Scoped(s)
  BY <1>3, <1>4, <1>5 DEF Rightful, Caller, SessionActor, Scoped
<1>7. Settled(s, keys)
  BY <1>4 DEF Settled, Arrive
<1> QED  BY <1>1, <1>3, <1>4, <1>6, <1>7, Became, Became1 DEF Arrive, RequestsInv

LEMMA GotoFine ==
    ASSUME RequestsInv, NEW t \in Threads, req[t] # None,
           NEW pc \in {"rate", "authenticate", "handle"}, Goto(t, pc), UNCHANGED <<actor, open>>,
           req[t].pc \notin {"handle", "write"}
    PROVE  Fine(t) /\ req'[t].pc = pc
<1> DEFINE r == req[t]
           s == [r EXCEPT !.pc = pc]
<1>1. TypeOK /\ r \in InFlight /\ Rightful(r, actor[t], t \in open) /\ Settled(r, keys)
  BY DEF RequestsInv, ActorInv, SettledInv, TypeOK
<1>2. Becomes(t, s)
  BY <1>1, GotoBecomes
<1>3. /\ s \in InFlight /\ s.pc = pc /\ s.session = r.session /\ s.bearer = r.bearer
      /\ s.resolved = r.resolved /\ s.user = r.user /\ s.key = r.key /\ s.set = r.set
  <2>1. pc \in {"tenant", "project", "rate", "rateset", "authenticate", "handle", "write"}
    OBVIOUS
  <2> HIDE DEF r
  <2> QED  BY <1>1, <2>1 DEF InFlight
<1>4. s # None /\ r # None /\ r.pc \notin {"handle", "write"}
  BY <1>1, <1>3, NoneIsNone
<1> HIDE DEF s, r
<1>5. Caller(s) = Caller(r) /\ SessionActor(s) = SessionActor(r)
  BY <1>3 DEF Caller, SessionActor
<1>6. Rightful(s, actor[t], t \in open)
  BY <1>1, <1>3, <1>4, <1>5 DEF Rightful
<1>7. Settled(s, keys) /\ Scoped(s)
  BY <1>1, <1>3, <1>4 DEF Settled, Scoped
<1> QED  BY <1>1, <1>2, <1>3, <1>6, <1>7, Became, Became1

LEMMA TenantFine ==
    ASSUME RequestsInv, NEW t \in Threads, TenantMiddleware(t)
    PROVE  Fine(t) /\ (req'[t] # None => req'[t].pc \in {"project", "rate"})
<1> DEFINE r == req[t]
<1>1. TypeOK /\ r # None /\ r.pc = "tenant" /\ r \in InFlight
  BY DEF RequestsInv, TypeOK, TenantMiddleware, At
<1>2. /\ ~r.resolved /\ ~r.set /\ Caller(r) = None
      /\ (t \in open \/ actor[t] = None) /\ Settled(r, keys)
  BY <1>1 DEF RequestsInv, ActorInv, SettledInv, Rightful, SessionActor
<1>3. CASE Goto(t, "rate") /\ UNCHANGED <<actor, open>>
  BY <1>1, <1>3, GotoFine
<1>4. CASE Respond(t, actor[t])
  <2>1. Respond(t, Cleared(t))
    BY <1>2, <1>4 DEF Cleared, ClearsActor
  <2> QED  BY <1>1, <2>1, Answered1
<1>5. CASE /\ req' = [req EXCEPT ![t].pc = "project", ![t].resolved = TRUE,
                                 ![t].set = r.session # None]
           /\ actor' = [actor EXCEPT ![t] = IF r.session = None THEN @ ELSE r.session]
           /\ UNCHANGED open
  <2> DEFINE b == r.session # None
             s == [r EXCEPT !.pc = "project", !.resolved = TRUE, !.set = b]
  <2>1. Becomes(t, s)
    BY <1>5, Zenon DEF Becomes
  <2>2. b \in BOOLEAN
    OBVIOUS
  <2>3. /\ s \in InFlight /\ s.pc = "project" /\ s.session = r.session /\ s.bearer = r.bearer
        /\ s.resolved = TRUE /\ s.user = r.user /\ s.key = r.key
    <3> HIDE DEF b, r
    <3> QED  BY <1>1, <2>2, Resolved
  <2> HIDE DEF s
  <2>4. /\ actor'[t] = IF r.session = None THEN actor[t] ELSE r.session
        /\ \A o \in Threads \ {t} : actor'[o] = actor[o]
    BY <1>1, <1>5 DEF TypeOK
  <2>5. Rightful(s, actor'[t], t \in open')
    <3>1. t \in open' \/ actor'[t] = r.session
      BY <1>2, <1>5, <2>4
    <3> HIDE DEF r
    <3>2. Caller(r) = None /\ s # None
      BY <1>2, <2>3, NoneIsNone
    <3>3. Caller(s) = Caller(r)
      BY <2>3 DEF Caller
    <3> QED  BY <2>3, <3>1, <3>2, <3>3 DEF Rightful, SessionActor
  <2>6. Settled(s, keys) /\ Scoped(s)
    BY <1>1, <1>2, <2>3 DEF Settled, Scoped
  <2>7. Others(t)
    BY <1>1, <1>5, <2>1, <2>4, Became DEF Others
  <2> QED  BY <1>1, <2>1, <2>3, <2>5, <2>6, <2>7, Became, BecameType DEF Fine
<1>6. CASE /\ req' = [req EXCEPT ![t] = None]
           /\ actor' = [actor EXCEPT ![t] = r.session]
           /\ open' = open \cup {t}
  <2>1. Becomes(t, None)
    BY <1>6 DEF Becomes
  <2>2. Others(t)
    BY <1>1, <1>6, <2>1, Became DEF Others, TypeOK
  <2> QED  BY <1>1, <1>6, <2>1, <2>2, Became, BecameType DEF Fine, Rightful, Settled, Scoped
<1> QED  BY <1>3, <1>4, <1>5, <1>6 DEF TenantMiddleware

LEMMA ProjectFine ==
    ASSUME RequestsInv, NEW t \in Threads, ProjectMiddleware(t)
    PROVE  Fine(t) /\ (req'[t] # None => req'[t].pc = "rate")
<1>1. req[t] # None /\ req[t].pc = "project"
  BY DEF ProjectMiddleware, At
<1>2. CASE Respond(t, Cleared(t))
  BY <1>1, <1>2, Answered1
<1>3. CASE Goto(t, "rate") /\ UNCHANGED <<actor, open>>
  BY <1>1, <1>3, GotoFine
<1> QED  BY <1>2, <1>3 DEF ProjectMiddleware

(* The rate limit key is the session's user, or the address. *)
LEMMA RateKeyType ==
    ASSUME NEW r \in InFlight
    PROVE  RateKey(r) \in RateKeys
BY RequestFields DEF RateKey, RateKeys

LEMMA RateGetFine ==
    ASSUME RequestsInv, NEW t \in Threads, RateGet(t)
    PROVE  /\ Fine(t) /\ req'[t] # None /\ req'[t].pc = "rateset"
           /\ req[t] \in InFlight /\ req'[t].session = req[t].session
           /\ req'[t].seen = count[RateKey(req[t])]
<1> DEFINE r == req[t]
           n == count[RateKey(r)]
           s == [r EXCEPT !.pc = "rateset", !.seen = n]
<1>1. /\ TypeOK /\ r # None /\ r.pc = "rate" /\ r \in InFlight
      /\ Rightful(r, actor[t], t \in open) /\ Settled(r, keys)
  BY DEF RequestsInv, TypeOK, RateGet, At, ActorInv, SettledInv
<1>2. n \in Nat
  BY <1>1, RateKeyType DEF TypeOK
<1>3. Becomes(t, s)
  BY Zenon DEF RateGet, Becomes
<1>4. /\ s \in InFlight /\ s.pc = "rateset" /\ s.session = r.session /\ s.bearer = r.bearer
      /\ s.resolved = r.resolved /\ s.user = r.user /\ s.key = r.key /\ s.set = r.set
      /\ s.seen = n
  <2> HIDE DEF n, r
  <2> QED  BY <1>1, <1>2, Counted
<1> HIDE DEF s
<1>5. Caller(s) = Caller(r) /\ SessionActor(s) = SessionActor(r) /\ s # None
  BY <1>4, NoneIsNone DEF Caller, SessionActor
<1> HIDE DEF r, n
<1>6. Rightful(s, actor[t], t \in open)
  BY <1>1, <1>4, <1>5 DEF Rightful
<1>7. Settled(s, keys) /\ Scoped(s)
  BY <1>1, <1>4 DEF Settled, Scoped
<1>8. UNCHANGED <<actor, open>>
  BY DEF RateGet
<1>9. Fine(t) /\ req'[t] = s
  BY <1>1, <1>3, <1>4, <1>6, <1>7, <1>8, Became, Became1
<1> QED  BY <1>1, <1>4, <1>5, <1>9 DEF r, n

LEMMA RateSetFine ==
    ASSUME RequestsInv, NEW t \in Threads, RateSet(t) \/ RateUnavailable(t)
    PROVE  Fine(t) /\ (req'[t] # None => req'[t].pc = "authenticate")
<1>1. req[t] # None /\ req[t].pc \in {"rate", "rateset"}
  BY DEF RateSet, RateUnavailable, At
<1>2. CASE Respond(t, Cleared(t))
  BY <1>1, <1>2, Answered1
<1>3. CASE Goto(t, "authenticate") /\ UNCHANGED <<actor, open>>
  BY <1>1, <1>3, GotoFine
<1> QED  BY <1>2, <1>3 DEF RateSet, RateUnavailable

LEMMA AuthenticateFine ==
    ASSUME RequestsInv, NEW t \in Threads, Authenticate(t)
    PROVE  Fine(t) /\ (req'[t] # None => req'[t].pc = "handle")
<1> DEFINE r == req[t]
           b == r.bearer
           u == IF b \in Keys THEN keys[b].by ELSE b
           k == IF b \in Keys THEN b ELSE None
           s == [r EXCEPT !.pc = "handle", !.user = u, !.set = TRUE, !.key = k]
<1>1. /\ TypeOK /\ r # None /\ r.pc = "authenticate" /\ r \in InFlight
      /\ Rightful(r, actor[t], t \in open) /\ Settled(r, keys)
  BY DEF RequestsInv, TypeOK, Authenticate, At, ActorInv, SettledInv
<1>2. CASE Respond(t, Cleared(t))
  BY <1>1, <1>2, Answered1
<1>3. CASE Goto(t, "handle") /\ UNCHANGED <<actor, open>>
  BY <1>1, <1>3, GotoFine
<1>4. CASE /\ b # None
           /\ req' = [req EXCEPT ![t].pc = "handle", ![t].user = u, ![t].set = TRUE, ![t].key = k]
           /\ actor' = [actor EXCEPT ![t] = b]
           /\ UNCHANGED open
  <2>1. Becomes(t, s)
    BY <1>4, Zenon DEF Becomes
  <2>2. b \in Users \cup Keys /\ k \in Keys \cup {None}
    BY <1>1, <1>4, RequestFields
  <2>3. u \in Users
    <3>1. CASE b \in Keys
      <4>1. keys[b] \in ApiKeys
        BY <1>1, <3>1 DEF Settled, TypeOK
      <4>2. keys[b].by \in Users
        BY <4>1 DEF ApiKeys
      <4> QED  BY <3>1, <4>2
    <3> QED  BY <2>2, <3>1
  <2>4. (IF k # None THEN k ELSE u) = b
    BY <2>2, NoneIsNone
  <2>5. /\ s \in InFlight /\ s.pc = "handle" /\ s.bearer = r.bearer
        /\ s.user = u /\ s.key = k /\ s.set = TRUE
    <3> HIDE DEF r, u, k, b
    <3>1. r \in InFlight
      BY <1>1
    <3> QED  BY <2>2, <2>3, <3>1 DEF InFlight
  <2> HIDE DEF s
  <2>6. actor'[t] = b /\ \A o \in Threads \ {t} : actor'[o] = actor[o]
    BY <1>1, <1>4 DEF TypeOK
  <2>7. Caller(s) = b /\ s # None /\ b # None
    <3>1. s # None /\ b # None
      BY <1>4, <2>5, NoneIsNone
    <3> HIDE DEF u, k, b
    <3> QED  BY <2>4, <2>5, <3>1 DEF Caller
  <2>8. Rightful(s, actor'[t], t \in open')
    <3> HIDE DEF b
    <3> QED  BY <2>5, <2>6, <2>7 DEF Rightful
  <2>9. Settled(s, keys) /\ Scoped(s)
    BY <1>1, <2>5 DEF Settled, Scoped
  <2>10. Others(t)
    BY <1>1, <1>4, <2>1, <2>6, Became DEF Others
  <2> QED  BY <1>1, <2>1, <2>5, <2>8, <2>9, <2>10, Became, BecameType DEF Fine
<1> QED  BY <1>2, <1>3, <1>4 DEF Authenticate

LEMMA SettlesFine ==
    ASSUME RequestsInv, NEW t \in Threads, NEW do \in Doings, Settles(t, do),
           UNCHANGED <<actor, open>>
    PROVE  Fine(t) /\ req'[t] # None /\ req'[t].pc = "write"
<1> DEFINE r == req[t]
           u == r.user
           c == [do |-> do, by |-> u,
                 belongs |-> IF u = None THEN <<>> ELSE belongs[u],
                 perms |-> IF u = None THEN {} ELSE UserPermissions(u)]
           s == [r EXCEPT !.pc = "write", !.seen = 0, !.change = c]
<1>1. /\ TypeOK /\ r # None /\ r.pc = "handle" /\ r \in InFlight
      /\ Rightful(r, actor[t], t \in open) /\ Settled(r, keys)
  BY DEF RequestsInv, TypeOK, Settles, At, ActorInv, SettledInv
<1>2. c \in Changes /\ Becomes(t, s)
  BY <1>1, DecideBecomes DEF Settles
<1>3. /\ s \in InFlight /\ s.pc = "write" /\ s.session = r.session /\ s.bearer = r.bearer
      /\ s.resolved = r.resolved /\ s.user = r.user /\ s.key = r.key /\ s.set = r.set
      /\ s.change = c
  <2> HIDE DEF c, r
  <2> QED  BY <1>1, <1>2, Decided
<1> HIDE DEF s
<1>4. s # None /\ c # None /\ s.change # None
  BY <1>2, <1>3, NoneIsNone
<1>5. /\ c.do = do /\ c.by = u
      /\ u # None => c.belongs = belongs[u] /\ c.perms = UserPermissions(u)
  OBVIOUS
<1>6. /\ do # <<"register">> => u # None
      /\ do[1] = "revoke key" => keys[do[2]] # None
      /\ do[1] = "create" => Covers(UserPermissions(u), belongs[u], do[2])
  BY DEF Settles
<1>7. do = <<"register">> => do[1] # "create"
  OBVIOUS
<1> HIDE DEF c, u, r
<1>8. Rightful(s, actor[t], t \in open)
  <2>1. Caller(s) = Caller(r) /\ SessionActor(s) = SessionActor(r)
    BY <1>3 DEF Caller, SessionActor
  <2> QED  BY <1>1, <1>3, <1>4, <2>1 DEF Rightful
<1>9. Settled(s, keys)
  <2>1. s.user = u
    BY <1>3 DEF u
  <2> QED  BY <1>1, <1>3, <1>4, <1>5, <1>6, <2>1 DEF Settled
<1>10. Scoped(s)
  BY <1>3, <1>5, <1>6, <1>7 DEF Scoped
<1> QED  BY <1>1, <1>2, <1>3, <1>4, <1>8, <1>9, <1>10, Became, Became1

LEMMA HandleFine ==
    ASSUME RequestsInv, NEW t \in Threads,
           \/ HandlePublic(t) \/ HandleManage(t)
           \/ \E payload \in Teams \cup {"null", "absent"} : HandleCreate(t, payload)
           \/ \E x \in Resources : HandleDelete(t, x)
    PROVE  Fine(t) /\ req'[t] # None /\ req'[t].pc = "write"
<1>1. \E do \in Doings : Settles(t, do)
  BY PublicSettles, CreateSettles, DeleteSettles, ManageSettles, DoingsMade DEF RequestsInv
<1>2. UNCHANGED <<actor, open>>
  BY DEF HandlePublic, HandleManage, HandleCreate, HandleDelete
<1> QED  BY <1>1, <1>2, SettlesFine

LEMMA EndFine ==
    ASSUME RequestsInv, NEW t \in Threads, HandleNothing(t) \/ Write(t)
    PROVE  Fine(t) /\ req'[t] = None
<1>1. req[t] # None /\ Respond(t, Cleared(t))
  BY DEF HandleNothing, Write, At
<1> QED  BY <1>1, Answered1

LEMMA ServeFine ==
    ASSUME RequestsInv, NEW t \in Threads, Serve(t)
    PROVE  /\ Fine(t)
           /\ RateGet(t) \/ (req'[t] # None => req'[t].pc # "rateset")
<1>1. CASE \E call \in Calls : Arrive(t, call)
  BY <1>1, ArriveFine
<1>2. CASE TenantMiddleware(t) \/ ProjectMiddleware(t) \/ Authenticate(t)
  BY <1>2, TenantFine, ProjectFine, AuthenticateFine
<1>3. CASE RateGet(t) \/ RateSet(t) \/ RateUnavailable(t)
  BY <1>3, RateGetFine, RateSetFine
<1>4. CASE \/ HandlePublic(t) \/ HandleManage(t)
           \/ \E payload \in Teams \cup {"null", "absent"} : HandleCreate(t, payload)
           \/ \E x \in Resources : HandleDelete(t, x)
  BY <1>4, HandleFine
<1>5. CASE HandleNothing(t) \/ Write(t)
  BY <1>5, EndFine
<1> QED  BY <1>1, <1>2, <1>3, <1>4, <1>5 DEF Serve

-----------------------------------------------------------------------------
(* What is written *)

LEMMA RemoveAtParts ==
    ASSUME NEW S, NEW s \in Seq(S), NEW i \in 1 .. Len(s)
    PROVE  /\ RemoveAt(s, i) \in Seq(S) /\ Len(RemoveAt(s, i)) = Len(s) - 1
           /\ \A j \in 1 .. Len(s) - 1 : RemoveAt(s, i)[j] = IF j < i THEN s[j] ELSE s[j + 1]
<1> DEFINE a == SubSeq(s, 1, i - 1)
           b == SubSeq(s, i + 1, Len(s))
<1>1. Len(s) \in Nat /\ \A j \in 1 .. Len(s) : s[j] \in S
  BY LenProperties, ElementOfSeq
<1>2. a \in Seq(S) /\ Len(a) = i - 1 /\ \A j \in 1 .. i - 1 : a[j] = s[j]
  <2>1. Len(a) = IF 1 <= i - 1 THEN i - 1 - 1 + 1 ELSE 0
    BY <1>1, SubSeqProperties
  <2>2. a \in Seq(S) /\ \A j \in 1 .. i - 1 : a[j] = s[1 + j - 1]
    BY <1>1, SubSeqProperties
  <2> QED  BY <2>1, <2>2
<1>3. b \in Seq(S) /\ Len(b) = Len(s) - i /\ \A j \in 1 .. Len(s) - i : b[j] = s[i + j]
  <2>1. Len(b) = IF i + 1 <= Len(s) THEN Len(s) - (i + 1) + 1 ELSE 0
    BY <1>1, SubSeqProperties
  <2>2. b \in Seq(S) /\ \A j \in 1 .. Len(s) - (i + 1) + 1 : b[j] = s[i + 1 + j - 1]
    BY <1>1, SubSeqProperties
  <2> QED  BY <1>1, <2>1, <2>2
<1>4. RemoveAt(s, i) = a \o b
  BY DEF RemoveAt
<1> HIDE DEF a, b
<1>5. /\ a \o b \in Seq(S) /\ Len(a \o b) = Len(a) + Len(b)
      /\ \A j \in 1 .. Len(a) + Len(b) : (a \o b)[j] = IF j <= Len(a) THEN a[j] ELSE b[j - Len(a)]
  BY <1>2, <1>3, ConcatProperties
<1>6. ASSUME NEW j \in 1 .. Len(s) - 1
      PROVE  (a \o b)[j] = IF j < i THEN s[j] ELSE s[j + 1]
  <2>1. (a \o b)[j] = IF j <= i - 1 THEN a[j] ELSE b[j - (i - 1)]
    BY <1>1, <1>2, <1>3, <1>5
  <2>2. CASE j < i
    BY <1>1, <1>2, <2>1, <2>2
  <2>3. CASE j >= i
    <3>1. j - (i - 1) \in 1 .. Len(s) - i /\ i + (j - (i - 1)) = j + 1
      BY <1>1, <2>3
    <3> QED  BY <1>1, <1>3, <2>1, <2>3, <3>1
  <2>4. j < i \/ j >= i
    BY <1>1
  <2> QED  BY <2>2, <2>3, <2>4, Zenon
<1> QED  BY <1>1, <1>2, <1>3, <1>4, <1>5, <1>6

(* Memberships of teams that are there, in roles that are there, once each. *)
MembershipsOK(s, ts, gs) ==
    /\ s \in Seq(Memberships)
    /\ \A i \in DOMAIN s :
          /\ s[i].team \in ts /\ gs[s[i].role] # None
          /\ \A j \in DOMAIN s : s[i].team = s[j].team => i = j

LEMMA BelongsOK ==
    ASSUME TypeOK, NEW u \in Users
    PROVE  MembershipsOK(belongs[u], teams, grants)
BY DEF TypeOK, MembershipsOK

LEMMA MemberJoins ==
    ASSUME TypeOK, NEW u \in Users, NEW team \in teams, NEW r \in Roles,
           grants[r] # None, Joined(u, team) = {}
    PROVE  MembershipsOK(Append(belongs[u], [team |-> team, role |-> r]), teams, grants)
<1> DEFINE m == [team |-> team, role |-> r]
           s == belongs[u]
           a == Append(s, m)
<1>1. MembershipsOK(s, teams, grants) /\ teams \subseteq Teams
  BY BelongsOK DEF TypeOK
<1>2. m \in Memberships /\ m.team = team /\ m.role = r
  BY <1>1 DEF Memberships
<1>3. \A i \in DOMAIN s : s[i].team # team
  BY DEF Joined
<1> HIDE DEF m, s
<1>4. s \in Seq(Memberships) /\ Len(s) \in Nat /\ DOMAIN s = 1 .. Len(s)
  BY <1>1, LenProperties DEF MembershipsOK
<1>5. /\ a \in Seq(Memberships) /\ Len(a) = Len(s) + 1 /\ DOMAIN a = 1 .. Len(s) + 1
      /\ \A i \in 1 .. Len(s) : a[i] = s[i]
      /\ a[Len(s) + 1] = m
  BY <1>2, <1>4, AppendProperties, LenProperties
<1> HIDE DEF a
<1>6. ASSUME NEW i \in DOMAIN a
      PROVE  /\ a[i].team \in teams /\ grants[a[i].role] # None
             /\ \A j \in DOMAIN a : a[i].team = a[j].team => i = j
  <2>1. CASE i \in 1 .. Len(s)
    BY <1>1, <1>2, <1>3, <1>4, <1>5, <2>1 DEF MembershipsOK
  <2>2. CASE i = Len(s) + 1
    BY <1>1, <1>2, <1>3, <1>4, <1>5, <2>2 DEF MembershipsOK
  <2> QED  BY <1>4, <1>5, <1>6, <2>1, <2>2
<1> QED  BY <1>5, <1>6 DEF MembershipsOK, a, s, m

LEMMA MemberLeaves ==
    ASSUME TypeOK, NEW u \in Users, NEW team
    PROVE  /\ MembershipsOK(Without(u, team), teams, grants)
           /\ \A i \in DOMAIN Without(u, team) : Without(u, team)[i].team # team
<1> DEFINE s == belongs[u]
           k == CHOOSE i \in Joined(u, team) : TRUE
           w == RemoveAt(s, k)
<1>1. MembershipsOK(s, teams, grants)
  BY BelongsOK
<1>2. s \in Seq(Memberships) /\ Len(s) \in Nat /\ DOMAIN s = 1 .. Len(s)
  BY <1>1, LenProperties DEF MembershipsOK
<1>3. CASE Joined(u, team) = {}
  <2>1. Without(u, team) = s
    BY <1>3 DEF Without
  <2>2. \A i \in DOMAIN s : s[i].team # team
    BY <1>3 DEF Joined
  <2> QED  BY <1>1, <2>1, <2>2
<1>4. CASE Joined(u, team) # {}
  <2>1. Without(u, team) = w
    BY <1>4 DEF Without
  <2>2. k \in 1 .. Len(s) /\ s[k].team = team
    <3>1. k \in Joined(u, team)
      BY <1>4
    <3> HIDE DEF k
    <3> QED  BY <1>2, <3>1 DEF Joined
  <2>3. \A i \in 1 .. Len(s) : i # k => s[i].team # team
    BY <1>1, <1>2, <2>2 DEF MembershipsOK
  <2> HIDE DEF k, s
  <2>4. /\ w \in Seq(Memberships) /\ Len(w) = Len(s) - 1
        /\ \A j \in 1 .. Len(s) - 1 : w[j] = IF j < k THEN s[j] ELSE s[j + 1]
    BY <1>2, <2>2, RemoveAtParts
  <2> HIDE DEF w
  <2>5. DOMAIN w = 1 .. Len(s) - 1
    BY <1>2, <2>4, LenProperties
  <2> DEFINE from(j) == IF j < k THEN j ELSE j + 1
  <2>6. \A j \in DOMAIN w : from(j) \in DOMAIN s /\ from(j) # k /\ w[j] = s[from(j)]
    BY <1>2, <2>2, <2>4, <2>5
  <2>7. \A i, j \in DOMAIN w : from(i) = from(j) => i = j
    BY <1>2, <2>2, <2>5
  <2> HIDE DEF from
  <2>8. \A i \in DOMAIN w : /\ w[i].team \in teams /\ grants[w[i].role] # None
                            /\ \A j \in DOMAIN w : w[i].team = w[j].team => i = j
    BY <1>1, <2>6, <2>7 DEF MembershipsOK
  <2>9. \A i \in DOMAIN w : w[i].team # team
    BY <1>2, <2>3, <2>6
  <2> QED  BY <2>1, <2>4, <2>8, <2>9 DEF MembershipsOK
<1> QED  BY <1>3, <1>4

(* A membership outlives what its team and its role are not taken by. *)
LEMMA MembershipsStay ==
    ASSUME NEW s, NEW ts, NEW gs, MembershipsOK(s, ts, gs), NEW ts2, NEW gs2,
           \A i \in DOMAIN s : s[i].team \in ts2 /\ gs2[s[i].role] # None
    PROVE  MembershipsOK(s, ts2, gs2)
BY DEF MembershipsOK

DbOK ==
    /\ suspended \in BOOLEAN /\ enforced \in BOOLEAN /\ inactive \subseteq Users
    /\ teams \subseteq Teams
    /\ belongs \in [Users -> Seq(Memberships)]
    /\ grants \in [Roles -> {None} \cup SUBSET Permissions]
    /\ \A u \in Users : MembershipsOK(belongs[u], teams, grants)
    /\ policies \subseteq Policies
    /\ keys \in [Keys -> ApiKeys \cup {None}] /\ res \in [Resources -> Owned \cup {None}]

LEMMA TypeIsDb ==
    TypeOK => DbOK
BY BelongsOK DEF TypeOK, DbOK

LEMMA TeamsWritten ==
    ASSUME TypeOK, NEW do \in Doings, NEW by \in Users, WriteTeams(do, by)
    PROVE  DbOK'
<1>0. DbOK
  BY TypeIsDb
<1>1. UNCHANGED <<suspended, enforced, inactive, grants, policies, keys>>
  BY DEF WriteTeams
<1>2. CASE /\ \E team \in Teams \ teams : teams' = teams \cup {team}
           /\ UNCHANGED <<belongs, res>>
  <2>1. teams' \subseteq Teams /\ teams \subseteq teams'
    BY <1>0, <1>2 DEF DbOK
  <2>2. \A u \in Users : MembershipsOK(belongs[u], teams', grants)
    BY <1>0, <2>1, MembershipsStay DEF DbOK, MembershipsOK
  <2> QED  BY <1>0, <1>1, <1>2, <2>1, <2>2 DEF DbOK
<1>3. CASE /\ do[1] = "drop team"
           /\ teams' = teams \ {do[2]}
           /\ belongs' = [u \in Users |-> Without(u, do[2])]
           /\ res' = [x \in Resources |->
                        IF res[x] # None /\ res[x].team = do[2]
                        THEN [res[x] EXCEPT !.team = None] ELSE res[x]]
  <2>1. teams' \subseteq Teams
    BY <1>0, <1>3 DEF DbOK
  <2>2. ASSUME NEW u \in Users
        PROVE  belongs'[u] \in Seq(Memberships) /\ MembershipsOK(belongs'[u], teams', grants)
    <3> DEFINE w == Without(u, do[2])
    <3>1. MembershipsOK(w, teams, grants) /\ \A i \in DOMAIN w : w[i].team # do[2]
      BY MemberLeaves
    <3>2. belongs'[u] = w
      BY <1>3
    <3> HIDE DEF w
    <3>3. \A i \in DOMAIN w : w[i].team \in teams' /\ grants[w[i].role] # None
      BY <1>3, <3>1 DEF MembershipsOK
    <3>4. MembershipsOK(w, teams', grants)
      BY <3>1, <3>3, MembershipsStay
    <3> QED  BY <3>2, <3>4 DEF MembershipsOK
  <2>3. belongs' \in [Users -> Seq(Memberships)]
    BY <1>3, <2>2
  <2>4. res' \in [Resources -> Owned \cup {None}]
    <3>1. ASSUME NEW x \in Resources, res[x] # None
          PROVE  [res[x] EXCEPT !.team = None] \in Owned
      BY <1>0, <3>1 DEF DbOK, Owned
    <3> QED  BY <1>0, <1>3, <3>1 DEF DbOK
  <2> QED  BY <1>0, <1>1, <2>1, <2>2, <2>3, <2>4 DEF DbOK
<1>4. CASE /\ do[1] = "join" /\ do[2] \in teams /\ grants[do[4]] # None
           /\ Joined(do[3], do[2]) = {}
           /\ belongs' = [belongs EXCEPT ![do[3]] = Append(@, [team |-> do[2], role |-> do[4]])]
           /\ UNCHANGED <<teams, res>>
  <2> DEFINE u == do[3]
             a == Append(belongs[u], [team |-> do[2], role |-> do[4]])
  <2>1. do[3] \in Users /\ do[4] \in Roles
    BY <1>4, DoingsParts
  <2>2. MembershipsOK(a, teams, grants)
    BY <1>4, <2>1, MemberJoins
  <2>3. belongs' = [belongs EXCEPT ![u] = a]
    BY <1>4
  <2> HIDE DEF a, u
  <2>4. belongs' \in [Users -> Seq(Memberships)]
        /\ \A v \in Users : MembershipsOK(belongs'[v], teams, grants)
    BY <1>0, <2>2, <2>3 DEF DbOK, MembershipsOK
  <2> QED  BY <1>0, <1>1, <1>4, <2>4 DEF DbOK
<1>5. CASE /\ do[1] = "leave"
           /\ belongs' = [belongs EXCEPT ![do[3]] = Without(do[3], do[2])]
           /\ UNCHANGED <<teams, res>>
  <2> DEFINE u == do[3]
             w == Without(u, do[2])
  <2>1. u \in Users
    BY <1>5, DoingsParts
  <2>2. MembershipsOK(w, teams, grants)
    BY <2>1, MemberLeaves
  <2>3. belongs' = [belongs EXCEPT ![u] = w]
    BY <1>5
  <2> HIDE DEF u, w
  <2>4. belongs' \in [Users -> Seq(Memberships)]
        /\ \A v \in Users : MembershipsOK(belongs'[v], teams, grants)
    BY <1>0, <2>2, <2>3 DEF DbOK, MembershipsOK
  <2> QED  BY <1>0, <1>1, <1>5, <2>4 DEF DbOK
<1>6. CASE /\ do[1] = "create" /\ do[2] \in teams \cup {None}
           /\ \E x \in Resources : res[x] = None
                /\ res' = [res EXCEPT ![x] = [team |-> do[2], by |-> by]]
           /\ UNCHANGED <<teams, belongs>>
  <2>1. [team |-> do[2], by |-> by] \in Owned
    BY <1>0, <1>6 DEF DbOK, Owned
  <2>2. res' \in [Resources -> Owned \cup {None}]
    BY <1>0, <1>6, <2>1 DEF DbOK
  <2> QED  BY <1>0, <1>1, <1>6, <2>2 DEF DbOK
<1>7. CASE /\ do[1] = "delete"
           /\ res' = [res EXCEPT ![do[2]] = None]
           /\ UNCHANGED <<teams, belongs>>
  BY <1>0, <1>1, <1>7 DEF DbOK
<1> QED  BY <1>2, <1>3, <1>4, <1>5, <1>6, <1>7 DEF WriteTeams

(* A role that is dropped is nobody's. *)
LEMMA RulesWritten ==
    ASSUME TypeOK, NEW do \in Doings, NEW by \in Users, WriteRules(do, by),
           do[1] = "revoke key" => keys[do[2]] # None
    PROVE  DbOK' /\ \A k \in Keys : keys[k] # None => keys'[k] # None
<1>0. DbOK
  BY TypeIsDb
<1>1. UNCHANGED <<suspended, enforced, teams, belongs, res>>
  BY DEF WriteRules
<1>2. CASE /\ do[1] \in {"new role", "edit role"}
           /\ \E g \in EditGrants : grants' = [grants EXCEPT ![do[2]] = g]
           /\ UNCHANGED <<inactive, policies, keys>>
  <2>1. PICK g \in EditGrants : grants' = [grants EXCEPT ![do[2]] = g]
    BY <1>2
  <2>2. g \in SUBSET Permissions /\ g # None
    BY RolesAssumption
  <2>3. /\ grants' \in [Roles -> {None} \cup SUBSET Permissions]
        /\ \A r \in Roles : grants[r] # None => grants'[r] # None
    BY <1>0, <2>1, <2>2 DEF DbOK
  <2>4. ASSUME NEW u \in Users
        PROVE  MembershipsOK(belongs[u], teams, grants')
    <3>1. MembershipsOK(belongs[u], teams, grants)
      BY <1>0 DEF DbOK
    <3>2. \A i \in DOMAIN belongs[u] : belongs[u][i] \in Memberships
      BY <3>1, LenProperties, ElementOfSeq DEF MembershipsOK
    <3>3. \A i \in DOMAIN belongs[u] : belongs[u][i].role \in Roles
      BY <3>2 DEF Memberships
    <3>4. \A i \in DOMAIN belongs[u] :
             belongs[u][i].team \in teams /\ grants'[belongs[u][i].role] # None
      BY <2>3, <3>1, <3>3 DEF MembershipsOK
    <3> QED  BY <3>1, <3>4, MembershipsStay
  <2> QED  BY <1>0, <1>1, <1>2, <2>3, <2>4 DEF DbOK
<1>3. CASE /\ do[1] = "drop role" /\ ~InUse(do[2])
           /\ grants' = [grants EXCEPT ![do[2]] = None]
           /\ policies' = {q \in policies : q.role # do[2]}
           /\ UNCHANGED <<inactive, keys>>
  <2>1. grants' \in [Roles -> {None} \cup SUBSET Permissions]
        /\ \A r \in Roles \ {do[2]} : grants'[r] = grants[r]
    BY <1>0, <1>3 DEF DbOK
  <2>2. ASSUME NEW u \in Users
        PROVE  MembershipsOK(belongs[u], teams, grants')
    <3>1. MembershipsOK(belongs[u], teams, grants)
      BY <1>0 DEF DbOK
    <3>2. \A i \in DOMAIN belongs[u] : belongs[u][i] \in Memberships
      BY <3>1, LenProperties, ElementOfSeq DEF MembershipsOK
    <3>3. \A i \in DOMAIN belongs[u] : belongs[u][i].role \in Roles \ {do[2]}
      BY <1>3, <3>2 DEF Memberships, InUse
    <3>4. \A i \in DOMAIN belongs[u] :
             belongs[u][i].team \in teams /\ grants'[belongs[u][i].role] # None
      BY <2>1, <3>1, <3>3 DEF MembershipsOK
    <3> QED  BY <3>1, <3>4, MembershipsStay
  <2>3. policies' \subseteq Policies
    BY <1>0, <1>3 DEF DbOK
  <2> QED  BY <1>0, <1>1, <1>3, <2>1, <2>2, <2>3 DEF DbOK
<1>4. CASE /\ do[1] = "policy"
           /\ policies' = IF do[2] \in policies THEN policies \ {do[2]} ELSE policies \cup {do[2]}
           /\ UNCHANGED <<inactive, grants, keys>>
  <2>1. do[2] \in Policies
    BY <1>4, DoingsParts
  <2>2. policies' \subseteq Policies
    BY <1>0, <1>4, <2>1 DEF DbOK
  <2> QED  BY <1>0, <1>1, <1>4, <2>2 DEF DbOK
<1>5. CASE /\ do[1] = "new key"
           /\ \E k \in Keys, g \in KeyGrants :
                /\ keys[k] = None
                /\ keys' = [keys EXCEPT ![k] = [by |-> by, perms |-> g, revoked |-> FALSE]]
           /\ UNCHANGED <<inactive, grants, policies>>
  <2>1. PICK k \in Keys : \E g \in KeyGrants :
                /\ keys[k] = None
                /\ keys' = [keys EXCEPT ![k] = [by |-> by, perms |-> g, revoked |-> FALSE]]
    BY <1>5
  <2>2. PICK g \in KeyGrants :
                /\ keys[k] = None
                /\ keys' = [keys EXCEPT ![k] = [by |-> by, perms |-> g, revoked |-> FALSE]]
    BY <2>1
  <2>3. g \in SUBSET Permissions
    BY RolesAssumption
  <2>4. [by |-> by, perms |-> g, revoked |-> FALSE] \in ApiKeys
    BY <2>3 DEF ApiKeys
  <2>5. /\ keys' \in [Keys -> ApiKeys \cup {None}]
        /\ \A j \in Keys : keys[j] # None => keys'[j] # None
    BY <1>0, <2>2, <2>4 DEF DbOK
  <2> QED  BY <1>0, <1>1, <1>5, <2>5 DEF DbOK
<1>6. CASE /\ do[1] = "revoke key"
           /\ keys' = [keys EXCEPT ![do[2]].revoked = TRUE]
           /\ UNCHANGED <<inactive, grants, policies>>
  <2> DEFINE k == do[2]
             row == [keys[k] EXCEPT !.revoked = TRUE]
  <2>1. k \in Keys
    BY <1>6, DoingsParts
  <2>2. keys[k] \in ApiKeys
    BY <1>0, <1>6, <2>1 DEF DbOK
  <2>3. row \in ApiKeys
    BY <2>2 DEF ApiKeys
  <2>4. keys' = [keys EXCEPT ![k] = row] /\ row # None
    BY <1>6, <2>3, NoneIsNone
  <2> HIDE DEF k, row
  <2>5. /\ keys' \in [Keys -> ApiKeys \cup {None}]
        /\ \A j \in Keys : keys[j] # None => keys'[j] # None
    BY <1>0, <2>1, <2>3, <2>4 DEF DbOK
  <2> QED  BY <1>0, <1>1, <1>6, <2>5 DEF DbOK
<1>7. CASE /\ do[1] = "deactivate"
           /\ inactive' = inactive \cup {do[2]}
           /\ UNCHANGED <<grants, policies, keys>>
  <2>1. do[2] \in Users
    BY <1>7, DoingsParts
  <2> QED  BY <1>0, <1>1, <1>7, <2>1 DEF DbOK
<1> QED  BY <1>2, <1>3, <1>4, <1>5, <1>6, <1>7 DEF WriteRules

(* Only Write and the operators change the database. *)
LEMMA DbStep ==
    ASSUME RequestsInv, [Next]_vars
    PROVE  DbOK' /\ \A k \in Keys : keys[k] # None => keys'[k] # None
<1>0. TypeOK /\ DbOK
  BY TypeIsDb DEF RequestsInv
<1>1. CASE UNCHANGED dbVars
  BY <1>0, <1>1 DEF dbVars, DbOK
<1>2. ASSUME NEW t \in Threads, Write(t)
      PROVE  DbOK' /\ \A k \in Keys : keys[k] # None => keys'[k] # None
  <2> DEFINE c == req[t].change
  <2>1. Settled(req[t], keys) /\ req[t] # None /\ req[t].pc = "write"
    BY <1>2 DEF RequestsInv, SettledInv, Write, At
  <2>2. c \in Changes /\ c.by = req[t].user /\ (c.do # <<"register">> => c.by # None)
        /\ (c.do[1] = "revoke key" => keys[c.do[2]] # None)
    BY <1>0, <2>1, RequestFields DEF Settled, TypeOK
  <2>3. c.do \in Doings /\ c.by \in Users \cup {None}
    BY <2>2, ChangeFields
  <2>4. CASE WriteTeams(c.do, c.by)
    <3>1. c.do # <<"register">>
      <4>1. c.do[1] # "register"
        BY <2>4 DEF WriteTeams
      <4> HIDE DEF c
      <4> QED  BY <4>1
    <3>2. UNCHANGED keys
      BY <2>4 DEF WriteTeams
    <3> QED  BY <1>0, <2>2, <2>3, <2>4, <3>1, <3>2, TeamsWritten
  <2>5. CASE WriteRules(c.do, c.by)
    <3>1. c.do # <<"register">>
      <4>1. c.do[1] # "register"
        BY <2>5 DEF WriteRules
      <4> HIDE DEF c
      <4> QED  BY <4>1
    <3> QED  BY <1>0, <2>2, <2>3, <2>5, <3>1, RulesWritten
  <2> QED  BY <1>1, <1>2, <2>4, <2>5 DEF Write
<1>3. ASSUME NEW t \in Threads, Serve(t), ~Write(t)
      PROVE  UNCHANGED dbVars
  BY <1>3 DEF Serve, Arrive, TenantMiddleware, ProjectMiddleware, RateGet, RateSet,
     RateUnavailable, Authenticate, HandlePublic, HandleCreate, HandleDelete, HandleManage,
     HandleNothing
<1>4. CASE NextWindow \/ UNCHANGED vars
  BY <1>1, <1>4 DEF NextWindow, vars
<1>5. CASE SetTenantStatus
  BY <1>0, <1>5 DEF SetTenantStatus, DbOK
<1> QED  BY <1>1, <1>2, <1>3, <1>4, <1>5 DEF Next

-----------------------------------------------------------------------------
(* The invariant *)

LEMMA EmptyMemberships ==
    /\ MembershipsOK(<<>>, teams, grants)
    /\ \A team \in teams, r \in Roles :
          team \in Teams /\ grants[r] # None =>
             MembershipsOK(<<[team |-> team, role |-> r]>>, teams, grants)
<1>1. MembershipsOK(<<>>, teams, grants)
  BY EmptySeq DEF MembershipsOK
<1>2. ASSUME NEW team \in teams, NEW r \in Roles, team \in Teams, grants[r] # None
      PROVE  MembershipsOK(<<[team |-> team, role |-> r]>>, teams, grants)
  <2> DEFINE m == [team |-> team, role |-> r]
             s == <<m>>
  <2>1. m \in Memberships /\ m.team = team /\ m.role = r
    BY <1>2 DEF Memberships
  <2> HIDE DEF m
  <2>2. s \in Seq(Memberships) /\ DOMAIN s = {1} /\ s[1] = m
    BY <2>1
  <2> HIDE DEF s
  <2>3. MembershipsOK(s, teams, grants)
    BY <1>2, <2>1, <2>2 DEF MembershipsOK
  <2> QED  BY <2>3 DEF s, m
<1> QED  BY <1>1, <1>2

LEMMA RequestsInit ==
    Init => RequestsInv /\ LimitInv
<1> SUFFICES ASSUME Init
             PROVE  RequestsInv /\ LimitInv
  OBVIOUS
<1>1. PICK t \in Teams :
         /\ teams = {t}
         /\ belongs \in [Users -> {<<>>} \cup {<<[team |-> t, role |-> r]>> : r \in Roles}]
  BY DEF Init
<1>2. grants \in [Roles -> {None} \cup SUBSET Permissions] /\ \A r \in Roles : grants[r] # None
  BY RolesAssumption DEF Init
<1>3. ASSUME NEW u \in Users
      PROVE  MembershipsOK(belongs[u], teams, grants)
  <2>1. belongs[u] = <<>> \/ \E r \in Roles : belongs[u] = <<[team |-> t, role |-> r]>>
    BY <1>1
  <2> QED  BY <1>1, <1>2, <2>1, EmptyMemberships
<1>4. belongs \in [Users -> Seq(Memberships)]
  BY <1>1, <1>3 DEF MembershipsOK
<1>5. served \in 0 .. MaxRequests
  BY RolesAssumption DEF Init
<1>6. TypeOK
  BY <1>1, <1>2, <1>3, <1>4, <1>5 DEF Init, TypeOK, MembershipsOK
<1>7. SettledInv /\ ActorInv /\ ScopeInv
  BY DEF Init, SettledInv, Settled, ActorInv, Rightful, ScopeInv, Scoped
<1>8. LimitInv
  BY RolesAssumption DEF Init, LimitInv, Counting, At
<1> QED  BY <1>6, <1>7, <1>8 DEF RequestsInv

(* A step that is no thread's leaves requests and actors alone. *)
LEMMA StepFine ==
    ASSUME RequestsInv, [Next]_vars
    PROVE  \/ \E t \in Threads : Serve(t) /\ Fine(t)
           \/ UNCHANGED <<req, actor, open, served>>
<1>1. ASSUME NEW t \in Threads, Serve(t)
      PROVE  Fine(t)
  BY <1>1, ServeFine
<1>2. CASE NextWindow \/ SetTenantStatus \/ UNCHANGED vars
  BY <1>2 DEF NextWindow, SetTenantStatus, vars
<1> QED  BY <1>1, <1>2 DEF Next

LEMMA RequestsStep ==
    ASSUME RequestsInv, [Next]_vars
    PROVE  SettledInv' /\ ActorInv' /\ ScopeInv'
<1>0. TypeOK /\ SettledInv /\ ActorInv /\ ScopeInv
  BY DEF RequestsInv
<1>1. ASSUME NEW r \in InFlight \cup {None}, Settled(r, keys)
      PROVE  Settled(r, keys')
  <2>1. \A k \in Keys : keys[k] # None => keys'[k] # None
    BY DbStep
  <2>2. CASE r = None
    BY <2>2 DEF Settled
  <2>3. CASE r # None
    <3>1. r.change # None => r.change \in Changes
      BY <2>3, RequestFields
    <3>2. r.change # None /\ r.change.do[1] = "revoke key" => r.change.do[2] \in Keys
      BY <3>1, ChangeFields, DoingsParts
    <3> QED  BY <1>1, <2>1, <3>2 DEF Settled
  <2> QED  BY <2>2, <2>3
<1>2. ASSUME NEW t \in Threads, Fine(t)
      PROVE  SettledInv' /\ ActorInv' /\ ScopeInv'
  <2>1. ASSUME NEW o \in Threads
        PROVE  /\ req'[o] \in InFlight \cup {None}
               /\ Settled(req'[o], keys) /\ Scoped(req'[o])
               /\ Rightful(req'[o], actor'[o], o \in open')
    <3>1. CASE o = t
      BY <1>2, <3>1 DEF Fine
    <3>2. CASE o # t
      <4>1. req'[o] = req[o] /\ actor'[o] = actor[o] /\ (o \in open' <=> o \in open)
        BY <1>2, <3>2 DEF Fine, Others
      <4>2. /\ req[o] \in InFlight \cup {None}
            /\ Settled(req[o], keys) /\ Scoped(req[o])
        BY <1>0 DEF TypeOK, SettledInv, ScopeInv
      <4>3. Rightful(req[o], actor[o], o \in open)
        BY <1>0 DEF ActorInv
      <4>4. Rightful(req'[o], actor'[o], o \in open')
        BY <4>1, <4>3 DEF Rightful
      <4> QED  BY <4>1, <4>2, <4>4
    <3> QED  BY <3>1, <3>2
  <2> QED  BY <1>1, <2>1 DEF SettledInv, ActorInv, ScopeInv
<1>3. CASE UNCHANGED <<req, actor, open>>
  <2>1. ScopeInv' /\ ActorInv'
    BY <1>0, <1>3 DEF ScopeInv, ActorInv, Rightful
  <2>2. SettledInv'
    BY <1>0, <1>1, <1>3 DEF SettledInv, TypeOK
  <2> QED  BY <2>1, <2>2
<1> QED  BY <1>2, <1>3, StepFine

(* The thread-locals, the counters and the number of requests. *)
LEMMA ActorType ==
    ASSUME RequestsInv, [Next]_vars
    PROVE  actor' \in [Threads -> Users \cup Keys \cup {None}] /\ open' \subseteq Threads
<1>0. /\ actor \in [Threads -> Users \cup Keys \cup {None}] /\ open \subseteq Threads
      /\ req \in [Threads -> InFlight \cup {None}]
  BY DEF RequestsInv, TypeOK
<1>1. CASE UNCHANGED <<actor, open>>
  BY <1>0, <1>1
<1>2. ASSUME NEW t \in Threads, NEW a \in Users \cup Keys \cup {None},
             actor' = [actor EXCEPT ![t] = a], open' \in {open, open \cup {t}, open \ {t}}
      PROVE  actor' \in [Threads -> Users \cup Keys \cup {None}] /\ open' \subseteq Threads
  BY <1>0, <1>2
<1>3. ASSUME NEW t \in Threads, \E a \in {actor[t], Cleared(t)} : Respond(t, a)
      PROVE  actor' \in [Threads -> Users \cup Keys \cup {None}] /\ open' \subseteq Threads
  <2>1. PICK a \in {actor[t], Cleared(t)} : Respond(t, a)
    BY <1>3
  <2>2. a \in Users \cup Keys \cup {None}
    BY <1>0 DEF Cleared
  <2>3. actor' = [actor EXCEPT ![t] = a] /\ open' \in {open, open \cup {t}, open \ {t}}
    BY <2>1 DEF Respond
  <2> QED  BY <1>2, <2>2, <2>3
<1>4. ASSUME NEW t \in Threads, TenantMiddleware(t)
      PROVE  actor' \in [Threads -> Users \cup Keys \cup {None}] /\ open' \subseteq Threads
  <2>1. req[t] \in InFlight
    BY <1>0, <1>4 DEF TenantMiddleware, At
  <2>2. req[t].session \in Users \cup Keys \cup {None}
    BY <2>1, RequestFields
  <2>3. CASE Respond(t, actor[t])
    BY <1>3, <2>3
  <2>4. CASE actor' = [actor EXCEPT ![t] = IF req[t].session = None THEN @ ELSE req[t].session]
             /\ UNCHANGED open
    BY <1>0, <1>2, <2>2, <2>4
  <2>5. CASE actor' = [actor EXCEPT ![t] = req[t].session] /\ open' = open \cup {t}
    BY <1>2, <2>2, <2>5
  <2> QED  BY <1>1, <1>4, <2>3, <2>4, <2>5 DEF TenantMiddleware
<1>5. ASSUME NEW t \in Threads, Authenticate(t)
      PROVE  actor' \in [Threads -> Users \cup Keys \cup {None}] /\ open' \subseteq Threads
  <2>1. req[t] \in InFlight
    BY <1>0, <1>5 DEF Authenticate, At
  <2>2. req[t].bearer \in Users \cup Keys \cup {None}
    BY <2>1, RequestFields
  <2>3. CASE actor' = [actor EXCEPT ![t] = req[t].bearer] /\ UNCHANGED open
    BY <1>2, <2>2, <2>3
  <2> QED  BY <1>1, <1>3, <1>5, <2>3 DEF Authenticate
<1>6. ASSUME NEW t \in Threads,
             ProjectMiddleware(t) \/ RateSet(t) \/ HandleNothing(t) \/ Write(t)
      PROVE  actor' \in [Threads -> Users \cup Keys \cup {None}] /\ open' \subseteq Threads
  BY <1>1, <1>3, <1>6 DEF ProjectMiddleware, RateSet, HandleNothing, Write
<1>7. ASSUME NEW t \in Threads,
             \/ \E call \in Calls : Arrive(t, call)
             \/ RateGet(t) \/ RateUnavailable(t) \/ HandlePublic(t) \/ HandleManage(t)
             \/ \E payload \in Teams \cup {"null", "absent"} : HandleCreate(t, payload)
             \/ \E x \in Resources : HandleDelete(t, x)
      PROVE  UNCHANGED <<actor, open>>
  BY <1>7 DEF Arrive, RateGet, RateUnavailable, HandlePublic, HandleManage, HandleCreate,
     HandleDelete
<1>8. CASE NextWindow \/ SetTenantStatus \/ UNCHANGED vars
  BY <1>1, <1>8 DEF NextWindow, SetTenantStatus, vars
<1> QED  BY <1>1, <1>4, <1>5, <1>6, <1>7, <1>8 DEF Next, Serve

(* Steps that have to do with rate limiting. *)
LEMMA RateSteps ==
    ASSUME [Next]_vars
    PROVE  \/ \E t \in Threads : RateGet(t) \/ RateSet(t) \/ RateUnavailable(t)
           \/ NextWindow
           \/ UNCHANGED rateVars
<1>1. ASSUME NEW t \in Threads, Serve(t), ~RateGet(t), ~RateSet(t), ~RateUnavailable(t)
      PROVE  UNCHANGED rateVars
  BY <1>1 DEF Serve, Arrive, TenantMiddleware, ProjectMiddleware, Authenticate,
     HandlePublic, HandleCreate, HandleDelete, HandleManage, HandleNothing, Write
<1>2. CASE SetTenantStatus \/ UNCHANGED vars
  BY <1>2 DEF SetTenantStatus, vars
<1> QED  BY <1>1, <1>2 DEF Next

LEMMA RateType ==
    ASSUME RequestsInv, [Next]_vars
    PROVE  /\ count' \in [RateKeys -> Nat] /\ admitted' \in [RateKeys -> Nat]
           /\ overlapped' \subseteq RateKeys
<1>0. /\ count \in [RateKeys -> Nat] /\ admitted \in [RateKeys -> Nat]
      /\ overlapped \subseteq RateKeys /\ req \in [Threads -> InFlight \cup {None}]
  BY DEF RequestsInv, TypeOK
<1>1. ASSUME NEW t \in Threads, req[t] # None
      PROVE  RateKey(req[t]) \in RateKeys /\ req[t].seen \in Nat
  BY <1>0, <1>1, RateKeyType, RequestFields
<1>2. ASSUME NEW t \in Threads, RateGet(t)
      PROVE  /\ UNCHANGED <<count, admitted>> /\ overlapped' \subseteq RateKeys
  BY <1>0, <1>1, <1>2 DEF RateGet, At
<1>3. ASSUME NEW t \in Threads, RateSet(t)
      PROVE  /\ count' \in [RateKeys -> Nat] /\ admitted' \in [RateKeys -> Nat]
             /\ UNCHANGED overlapped
  <2> DEFINE k == RateKey(req[t])
             n == req[t].seen + 1
  <2>1. k \in RateKeys /\ n \in Nat
    BY <1>1, <1>3 DEF RateSet, At
  <2>2. /\ count' = [count EXCEPT ![k] = n] /\ UNCHANGED overlapped
        /\ admitted' = [admitted EXCEPT ![k] = @ + 1] \/ admitted' = admitted
    BY <1>3 DEF RateSet
  <2> HIDE DEF k, n
  <2> QED  BY <1>0, <2>1, <2>2
<1>4. ASSUME NEW t \in Threads, RateUnavailable(t)
      PROVE  /\ UNCHANGED count /\ admitted' \in [RateKeys -> Nat]
             /\ overlapped' \subseteq RateKeys
  <2> DEFINE k == RateKey(req[t])
  <2>1. k \in RateKeys
    BY <1>1, <1>4 DEF RateUnavailable, At
  <2>2. /\ UNCHANGED count /\ overlapped' = overlapped \cup {k}
        /\ admitted' = [admitted EXCEPT ![k] = @ + 1]
    BY <1>4 DEF RateUnavailable
  <2> HIDE DEF k
  <2> QED  BY <1>0, <2>1, <2>2
<1>5. CASE NextWindow
  BY <1>0, <1>5 DEF NextWindow
<1>6. CASE UNCHANGED rateVars
  BY <1>0, <1>6 DEF rateVars
<1> QED  BY <1>0, <1>2, <1>3, <1>4, <1>5, <1>6, RateSteps

LEMMA TypeStep ==
    ASSUME RequestsInv, [Next]_vars
    PROVE  TypeOK'
<1>1. DbOK'
  BY DbStep
<1>2. req' \in [Threads -> InFlight \cup {None}]
  BY StepFine DEF Fine, RequestsInv, TypeOK
<1>3. served' \in 0 .. MaxRequests
  <2>1. ASSUME NEW t \in Threads, NEW call \in Calls, Arrive(t, call)
        PROVE  served' \in 0 .. MaxRequests
    BY <2>1, RolesAssumption DEF Arrive, RequestsInv, TypeOK
  <2>2. ASSUME NEW t \in Threads, Serve(t), ~\E call \in Calls : Arrive(t, call)
        PROVE  UNCHANGED served
    BY <2>2 DEF Serve, TenantMiddleware, ProjectMiddleware, RateGet, RateSet,
       RateUnavailable, Authenticate, HandlePublic, HandleCreate, HandleDelete, HandleManage,
       HandleNothing, Write
  <2>3. CASE NextWindow \/ SetTenantStatus \/ UNCHANGED vars
    BY <2>3 DEF NextWindow, SetTenantStatus, vars, RequestsInv, TypeOK
  <2> QED  BY <2>1, <2>2, <2>3 DEF Next, RequestsInv, TypeOK
<1> QED  BY <1>1, <1>2, <1>3, ActorType, RateType DEF DbOK, TypeOK, MembershipsOK

-----------------------------------------------------------------------------
(* The rate limit *)

(* Only RateGet brings a request between get and set. *)
LEMMA CountingStep ==
    ASSUME RequestsInv, [Next]_vars, \A t \in Threads : ~RateGet(t),
           NEW o \in Threads, NEW k, Counting(o, k)'
    PROVE  Counting(o, k) /\ req'[o] = req[o]
<1>1. req'[o] = req[o]
  <2>1. ASSUME NEW t \in Threads, Serve(t)
        PROVE  req'[o] = req[o]
    <3>1. Fine(t) /\ (req'[t] # None => req'[t].pc # "rateset")
      BY <2>1, ServeFine
    <3>2. o # t
      BY <3>1 DEF Counting, At
    <3> QED  BY <3>1, <3>2 DEF Fine, Others
  <2>2. CASE NextWindow \/ SetTenantStatus \/ UNCHANGED vars
    BY <2>2 DEF NextWindow, SetTenantStatus, vars
  <2> QED  BY <2>1, <2>2 DEF Next
<1> QED  BY <1>1 DEF Counting, At

(* What the limit's invariant says of one key. *)
Window(k) ==
    /\ admitted[k] <= count[k] /\ admitted[k] <= Limit
    /\ \A t \in Threads : Counting(t, k) => req[t].seen = count[k]
    /\ \A t, o \in Threads : Counting(t, k) /\ Counting(o, k) => t = o

LEMMA LimitStep ==
    ASSUME RequestsInv, LimitInv, [Next]_vars
    PROVE  LimitInv'
<1> SUFFICES ASSUME NEW k \in RateKeys, k \notin overlapped'
             PROVE  Window(k)'
  BY DEF LimitInv, Window
<1>0. /\ count \in [RateKeys -> Nat] /\ admitted \in [RateKeys -> Nat] /\ Limit \in Nat
      /\ req \in [Threads -> InFlight \cup {None}]
  BY RolesAssumption DEF RequestsInv, TypeOK
<1>1. k \notin overlapped => Window(k)
  BY DEF LimitInv, Window
<1>2. ASSUME NEW t \in Threads, RateGet(t)
      PROVE  Window(k)'
  <2>1. /\ UNCHANGED <<count, admitted>>
        /\ overlapped \subseteq overlapped'
        /\ (\E o \in Threads \ {t} : Counting(o, RateKey(req[t]))) => RateKey(req[t]) \in overlapped'
    BY <1>2 DEF RateGet, Counting
  <2>2. Window(k)
    BY <1>1, <2>1
  <2>3. /\ Fine(t) /\ req'[t].session = req[t].session
        /\ req'[t].seen = count[RateKey(req[t])]
    BY <1>2, RateGetFine
  <2>4. RateKey(req'[t]) = RateKey(req[t])
    BY <2>3 DEF RateKey
  <2>5. \A o \in Threads \ {t} : (Counting(o, k)' <=> Counting(o, k)) /\ req'[o] = req[o]
    BY <2>3 DEF Fine, Others, Counting, At
  <2>6. Counting(t, k)' => RateKey(req[t]) = k
    BY <2>4 DEF Counting
  <2>7. Counting(t, k)' => \A o \in Threads \ {t} : ~Counting(o, k)
    BY <2>1, <2>6
  <2> QED  BY <2>1, <2>2, <2>3, <2>5, <2>6, <2>7 DEF Window
<1>3. ASSUME NEW t \in Threads, RateSet(t), \A o \in Threads : ~RateGet(o)
      PROVE  Window(k)'
  <2> DEFINE j == RateKey(req[t])
             n == req[t].seen + 1
  <2>1. /\ count' = [count EXCEPT ![j] = n] /\ UNCHANGED overlapped
        /\ \/ n <= Limit /\ admitted' = [admitted EXCEPT ![j] = @ + 1]
           \/ UNCHANGED admitted
        /\ Counting(t, j)
    BY <1>3 DEF RateSet, WithinLimit, Counting
  <2>2. Window(k)
    BY <1>1, <2>1
  <2>3. \A o \in Threads : Counting(o, k)' => Counting(o, k) /\ req'[o] = req[o]
    BY <1>3, CountingStep
  <2>4. CASE j = k
    <3>1. n = count[k] + 1
      BY <2>1, <2>2, <2>4 DEF Window
    <3>2. count'[k] = n /\ (admitted'[k] = admitted[k] \/ (n <= Limit /\ admitted'[k] = admitted[k] + 1))
      <4> HIDE DEF j, n
      <4> QED  BY <1>0, <2>1, <2>4
    <3>3. \A o \in Threads : ~Counting(o, k)'
      <4>1. ~Counting(t, k)'
        <5>1. req'[t] # None => req'[t].pc = "authenticate"
          BY <1>3, RateSetFine
        <5> QED  BY <5>1 DEF Counting, At
      <4> QED  BY <2>1, <2>2, <2>3, <2>4, <4>1 DEF Window
    <3> HIDE DEF n
    <3>4. admitted[k] \in Nat /\ count[k] \in Nat /\ admitted[k] <= count[k] /\ admitted[k] <= Limit
      BY <1>0, <2>2 DEF Window
    <3>5. admitted'[k] <= count'[k] /\ admitted'[k] <= Limit
      BY <1>0, <3>1, <3>2, <3>4
    <3> QED  BY <3>3, <3>5 DEF Window
  <2>5. CASE j # k
    <3>1. count'[k] = count[k] /\ admitted'[k] = admitted[k]
      BY <1>0, <2>1, <2>5
    <3> QED  BY <2>2, <2>3, <3>1 DEF Window
  <2> QED  BY <2>4, <2>5
<1>4. ASSUME NEW t \in Threads, RateUnavailable(t), \A o \in Threads : ~RateGet(o)
      PROVE  Window(k)'
  <2> DEFINE j == RateKey(req[t])
  <2>1. /\ UNCHANGED count /\ overlapped' = overlapped \cup {j}
        /\ admitted' = [admitted EXCEPT ![j] = @ + 1]
    BY <1>4 DEF RateUnavailable
  <2>2. Window(k) /\ k # j
    BY <1>1, <2>1
  <2>3. admitted'[k] = admitted[k]
    BY <1>0, <2>1, <2>2
  <2>4. \A o \in Threads : Counting(o, k)' => Counting(o, k) /\ req'[o] = req[o]
    BY <1>4, CountingStep
  <2> QED  BY <2>1, <2>2, <2>3, <2>4 DEF Window
<1>5. CASE NextWindow
  <2>1. /\ admitted'[k] = 0 /\ count'[k] = 0 /\ req' = req
        /\ \A t \in Threads : ~At(t, "rateset")
    BY <1>5 DEF NextWindow
  <2> QED  BY <1>0, <2>1 DEF Window, Counting, At
<1>6. CASE UNCHANGED rateVars /\ \A o \in Threads : ~RateGet(o)
  <2>1. Window(k) /\ UNCHANGED <<count, admitted>>
    BY <1>1, <1>6 DEF rateVars
  <2>2. \A o \in Threads : Counting(o, k)' => Counting(o, k) /\ req'[o] = req[o]
    BY <1>6, CountingStep
  <2> QED  BY <2>1, <2>2 DEF Window
<1> QED  BY <1>2, <1>3, <1>4, <1>5, <1>6, RateSteps

-----------------------------------------------------------------------------
(* The theorems *)

LEMMA RequestsInvariant ==
    Spec => [](RequestsInv /\ LimitInv)
<1>1. RequestsInv /\ LimitInv /\ [Next]_vars => (RequestsInv /\ LimitInv)'
  BY TypeStep, RequestsStep, LimitStep DEF RequestsInv
<1> QED  BY <1>1, RequestsInit, PTL DEF Spec

(* Whatever requests and changes overlap, a membership is of a team that is  *)
(* there, in a role that is there, and the user's only one in the team       *)
(* (RoleViewSet.perform_destroy protects a role in use, deleting a team takes *)
(* its memberships along, unique_user_per_team); keys, resources, policies   *)
(* and what the threads keep have their types.                               *)
THEOREM TypeCorrect ==
    Spec => []TypeOK
<1>1. RequestsInv => TypeOK
  BY DEF RequestsInv
<1> QED  BY <1>1, RequestsInvariant, PTL

(* A window lets through no more requests of a key than the limit, as long   *)
(* as none starts between another one's cache.get and cache.set              *)
(* (RateLimitMiddleware).                                                    *)
THEOREM LimitIsKept ==
    Spec => []LimitHolds
<1>1. LimitInv => LimitHolds
  BY DEF LimitInv, LimitHolds
<1> QED  BY <1>1, RequestsInvariant, PTL

(* A request's request ends only by a step of its own, and a change is made  *)
(* only by Write.                                                            *)
LEMMA WritesOwn ==
    ASSUME RequestsInv, [Next]_vars, NEW t \in Threads, At(t, "write"), req'[t] # req[t]
    PROVE  Write(t)
<1>1. PICK o \in Threads : Serve(o) /\ Fine(o)
  BY StepFine
<1>2. o = t
  BY <1>1 DEF Fine, Others
<1> QED  BY <1>1, <1>2 DEF Serve, Arrive, TenantMiddleware, ProjectMiddleware, RateGet, RateSet,
     RateUnavailable, Authenticate, HandlePublic, HandleCreate, HandleDelete, HandleManage,
     HandleNothing, Can, At

(* An audit record names whoever made the request, or nobody if nobody       *)
(* authenticated, unless an earlier request of the thread left its actor     *)
(* behind (TenantMiddleware clears it on its last line only).                *)
THEOREM ActorIsCaller ==
    Spec => AttributedToCaller
<1>1. ASSUME RequestsInv, NEW t \in Threads, At(t, "write")
      PROVE  \/ actor[t] = Caller(req[t])
             \/ /\ req[t].user = None
                /\ t \in open \/ actor[t] = req[t].session
  <2> DEFINE r == req[t]
  <2>1. r # None /\ Rightful(r, actor[t], t \in open)
    BY <1>1 DEF RequestsInv, ActorInv, At
  <2>2. CASE Caller(r) # None
    BY <2>1, <2>2 DEF Rightful
  <2>3. CASE Caller(r) = None
    <3>1. r.user = None
      BY <2>3 DEF Caller
    <3>2. t \in open \/ actor[t] = SessionActor(r)
      BY <2>1, <2>3 DEF Rightful
    <3> QED  BY <2>3, <3>1, <3>2 DEF SessionActor
  <2> QED  BY <2>2, <2>3
<1>2. RequestsInv /\ [Next]_vars =>
        [\A t \in Threads :
          At(t, "write") /\ req'[t] # req[t] =>
             \/ actor[t] = Caller(req[t])
             \/ /\ req[t].user = None
                /\ t \in open \/ actor[t] = req[t].session]_vars
  BY <1>1
<1> QED  BY <1>2, RequestsInvariant, PTL DEF Spec, AttributedToCaller

(* Whoever creates a resource sees it, unless the creator's teams or         *)
(* permissions changed while the request was served                          *)
(* (resolve_team_for_create, apply_team_scope).                              *)
THEOREM CreatorIsInScope ==
    Spec => CreatorSees
<1>1. ASSUME RequestsInv, [Next]_vars, NEW t \in Threads, NEW x \in Resources,
             At(t, "write"), req'[t] # req[t], res[x] = None, res'[x] # None,
             req[t].change.belongs = belongs[res'[x].by],
             req[t].change.perms = UserPermissions(res'[x].by)
      PROVE  InScope(res'[x].by, res'[x].team)
  <2> DEFINE c == req[t].change
  <2>0. Write(t) /\ TypeOK /\ Scoped(req[t]) /\ req[t] # None /\ req[t].pc = "write"
    BY <1>1, WritesOwn DEF RequestsInv, ScopeInv, At
  <2>1. WriteTeams(c.do, c.by)
    BY <1>1, <2>0 DEF Write, WriteRules, dbVars
  <2>2. /\ c.do[1] = "create"
        /\ \E y \in Resources : res' = [res EXCEPT ![y] = [team |-> c.do[2], by |-> c.by]]
    <3>1. res \in [Resources -> Owned \cup {None}]
      BY <2>0 DEF TypeOK
    <3> HIDE DEF c
    <3> QED  BY <1>1, <2>1, <3>1 DEF WriteTeams
  <2>3. res'[x].team = c.do[2]
    <3>1. res \in [Resources -> Owned \cup {None}]
      BY <2>0 DEF TypeOK
    <3>2. PICK y \in Resources : res' = [res EXCEPT ![y] = [team |-> c.do[2], by |-> c.by]]
      BY <2>2
    <3> HIDE DEF c
    <3> QED  BY <1>1, <3>1, <3>2
  <2>4. Covers(c.perms, c.belongs, c.do[2])
    BY <2>0, <2>2 DEF Scoped
  <2> HIDE DEF c
  <2> QED  BY <1>1, <2>3, <2>4 DEF Covers, InScope, SeesAll, TeamsOf, c
<1>2. RequestsInv /\ [Next]_vars =>
        [\A t \in Threads, x \in Resources :
          /\ At(t, "write") /\ req'[t] # req[t]
          /\ res[x] = None /\ res'[x] # None
          /\ req[t].change.belongs = belongs[res'[x].by]
          /\ req[t].change.perms = UserPermissions(res'[x].by)
          => InScope(res'[x].by, res'[x].team)]_vars
  BY <1>1
<1> QED  BY <1>2, RequestsInvariant, PTL DEF Spec, CreatorSees
===============================================================================
