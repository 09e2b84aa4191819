------------------------------ MODULE Requests ------------------------------
(***************************************************************************)
(* A request on its way through a worker thread: TenantMiddleware,         *)
(* ProjectMiddleware, RateLimitMiddleware (core/middleware.py), token      *)
(* authentication, the permission check (apps/rbac/permissions.py), and a  *)
(* handler that changes the project's roles, teams, keys and policies or   *)
(* creates a team-scoped resource (core/team_scoping.py).                  *)
(*                                                                         *)
(* Threads are reused: the audit actor is a thread-local that outlives the *)
(* request unless it is cleared.  The middleware runs before the token is  *)
(* looked at, so the user it knows is the one of the browser session, if   *)
(* any.  The model has one tenant with one project; a permission is a pair *)
(* <<resource, action>>, with "*" for a wildcard, and All for "*" alone.   *)
(***************************************************************************)
EXTENDS Naturals, Sequences, FiniteSets, SequencesExt

CONSTANTS Threads, Users, Superusers, Owner, TenantMembers,
          Teams, Resources, Keys,
          Permissions, Roles, SystemRoles, Admin,
          Grants,          \* [Roles -> permissions]
          KeyGrants,       \* permissions a key may be given
          EditGrants,      \* permissions a role may be edited to
          Calls,           \* requests clients send
          Limit,           \* requests per window and rate limit key
          None,
          MaxRequests      \* bound on requests served

All == <<"*", "*">>

ASSUME RolesAssumption ==
    /\ Admin \in SystemRoles /\ SystemRoles \subseteq Roles
    /\ Grants \in [Roles -> SUBSET Permissions] /\ \A r \in Roles : Grants[r] # None
    /\ KeyGrants \cup EditGrants \subseteq SUBSET Permissions /\ All \in Permissions
    /\ \A g \in EditGrants : g # None
    /\ Owner \in Users /\ None \notin Users \cup Teams \cup Keys
    /\ Limit \in Nat /\ MaxRequests \in Nat

ASSUME CallsAssumption ==
    Calls \subseteq [skip : BOOLEAN, tenant : {"named", "absent", "unknown"},
                     project : BOOLEAN, session : Users \cup {None},
                     bearer : Users \cup Keys \cup {None}]

VARIABLES
    suspended,  \* the tenant is not active
    enforced,   \* the project enforces single sign-on
    inactive,   \* users deactivated
    teams,      \* teams that exist
    belongs,    \* [Users -> sequence of [team, role]]  memberships, oldest first
    grants,     \* [Roles -> permissions, or None when deleted]
    policies,   \* set of [role, res, effect]; res = None: all of the type
    keys,       \* [Keys -> [by, perms, revoked] or None]
    res,        \* [Resources -> [team, by] or None]
    actor,      \* [Threads -> user or key in the thread-local, or None]
    count,      \* [rate limit key -> counter in the cache, this window]
    admitted,   \* [rate limit key -> requests let through, this window]
    overlapped, \* keys whose counter has missed a request
    req,        \* [Threads -> request being served or None]
    open,       \* threads whose actor a request has left behind
    served

dbVars == <<suspended, enforced, inactive, teams, belongs, grants, policies, keys, res>>
rateVars == <<count, admitted, overlapped>>
vars == <<dbVars, rateVars, actor, req, open, served>>

RateKeys == Users \cup {"ip"}

Memberships == [team : Teams, role : Roles]
Policies == [role : Roles, res : Resources \cup {None}, effect : {"allow", "deny"}]
ApiKeys == [by : Users, perms : SUBSET Permissions, revoked : BOOLEAN]
Owned == [team : Teams \cup {None}, by : Users]

\* What a handler may settle on.
Doings ==
    {<<"register">>, <<"new team">>, <<"new key">>}
    \cup {"drop team"} \X Teams
    \cup {"join"} \X Teams \X Users \X Roles
    \cup {"leave"} \X Teams \X Users
    \cup {"create"} \X (Teams \cup {None})
    \cup {"delete"} \X Resources
    \cup {"new role", "edit role", "drop role"} \X Roles
    \cup {"policy"} \X Policies
    \cup {"revoke key"} \X Keys
    \cup {"deactivate"} \X Users

\* For whom, and what the user's memberships and permissions were then.
Changes == [do : Doings, by : Users \cup {None}, belongs : Seq(Memberships),
            perms : SUBSET Permissions]

InFlight ==
    [pc : {"tenant", "project", "rate", "rateset", "authenticate", "handle", "write"},
     skip : BOOLEAN, tenant : {"named", "absent", "unknown"}, project : BOOLEAN,
     session : Users \cup {None}, bearer : Users \cup Keys \cup {None},
     resolved : BOOLEAN, user : Users \cup {None}, key : Keys \cup {None},
     seen : Nat, set : BOOLEAN, change : Changes \cup {None}]

ASSUME NoneAssumption == None \notin InFlight \cup Changes \cup ApiKeys \cup Owned

\* A membership is of a team and with a role that are there, and the only one
\* of the user in the team.
TypeOK ==
    /\ suspended \in BOOLEAN /\ enforced \in BOOLEAN /\ inactive \subseteq Users
    /\ teams \subseteq Teams /\ open \subseteq Threads
    /\ belongs \in [Users -> Seq(Memberships)]
    /\ grants \in [Roles -> {None} \cup SUBSET Permissions]
    /\ \A u \in Users : \A i \in DOMAIN belongs[u] :
          /\ belongs[u][i].team \in teams /\ grants[belongs[u][i].role] # None
          /\ \A j \in DOMAIN belongs[u] : belongs[u][i].team = belongs[u][j].team => i = j
    /\ policies \subseteq Policies
    /\ keys \in [Keys -> ApiKeys \cup {None}] /\ res \in [Resources -> Owned \cup {None}]
    /\ actor \in [Threads -> Users \cup Keys \cup {None}]
    /\ count \in [RateKeys -> Nat] /\ admitted \in [RateKeys -> Nat]
    /\ overlapped \subseteq RateKeys
    /\ req \in [Threads -> InFlight \cup {None}]
    /\ served \in 0..MaxRequests

\* create_account and bootstrap_project: the system roles, and the owner in
\* the first team as administrator; others may have joined since.
Init ==
    /\ suspended = FALSE /\ enforced \in BOOLEAN /\ inactive = {}
    /\ \E t \in Teams :
         /\ teams = {t}
         /\ belongs \in [Users -> {<<>>} \cup {<<[team |-> t, role |-> r]>> : r \in Roles}]
         /\ belongs[Owner] = <<[team |-> t, role |-> Admin]>>
    /\ grants = Grants
    /\ policies = {} /\ keys = [k \in Keys |-> None] /\ res = [x \in Resources |-> None]
    /\ actor = [t \in Threads |-> None]
    /\ count = [k \in RateKeys |-> 0] /\ admitted = [k \in RateKeys |-> 0]
    /\ overlapped = {}
    /\ req = [t \in Threads |-> None] /\ open = {} /\ served = 0

At(t, pc) == req[t] # None /\ req[t].pc = pc
Goto(t, pc) == req' = [req EXCEPT ![t].pc = pc]

----------------------------------------------------------------------------
(* Permissions and team scope                                              *)

\* get_user_permissions
UserPermissions(u) ==
    IF u \in Superusers THEN {All}
    ELSE UNION {grants[belongs[u][i].role] : i \in DOMAIN belongs[u]}

\* get_request_permissions
RequestPermissions(r) ==
    IF r.key # None THEN keys[r.key].perms ELSE UserPermissions(r.user)

\* has_permission
Permits(perms, p) ==
    perms \cap {All, p, <<p[1], "*">>, <<"*", p[2]>>} # {}

\* check_resource_policy
PolicyEffects(u, x) ==
    {q.effect : q \in {q \in policies : /\ \E i \in DOMAIN belongs[u] : belongs[u][i].role = q.role
                                        /\ q.res = None \/ q.res = x}}

\* RequirePermission._evaluate; policies are about resources and users.
Authorized(r, p, x) ==
    /\ r.user # None
    /\ \/ r.user \in Superusers
       \/ /\ r.project
          /\ LET effects == IF r.key = None /\ p[1] = "monitor"
                            THEN PolicyEffects(r.user, x) ELSE {}
             IN /\ "deny" \notin effects
                /\ "allow" \in effects \/ Permits(RequestPermissions(r), p)

\* user_sees_all_teams, get_user_team_ids
SeesAll(u) == All \in UserPermissions(u)
TeamsOf(u) == {belongs[u][i].team : i \in DOMAIN belongs[u]}

\* apply_team_scope: what a list shows
InScope(u, team) == SeesAll(u) \/ team = None \/ team \in TeamsOf(u)

\* Faulty: the team the payload names is taken whoever asks.
TeamForCreateAny(u, payload) ==
    IF payload \in Teams THEN {t \in teams : t = payload}
    ELSE IF belongs[u] # <<>> THEN {Head(belongs[u]).team} ELSE {}

\* resolve_team_for_create: the teams the request may end with; the payload
\* names a team, names null, or says nothing.
TeamForCreate(u, payload) ==
    CASE payload = "null" -> IF SeesAll(u) THEN {None} ELSE {}
      [] payload \in Teams -> {t \in teams : t = payload /\ (SeesAll(u) \/ t \in TeamsOf(u))}
      [] payload = "absent" -> IF belongs[u] # <<>> THEN {Head(belongs[u]).team}
                               ELSE IF SeesAll(u) THEN {None} ELSE {}

----------------------------------------------------------------------------
(* The middleware                                                          *)

\* A request: a path the middleware skips or not, the tenant it names, a
\* project it can name, the session's user, a token of a user or a key.
Arrive(t, call) ==
    /\ req[t] = None /\ served < MaxRequests
    /\ call.session \notin inactive
    /\ call.bearer \in Keys => keys[call.bearer] # None
    /\ served' = served + 1
    /\ req' = [req EXCEPT ![t] =
                 [pc |-> "tenant", skip |-> call.skip, tenant |-> call.tenant,
                  project |-> call.project, session |-> call.session, bearer |-> call.bearer,
                  resolved |-> FALSE, user |-> None, key |-> None, seen |-> 0,
                  set |-> FALSE, change |-> None]]
    /\ UNCHANGED <<dbVars, rateVars, actor, open>>

\* _resolve_tenant: by header or subdomain, or the session user's own tenant
Resolves(r) == r.tenant = "named" \/ (r.tenant = "absent" /\ r.session = Owner)

\* The response goes out; the actor is cleared on the way only if a tenant was
\* resolved and its members were checked.
ClearsActor(r) == r.resolved

\* Faulty: the actor is never cleared.
ClearedNot(t) == actor[t]

Cleared(t) == IF ClearsActor(req[t]) THEN None ELSE actor[t]

\* A request that ends without clearing leaves the actor it has set behind.
Respond(t, act) ==
    /\ req' = [req EXCEPT ![t] = None]
    /\ actor' = [actor EXCEPT ![t] = act]
    /\ open' = IF ClearsActor(req[t]) THEN open \ {t}
               ELSE IF req[t].set THEN open \cup {t} ELSE open

TenantMiddleware(t) ==
    /\ At(t, "tenant")
    /\ LET r == req[t]
       IN IF r.skip \/ ~Resolves(r)
          THEN Goto(t, "rate") /\ UNCHANGED <<actor, open>>
          ELSE IF suspended
          THEN Respond(t, actor[t])
          ELSE IF r.session = None \/ r.session \in TenantMembers \cup Superusers
          THEN /\ req' = [req EXCEPT ![t].pc = "project", ![t].resolved = TRUE,
                                     ![t].set = r.session # None]
               /\ actor' = [actor EXCEPT ![t] = IF r.session = None THEN @ ELSE r.session]
               /\ UNCHANGED open
          ELSE \* set as the actor, then refused
               /\ req' = [req EXCEPT ![t] = None]
               /\ actor' = [actor EXCEPT ![t] = r.session]
               /\ open' = open \cup {t}
    /\ UNCHANGED <<dbVars, rateVars, served>>

\* _check_sso_enforcement looks at the session's user only.
ProjectMiddleware(t) ==
    /\ At(t, "project")
    /\ LET r == req[t]
       IN IF r.project /\ enforced /\ r.session # None /\ r.session \notin Superusers
          THEN Respond(t, Cleared(t))
          ELSE Goto(t, "rate") /\ UNCHANGED <<actor, open>>
    /\ UNCHANGED <<dbVars, rateVars, served>>

RateKey(r) == IF r.session # None THEN r.session ELSE "ip"

\* cache.get, then cache.set: two calls, others in between.
RateGet(t) ==
    /\ At(t, "rate")
    /\ req' = [req EXCEPT ![t].pc = "rateset", ![t].seen = count[RateKey(req[t])]]
    /\ overlapped' = IF \E o \in Threads \ {t} : At(o, "rateset") /\ RateKey(req[o]) = RateKey(req[t])
                     THEN overlapped \cup {RateKey(req[t])} ELSE overlapped
    /\ UNCHANGED <<dbVars, count, admitted, actor, open, served>>

\* Faulty: the request that exceeds the limit is let through.
WithinLimitLate(n) == n <= Limit + 1

WithinLimit(n) == n <= Limit

RateSet(t) ==
    /\ At(t, "rateset")
    /\ LET k == RateKey(req[t])
           n == req[t].seen + 1
       IN /\ count' = [count EXCEPT ![k] = n]
          /\ IF WithinLimit(n)
             THEN /\ admitted' = [admitted EXCEPT ![k] = @ + 1]
                  /\ Goto(t, "authenticate") /\ UNCHANGED <<actor, open>>
             ELSE Respond(t, Cleared(t)) /\ UNCHANGED admitted
    /\ UNCHANGED <<dbVars, overlapped, served>>

\* The cache is not there: the request is let through and not counted.
RateUnavailable(t) ==
    /\ At(t, "rate") \/ At(t, "rateset")
    /\ LET k == RateKey(req[t])
       IN /\ admitted' = [admitted EXCEPT ![k] = @ + 1]
          /\ overlapped' = overlapped \cup {k}
    /\ Goto(t, "authenticate")
    /\ UNCHANGED <<dbVars, count, actor, open, served>>

\* The next minute has a counter of its own (bound: no request is between its
\* get and its set just then).
NextWindow ==
    /\ \E k \in RateKeys : count[k] # 0
    /\ \A t \in Threads : ~At(t, "rateset")
    /\ count' = [k \in RateKeys |-> 0] /\ admitted' = [k \in RateKeys |-> 0]
    /\ overlapped' = {}
    /\ UNCHANGED <<dbVars, actor, req, open, served>>

----------------------------------------------------------------------------
(* Authentication and the handler                                          *)

\* UnifiedTokenAuthentication: the token's owner becomes request.user, and the
\* owner or the key the actor.
Authenticate(t) ==
    /\ At(t, "authenticate")
    /\ LET b == req[t].bearer
           u == IF b \in Keys THEN keys[b].by ELSE b
       IN IF b = None
          THEN Goto(t, "handle") /\ UNCHANGED <<actor, open>>
          ELSE IF u \notin inactive /\ (b \in Keys => ~keys[b].revoked)
          THEN /\ req' = [req EXCEPT ![t].pc = "handle", ![t].user = u, ![t].set = TRUE,
                                     ![t].key = IF b \in Keys THEN b ELSE None]
               /\ actor' = [actor EXCEPT ![t] = b]
               /\ UNCHANGED open
          ELSE Respond(t, Cleared(t))
    /\ UNCHANGED <<dbVars, rateVars, served>>

\* The view checks the permission and settles on a change to make.
Decide(t, do) ==
    LET u == req[t].user
    IN req' = [req EXCEPT ![t].pc = "write", ![t].seen = 0,
                 ![t].change = [do |-> do, by |-> u,
                                belongs |-> IF u = None THEN <<>> ELSE belongs[u],
                                perms |-> IF u = None THEN {} ELSE UserPermissions(u)]]

\* A public endpoint, POST auth/register for one: no permission is asked for,
\* and what it creates belongs to another tenant.
HandlePublic(t) ==
    /\ At(t, "handle")
    /\ Decide(t, <<"register">>)
    /\ UNCHANGED <<dbVars, rateVars, actor, open, served>>

Can(t, p) == At(t, "handle") /\ ~req[t].skip /\ Authorized(req[t], p, None)

HandleCreate(t, payload) ==
    /\ Can(t, <<"monitor", "create">>) /\ req[t].project
    /\ \E team \in TeamForCreate(req[t].user, payload) :
          Decide(t, <<"create", team>>)
    /\ UNCHANGED <<dbVars, rateVars, actor, open, served>>

\* A resource is looked up in scope, and asked for a second time by its id.
HandleDelete(t, x) ==
    /\ Can(t, <<"monitor", "delete">>) /\ req[t].project
    /\ res[x] # None /\ InScope(req[t].user, res[x].team)
    /\ Authorized(req[t], <<"monitor", "delete">>, x)
    /\ Decide(t, <<"delete", x>>)
    /\ UNCHANGED <<dbVars, rateVars, actor, open, served>>

\* Teams, members, roles, policies and keys.
HandleManage(t) ==
    /\ \/ Can(t, <<"team", "create">>) /\ req[t].project /\ Decide(t, <<"new team">>)
       \/ /\ Can(t, <<"team", "delete">>)
          /\ \E team \in teams : Decide(t, <<"drop team", team>>)
       \/ /\ Can(t, <<"team", "read">>)
          /\ Permits(UserPermissions(req[t].user), <<"team", "manage_members">>)
          /\ \E team \in teams, u \in Users \ inactive, r \in Roles :
               Decide(t, <<"join", team, u, r>>)
       \/ /\ Can(t, <<"team", "manage_members">>)
          /\ \E team \in teams, u \in Users : Decide(t, <<"leave", team, u>>)
       \/ /\ Can(t, <<"role", "create">>) /\ req[t].project
          /\ \E r \in Roles : grants[r] = None /\ Decide(t, <<"new role", r>>)
       \/ /\ Can(t, <<"role", "update">>)
          /\ \E r \in Roles \ SystemRoles : Decide(t, <<"edit role", r>>)
       \/ /\ Can(t, <<"role", "delete">>)
          /\ \E r \in Roles \ SystemRoles : Decide(t, <<"drop role", r>>)
       \/ /\ Can(t, <<"rbac", "manage">>)
          /\ \E r \in Roles, x \in Resources \cup {None}, effect \in {"allow", "deny"} :
               Decide(t, <<"policy", [role |-> r, res |-> x, effect |-> effect]>>)
       \/ /\ Can(t, <<"api_key", "create">>) /\ req[t].project
          /\ Decide(t, <<"new key">>)
       \/ /\ Can(t, <<"api_key", "revoke">>)
          /\ \E k \in Keys : keys[k] # None /\ Decide(t, <<"revoke key", k>>)
       \/ Can(t, <<"user", "deactivate">>)
          /\ \E u \in Users \ {req[t].user} : Decide(t, <<"deactivate", u>>)
    /\ UNCHANGED <<dbVars, rateVars, actor, open, served>>

\* 401, 403 or 404, and requests that only read
HandleNothing(t) ==
    /\ At(t, "handle")
    /\ Respond(t, Cleared(t))
    /\ UNCHANGED <<dbVars, rateVars, served>>

\* A user is in a team once (unique_user_per_team).
Joined(u, team) == {i \in DOMAIN belongs[u] : belongs[u][i].team = team}
Without(u, team) ==
    IF Joined(u, team) = {} THEN belongs[u]
    ELSE RemoveAt(belongs[u], CHOOSE i \in Joined(u, team) : TRUE)
InUse(r) == \E u \in Users : \E i \in DOMAIN belongs[u] : belongs[u][i].role = r

\* Deleting a team takes its memberships along and leaves its resources to all
\* (SET_NULL).
WriteTeams(ch, by) ==
    /\ \/ /\ ch[1] = "new team"
          /\ \E team \in Teams \ teams : teams' = teams \cup {team}
          /\ UNCHANGED <<belongs, res>>
       \/ /\ ch[1] = "drop team"
          /\ teams' = teams \ {ch[2]}
          /\ belongs' = [u \in Users |-> Without(u, ch[2])]
          /\ res' = [x \in Resources |->
                       IF res[x] # None /\ res[x].team = ch[2]
                       THEN [res[x] EXCEPT !.team = None] ELSE res[x]]
       \/ /\ ch[1] = "join" /\ ch[2] \in teams /\ grants[ch[4]] # None /\ Joined(ch[3], ch[2]) = {}
          /\ belongs' = [belongs EXCEPT ![ch[3]] = Append(@, [team |-> ch[2], role |-> ch[4]])]
          /\ UNCHANGED <<teams, res>>
       \/ /\ ch[1] = "leave"
          /\ belongs' = [belongs EXCEPT ![ch[3]] = Without(ch[3], ch[2])]
          /\ UNCHANGED <<teams, res>>
       \/ /\ ch[1] = "create" /\ ch[2] \in teams \cup {None}
          /\ \E x \in Resources : res[x] = None
               /\ res' = [res EXCEPT ![x] = [team |-> ch[2], by |-> by]]
          /\ UNCHANGED <<teams, belongs>>
       \/ /\ ch[1] = "delete"
          /\ res' = [res EXCEPT ![ch[2]] = None]
          /\ UNCHANGED <<teams, belongs>>
    /\ UNCHANGED <<suspended, enforced, inactive, grants, policies, keys>>

\* A role a membership uses is protected; its policies go with it.
WriteRules(ch, by) ==
    /\ \/ /\ ch[1] = "new role" /\ grants[ch[2]] = None
          /\ \E g \in EditGrants :
               grants' = [grants EXCEPT ![ch[2]] = g]
          /\ UNCHANGED <<inactive, policies, keys>>
       \/ /\ ch[1] = "edit role" /\ grants[ch[2]] # None
          /\ \E g \in EditGrants :
               grants' = [grants EXCEPT ![ch[2]] = g]
          /\ UNCHANGED <<inactive, policies, keys>>
       \/ /\ ch[1] = "drop role" /\ ~InUse(ch[2])
          /\ grants' = [grants EXCEPT ![ch[2]] = None]
          /\ policies' = {q \in policies : q.role # ch[2]}
          /\ UNCHANGED <<inactive, keys>>
       \/ /\ ch[1] = "policy" /\ grants[ch[2].role] # None
          /\ policies' = IF ch[2] \in policies THEN policies \ {ch[2]} ELSE policies \cup {ch[2]}
          /\ UNCHANGED <<inactive, grants, keys>>
       \/ /\ ch[1] = "new key"
          /\ \E k \in Keys, g \in KeyGrants :
               /\ keys[k] = None
               /\ keys' = [keys EXCEPT ![k] = [by |-> by, perms |-> g, revoked |-> FALSE]]
          /\ UNCHANGED <<inactive, grants, policies>>
       \/ /\ ch[1] = "revoke key"
          /\ keys' = [keys EXCEPT ![ch[2]].revoked = TRUE]
          /\ UNCHANGED <<inactive, grants, policies>>
       \/ /\ ch[1] = "deactivate"
          /\ inactive' = inactive \cup {ch[2]}
          /\ UNCHANGED <<grants, policies, keys>>
    /\ UNCHANGED <<suspended, enforced, teams, belongs, res>>

\* The change and its audit record; it fails when it has become impossible or
\* the database is not there.
Write(t) ==
    /\ At(t, "write")
    /\ \/ WriteTeams(req[t].change.do, req[t].change.by)
       \/ WriteRules(req[t].change.do, req[t].change.by)
       \/ UNCHANGED dbVars
    /\ Respond(t, Cleared(t))
    /\ UNCHANGED <<rateVars, served>>

\* The operators suspend the tenant and activate it again.
SetTenantStatus ==
    /\ suspended' = ~suspended
    /\ UNCHANGED <<enforced, inactive, teams, belongs, grants, policies, keys, res,
                   rateVars, actor, req, open, served>>

Serve(t) ==
    \/ \E call \in Calls : Arrive(t, call)
    \/ TenantMiddleware(t) \/ ProjectMiddleware(t)
    \/ RateGet(t) \/ RateSet(t) \/ RateUnavailable(t)
    \/ Authenticate(t) \/ HandlePublic(t)
    \/ \E payload \in Teams \cup {"null", "absent"} : HandleCreate(t, payload)
    \/ \E x \in Resources : HandleDelete(t, x)
    \/ HandleManage(t) \/ HandleNothing(t) \/ Write(t)

Next == (\E t \in Threads : Serve(t)) \/ NextWindow \/ SetTenantStatus

Spec == Init /\ [][Next]_vars

----------------------------------------------------------------------------
(* Properties                                                              *)

\* An audit record is attributed to whoever made the request, and to nobody
\* for an anonymous one, unless an earlier request of the thread has left its
\* actor behind: one without a resolved tenant, on a skipped path or refused as
\* no member (TenantMiddleware clears the actor on its last line only).
Caller(r) == IF r.key # None THEN r.key ELSE r.user

AttributedToCaller ==
    [][\A t \in Threads :
          At(t, "write") /\ req'[t] # req[t] =>
             \/ actor[t] = Caller(req[t])
             \/ /\ req[t].user = None
                /\ t \in open \/ actor[t] = req[t].session]_vars

\* Whoever creates a resource sees it: the team resolve_team_for_create gives
\* it is one apply_team_scope shows its creator, unless the creator's teams or
\* permissions changed while the request was served.
CreatorSees ==
    [][\A t \in Threads, x \in Resources :
          /\ At(t, "write") /\ req'[t] # req[t]
          /\ res[x] = None /\ res'[x] # None
          /\ req[t].change.belongs = belongs[res'[x].by]
          /\ req[t].change.perms = UserPermissions(res'[x].by)
          => InScope(res'[x].by, res'[x].team)]_vars

\* A window lets through as many requests of a key as the limit says, as long
\* as none is between its cache.get and cache.set while another one starts, and
\* the cache is there.
LimitHolds == \A k \in RateKeys : k \notin overlapped => admitted[k] <= Limit

=============================================================================
