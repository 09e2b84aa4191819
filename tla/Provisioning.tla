---------------------------- MODULE Provisioning ----------------------------
(***************************************************************************)
(* Users and teams of a project as an identity provider maintains them     *)
(* over SCIM (apps/sso).                                                   *)
(*                                                                         *)
(* The connector may send requests concurrently.  Provisioning a user is   *)
(* one transaction; a request on a group is a sequence of statements, each *)
(* committed on its own, so the model runs a group request as a program:   *)
(* one statement per step, others in between, and a crash or an exception  *)
(* drops the rest.  What SCIM names by id are ids it has been given in an  *)
(* answer.  The id of a team that is deleted may be drawn again.           *)
(***************************************************************************)
EXTENDS Naturals, Sequences, SequencesExt

CONSTANTS UserIds,       \* primary keys of users
          Emails, Anon,  \* addresses; what erasing an account leaves
          Teams, Names, Unassigned,
          Roles,
          Connectors,    \* concurrent SCIM requests
          Configs,       \* possible settings of the SSO configuration
          InitialNames,  \* [Teams -> Names \cup {Null}]
          MaxMembers,    \* bound on the members one request names
          MaxRequests, MaxFaults,
          Null

AccountRows == [email : Emails \cup {Anon}, active : BOOLEAN, erased : BOOLEAN]
SsoConfigs == [autoProvision : BOOLEAN, autoDeprovision : BOOLEAN, push : BOOLEAN,
               teams : SUBSET Teams, role : Roles \cup {Null}]
Statements == [op : {"join", "leave"}, arg : UserIds]
              \cup [op : {"rename"}, arg : Names]
              \cup [op : {"role", "clear", "drop"}, arg : {Null}]
              \cup [op : {"remove"}, arg : SUBSET UserIds]
Updates == [op : {"update"}, row : UserIds, todo : BOOLEAN, copy : AccountRows]
GroupCalls == [op : {"group"}, team : Teams, prog : Seq(Statements),
               want : {Null} \cup SUBSET UserIds, unassigned : Teams \cup {Null}]

ASSUME NamesAssumption ==
    /\ Unassigned \in Names /\ Null \notin Names
    /\ InitialNames \in [Teams -> Names \cup {Null}]
ASSUME ConfigsAssumption == Configs \subseteq SsoConfigs
ASSUME LimitsAssumption == MaxMembers \in Nat /\ MaxRequests \in Nat /\ MaxFaults \in Nat
ASSUME NullAssumption ==
    Null \notin AccountRows \cup Updates \cup GroupCalls \cup Roles \cup Teams

VARIABLES
    account,   \* [UserIds -> AccountRows \cup {Null}]
    tenant,    \* rows with a membership of the tenant
    name,      \* [Teams -> Names \cup {Null}]  Null: no such team
    role,      \* [Teams -> [UserIds -> Roles \cup {Null}]]  team memberships
    config,    \* [autoProvision, autoDeprovision, push, teams, role]
    known,     \* ids the identity provider has been told
    call,      \* [Connectors -> request in flight or Null]
    raced,     \* group requests whose team others have changed meanwhile
    requests, faults

scimVars == <<account, tenant, name, role, config, known, call, raced, requests, faults>>

NoTeams == [r \in UserIds |-> Null]
Members(t) == {r \in UserIds : role[t][r] # Null}
ProjectUsers == {r \in UNION {Members(t) : t \in Teams} : ~account[r].erased}
Named(n) == {t \in Teams : name[t] = n}

\* Team.objects.get_or_create by name
NamedOrNew(n) ==
    IF Named(n) # {} THEN Named(n) ELSE {t \in Teams : name[t] = Null}

ScimTypeOK ==
    /\ account \in [UserIds -> AccountRows \cup {Null}]
    /\ tenant \subseteq UserIds
    /\ known \subseteq {r \in UserIds : account[r] # Null}
    /\ name \in [Teams -> Names \cup {Null}]
    /\ role \in [Teams -> [UserIds -> Roles \cup {Null}]]
    /\ config \in SsoConfigs
    /\ call \in [Connectors -> Updates \cup GroupCalls \cup {Null}]
    /\ raced \subseteq Connectors
    /\ requests \in 0..MaxRequests /\ faults \in 0..MaxFaults

\* One account of another tenant may exist already.
ScimInit ==
    /\ \E r \in UserIds, e \in Emails :
         account \in {[x \in UserIds |-> Null],
                      [x \in UserIds |-> IF x = r THEN [email |-> e, active |-> TRUE,
                                                      erased |-> FALSE]
                                         ELSE Null]}
    /\ tenant = {} /\ known = {}
    /\ name = InitialNames
    /\ role = [t \in Teams |-> NoTeams]
    /\ config \in Configs
    /\ call = [c \in Connectors |-> Null]
    /\ raced = {} /\ requests = 0 /\ faults = 0

\* SCIMAuthentication: one more request of connector c.
BeginCall(c) ==
    /\ call[c] = Null /\ requests < MaxRequests
    /\ requests' = requests + 1

----------------------------------------------------------------------------
(* Users                                                                   *)

\* filter(email__iexact=...).first()
FindUser(e) == {r \in UserIds : account[r] # Null /\ account[r].email = e}

\* The team new users go to: the default teams, or with push groups the team
\* "Unassigned", created when it is missing.
TargetTeams ==
    IF config.push THEN {{t} : t \in NamedOrNew(Unassigned)} ELSE {config.teams}

Enrol(r, ts) ==
    [t \in Teams |-> IF t \in ts /\ role[t][r] = Null
                     THEN [role[t] EXCEPT ![r] = config.role] ELSE role[t]]

\* Faulty: the user joins the teams and not the tenant.
EnrolInTenantFaulty(r) == tenant

EnrolInTenant(r) == tenant \cup {r}

\* provision_from_scim: all or nothing.
Provision(r, e) ==
    /\ account' = IF FindUser(e) = {}
                  THEN [account EXCEPT ![r] = [email |-> e, active |-> TRUE,
                                               erased |-> FALSE]]
                  ELSE account
    /\ \E ts \in TargetTeams :
         /\ ts # {} /\ config.role # Null
         /\ role' = Enrol(r, ts)
         /\ name' = [t \in Teams |-> IF t \in ts /\ name[t] = Null
                                     THEN Unassigned ELSE name[t]]
    /\ tenant' = EnrolInTenant(r)

RowFor(e) ==
    IF FindUser(e) # {} THEN FindUser(e) ELSE {r \in UserIds : account[r] = Null}

\* POST Users, and GET Users with a filter that matches nobody in the project.
CreateUser(c, e) ==
    /\ BeginCall(c) /\ config.autoProvision
    /\ \E r \in RowFor(e) :
         /\ Provision(r, e)
         /\ known' = known \cup {r}
    /\ UNCHANGED <<config, call, faults>>

\* Without automatic provisioning POST answers with the account it finds.
LookUpUser(c, e) ==
    /\ BeginCall(c) /\ ~config.autoProvision
    /\ known' = known \cup FindUser(e)
    /\ UNCHANGED <<account, tenant, name, role, config, call, faults>>

ListUsers(c) ==
    /\ BeginCall(c)
    /\ known' = known \cup ProjectUsers
    /\ UNCHANGED <<account, tenant, name, role, config, call, faults>>

\* deprovision_from_scim
Deprovision(r) ==
    IF config.autoDeprovision /\ ~config.push
    THEN [t \in Teams |-> IF t \in config.teams
                          THEN [role[t] EXCEPT ![r] = Null] ELSE role[t]]
    ELSE role

DeleteUser(c, r) ==
    /\ BeginCall(c) /\ r \in known
    /\ role' = Deprovision(r)
    /\ UNCHANGED <<account, tenant, name, config, known, call, faults>>

\* PUT and PATCH Users: load, deprovision when active is false, save the row.
UpdateLoad(c, r, e, active) ==
    /\ BeginCall(c) /\ r \in known
    /\ call' = [call EXCEPT ![c] =
                 [op |-> "update", row |-> r, todo |-> active = "no" /\ ~config.push,
                  copy |-> [account[r] EXCEPT
                              !.email = IF e = Null THEN @ ELSE e,
                              !.active = IF active = Null \/ config.push THEN @
                                         ELSE active = "yes"]]]
    /\ UNCHANGED <<account, tenant, name, role, config, known, faults>>

UpdateDeprovision(c) ==
    /\ call[c] # Null /\ call[c].op = "update" /\ call[c].todo
    /\ role' = Deprovision(call[c].row)
    /\ call' = [call EXCEPT ![c].todo = FALSE]
    /\ UNCHANGED <<account, tenant, name, config, known, requests, faults>>

\* user.save() writes every column as loaded; an address in use raises.
UpdateSave(c) ==
    /\ call[c] # Null /\ call[c].op = "update" /\ ~call[c].todo
    /\ account' = IF FindUser(call[c].copy.email) \subseteq {call[c].row}
                  THEN [account EXCEPT ![call[c].row] = call[c].copy] ELSE account
    /\ call' = [call EXCEPT ![c] = Null]
    /\ UNCHANGED <<tenant, name, role, config, known, requests, faults>>

\* The account's holder erases it (accounts: EraseMyAccountView).
EraseUser(r) ==
    /\ account[r] # Null /\ ~account[r].erased
    /\ faults < MaxFaults /\ faults' = faults + 1
    /\ account' = [account EXCEPT ![r] = [email |-> Anon, active |-> FALSE, erased |-> TRUE]]
    /\ UNCHANGED <<tenant, name, role, config, known, call, requests>>

----------------------------------------------------------------------------
(* Groups: requests as programs                                            *)

Stmt(op, arg) == [op |-> op, arg |-> arg]

\* _sync_group_members
Sync(ms) ==
    <<Stmt("role", Null)>>
    \o (IF config.push
        THEN [i \in 1 .. 2 * Len(ms) |->
                Stmt(IF i % 2 = 1 THEN "join" ELSE "leave", ms[(i + 1) \div 2])]
        ELSE [i \in 1 .. Len(ms) |-> Stmt("join", ms[i])])

GroupRequest(c, t, prog, want) ==
    call' = [call EXCEPT ![c] = [op |-> "group", team |-> t, prog |-> prog,
                                 want |-> want, unassigned |-> Null]]

\* Faulty: members missing from the request stay.
ReplaceProgramKeeps(rename, ms) == rename \o Sync(ms)

\* replace_group with or without a new name, and op "replace" of patch_group.
ReplaceProgram(rename, ms) == rename \o <<Stmt("clear", Null)>> \o Sync(ms)

\* POST Groups: get_or_create by name, then the members.
CreateGroup(c, n, ms) ==
    /\ BeginCall(c)
    /\ \E t \in NamedOrNew(n) :
         /\ name' = [name EXCEPT ![t] = n]
         /\ GroupRequest(c, t, Sync(ms), Null)
    /\ UNCHANGED <<account, tenant, role, config, known, faults>>

\* PUT Groups and the operations of PATCH.
ChangeGroup(c, t, ms) ==
    /\ BeginCall(c) /\ name[t] # Null
    /\ \/ \E n \in Names \cup {Null} :
            GroupRequest(c, t,
                ReplaceProgram(IF n = Null THEN <<>> ELSE <<Stmt("rename", n)>>, ms),
                ToSet(ms))
       \/ \E n \in Names : GroupRequest(c, t, <<Stmt("rename", n)>>, Null)
       \/ GroupRequest(c, t, Sync(ms), Null)
       \/ GroupRequest(c, t, <<Stmt("remove", ToSet(ms))>>, Null)
    /\ UNCHANGED <<account, tenant, name, role, config, known, faults>>

DeleteGroup(c, t) ==
    /\ BeginCall(c) /\ name[t] \notin {Null, Unassigned}
    /\ GroupRequest(c, t, <<Stmt("clear", Null), Stmt("drop", Null)>>, Null)
    /\ UNCHANGED <<account, tenant, name, role, config, known, faults>>

\* The request goes on with the next statement, or is answered; what it has
\* found to be the team "Unassigned" it keeps.
AdvanceKnowing(c, unassigned) ==
    call' = [call EXCEPT ![c] =
               IF Len(call[c].prog) = 1 THEN Null
               ELSE [call[c] EXCEPT !.prog = Tail(@), !.unassigned = unassigned]]

Advance(c) == AdvanceKnowing(c, call[c].unassigned)

Running(c, op) ==
    /\ call[c] # Null /\ call[c].op = "group"
    /\ call[c].prog # <<>> /\ Head(call[c].prog).op = op

\* Without a default role the request raises here, its earlier statements stay.
CheckRole(c) ==
    /\ Running(c, "role")
    /\ IF config.role = Null THEN call' = [call EXCEPT ![c] = Null] ELSE Advance(c)
    /\ UNCHANGED <<account, tenant, name, role, config, known, requests, faults>>

\* A name another team has violates unique_team_name_per_project.
Rename(c) ==
    /\ Running(c, "rename")
    /\ LET t == call[c].team
           n == Head(call[c].prog).arg
       IN IF Named(n) \subseteq {t} /\ name[t] # Null
          THEN name' = [name EXCEPT ![t] = n] /\ Advance(c)
          ELSE UNCHANGED name /\ call' = [call EXCEPT ![c] = Null]
    /\ UNCHANGED <<account, tenant, role, config, known, requests, faults>>

Clear(c) ==
    /\ Running(c, "clear")
    /\ role' = [role EXCEPT ![call[c].team] = NoTeams]
    /\ Advance(c)
    /\ UNCHANGED <<account, tenant, name, config, known, requests, faults>>

\* get_or_create keeps the role of a membership that exists; the foreign key
\* of a team deleted meanwhile raises.
Join(c) ==
    /\ Running(c, "join")
    /\ LET t == call[c].team
           r == Head(call[c].prog).arg
       IN IF name[t] = Null
          THEN UNCHANGED role /\ call' = [call EXCEPT ![c] = Null]
          ELSE /\ role' = Enrol(r, {t})
               /\ Advance(c)
    /\ UNCHANGED <<account, tenant, name, config, known, requests, faults>>

\* With push groups whoever joins a group leaves "Unassigned", which is looked up,
\* and created when it is missing, once in a request.
TeamLeft(c) ==
    IF call[c].unassigned = Null THEN NamedOrNew(Unassigned) ELSE {call[c].unassigned}

Leave(c) ==
    /\ Running(c, "leave")
    /\ \E t \in TeamLeft(c) :
         /\ name' = IF call[c].unassigned = Null THEN [name EXCEPT ![t] = Unassigned]
                    ELSE name
         /\ role' = [role EXCEPT ![t][Head(call[c].prog).arg] = Null]
         /\ AdvanceKnowing(c, t)
    /\ UNCHANGED <<account, tenant, config, known, requests, faults>>

\* One DELETE for all the ids a removal names.
Expel(t, rs) ==
    [role EXCEPT ![t] = [r \in UserIds |-> IF r \in rs THEN Null ELSE role[t][r]]]

RemoveMembers(c) ==
    /\ Running(c, "remove")
    /\ role' = Expel(call[c].team, Head(call[c].prog).arg)
    /\ Advance(c)
    /\ UNCHANGED <<account, tenant, name, config, known, requests, faults>>

\* The team goes, its memberships and its place among the default teams too.
Drop(c) ==
    /\ Running(c, "drop")
    /\ LET t == call[c].team
       IN /\ name' = [name EXCEPT ![t] = Null]
          /\ role' = [role EXCEPT ![t] = NoTeams]
          /\ config' = [config EXCEPT !.teams = @ \ {t}]
          /\ Advance(c)
    /\ UNCHANGED <<account, tenant, known, requests, faults>>

----------------------------------------------------------------------------
(* Faults and the specification                                            *)

\* The process dies, or the connection to the database does.
CrashCall(c) ==
    /\ call[c] # Null /\ faults < MaxFaults
    /\ faults' = faults + 1
    /\ call' = [call EXCEPT ![c] = Null]
    /\ UNCHANGED <<account, tenant, name, role, config, known, requests>>

\* The lists of members a request may name.
MemberLists == UNION {[1 .. n -> known] : n \in 0 .. MaxMembers}

UserStep(c) ==
    \/ \E e \in Emails : CreateUser(c, e) \/ LookUpUser(c, e)
    \/ ListUsers(c)
    \/ \E r \in UserIds : DeleteUser(c, r)
    \/ \E r \in UserIds, e \in Emails \cup {Null}, a \in {Null, "yes", "no"} :
          UpdateLoad(c, r, e, a)
    \/ UpdateDeprovision(c)
    \/ UpdateSave(c)

GroupStep(c) ==
    \/ \E n \in Names, ms \in MemberLists : CreateGroup(c, n, ms)
    \/ \E t \in Teams, ms \in MemberLists : ChangeGroup(c, t, ms)
    \/ \E t \in Teams : DeleteGroup(c, t)
    \/ CheckRole(c) \/ Rename(c) \/ Clear(c) \/ Join(c) \/ Leave(c)
    \/ RemoveMembers(c) \/ Drop(c)

\* Which requests find their team changed by somebody else's step.
TrackRaces ==
    raced' = {c \in Connectors :
                /\ call[c] # Null /\ call[c].op = "group" /\ call'[c] # Null
                /\ \/ c \in raced
                   \/ call'[c] = call[c] /\ role'[call[c].team] # role[call[c].team]}

ScimNext ==
    /\ \/ \E c \in Connectors : UserStep(c) \/ GroupStep(c) \/ CrashCall(c)
       \/ \E r \in UserIds : EraseUser(r)
    /\ TrackRaces

ScimSpec == ScimInit /\ [][ScimNext]_scimVars

----------------------------------------------------------------------------
(* Properties                                                              *)

\* Where SCIM provisions accounts itself, whoever is in a team of the project
\* is a member of the tenant: the ids a group request names came from answers
\* to provision_from_scim, however requests overlap, fail or crash.
TeamsWithinTenant ==
    config.autoProvision =>
        \A t \in Teams, r \in UserIds : role[t][r] # Null => r \in tenant

\* A PUT of a group that is answered leaves exactly the members it names
\* (replace_group), unless another request changed the group while it ran.  The
\* team the members leave as they join, with push groups, is the exception.
PutAnswered(c) ==
    /\ call[c] # Null /\ call[c].op = "group" /\ call[c].want # Null
    /\ Len(call[c].prog) = 1 /\ call'[c] = Null
    /\ faults' = faults /\ config.role # Null
    /\ name[call[c].team] # Null
    /\ config.push => call[c].team \notin TeamLeft(c)

PutIsExact ==
    [][\A c \in Connectors :
          PutAnswered(c) /\ c \notin raced =>
             {r \in UserIds : role'[call[c].team][r] # Null} = call[c].want]_scimVars

=============================================================================
