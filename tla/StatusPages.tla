---------------------------- MODULE StatusPages ----------------------------
(***************************************************************************)
(* Status pages: public subscription with confirmation of the e-mail       *)
(* address and of an optional phone number, the pages' resources, and the  *)
(* notifications a maintenance window sends to confirmed subscribers.      *)
(*                                                                         *)
(* Public requests run concurrently and outside a transaction: what a      *)
(* request has loaded may have changed when it saves.  Tokens are numbers  *)
(* in the order of their creation, 0 is the empty string.  A message       *)
(* carries a token to an address; only who received it can present it.     *)
(***************************************************************************)
EXTENDS Naturals, FiniteSets

CONSTANTS Pages, Emails, Phones, Monitors, Groups, Clients,
          SlugOf,        \* slug of a page: unique in its tenant only
          Coverings,     \* possible sets of monitors of the window
          None,
          MaxTokens,     \* bound on tokens
          MaxRuns,       \* notification runs: started and ended make 2
          MaxEdits       \* bound on changes by the page's managers

ASSUME BoundsAssumption == MaxTokens \in Nat /\ MaxRuns \in Nat /\ MaxEdits \in Nat
ASSUME CoveringsAssumption == Coverings \subseteq SUBSET Monitors

VARIABLES
    public,      \* [Pages -> BOOLEAN]  is_public
    resources,   \* [Pages -> SUBSET (Monitors \cup Groups)]
    subs,        \* [Pages -> [Emails -> row or None]]
    sent,        \* messages received: <<address, token>>
    tokens,      \* tokens created so far
    req,         \* [Clients -> request in flight or None]
    window,      \* [covers, stage]  stage: notifications done (started, ended)
    job,         \* notification run: [todo, phase] or None
    told,        \* addresses told of the start or the end
    failed,      \* a send of the job has raised
    edits,
    confirmed,   \* <<page, email, address>>: a token sent there was presented
    late         \* rows whose phone changed under a running confirmation

vars == <<public, resources, subs, sent, tokens, req, window, job, told,
          failed, edits, confirmed, late>>

rowVars == <<subs, sent, tokens, req, confirmed, late>>
pageVars == <<public, resources, edits>>
jobVars == <<window, job, told, failed>>

Row(id, phone, ptok) ==
    [id |-> id, phone |-> phone, etok |-> id, ptok |-> ptok,
     emailOk |-> FALSE, phoneOk |-> FALSE]

Addresses == Emails \cup Phones

Rows == [id : 1..MaxTokens, phone : Phones \cup {None},
         etok : 0..MaxTokens, ptok : 0..MaxTokens, emailOk : BOOLEAN, phoneOk : BOOLEAN]

\* A subscription, and a confirmation, between their reads and their writes.
Subscribing == [op : {"subscribe"}, p : Pages, e : Emails, row : Rows,
                update : BOOLEAN, told : BOOLEAN]
Verifying == [op : {"email", "phone"}, p : Pages, e : Emails, row : Rows]

ASSUME NoneAssumption == None \notin Rows \cup Subscribing \cup Verifying

TypeOK ==
    /\ public \in [Pages -> BOOLEAN]
    /\ resources \in [Pages -> SUBSET (Monitors \cup Groups)]
    /\ subs \in [Pages -> [Emails -> Rows \cup {None}]]
    /\ sent \subseteq Addresses \X (0..MaxTokens)
    /\ tokens \in 0..MaxTokens /\ edits \in 0..MaxEdits
    /\ req \in [Clients -> Subscribing \cup Verifying \cup {None}]
    /\ window \in [covers : SUBSET Monitors, stage : 0..MaxRuns]
    /\ job \in [todo : SUBSET Addresses, phase : {"email", "sms"}] \cup {None}
    /\ job # None => window.stage < MaxRuns
    /\ told \subseteq Addresses /\ failed \in BOOLEAN
    /\ confirmed \subseteq Pages \X Emails \X Addresses
    /\ late \subseteq Pages \X Emails

Init ==
    /\ public = [p \in Pages |-> TRUE]
    /\ resources \in [Pages -> {{}} \cup {{m} : m \in Monitors \cup Groups}]
    /\ subs = [p \in Pages |-> [e \in Emails |-> None]]
    /\ sent = {} /\ tokens = 0 /\ edits = 0
    /\ req = [c \in Clients |-> None]
    /\ window \in [covers : Coverings, stage : {0}]
    /\ job = None /\ told = {} /\ failed = FALSE
    /\ confirmed = {} /\ late = {}

----------------------------------------------------------------------------
(* Public requests                                                         *)

\* get_object of the public view set: a slug that two tenants use for public
\* pages answers for neither (MultipleObjectsReturned).
Resolves(p) ==
    {q \in Pages : public[q] /\ SlugOf[q] = SlugOf[p]} = {p}

\* The row a request has loaded still exists: Django saves by primary key.
SameRow(r) == subs[r.p][r.e] # None /\ subs[r.p][r.e].id = r.row.id

\* Faulty: the new phone keeps the token sent to the old one.
ResubscribeKeepsToken(row, phone, fresh) ==
    IF row.emailOk /\ phone # None /\ phone # row.phone
    THEN [row EXCEPT !.phone = phone, !.phoneOk = FALSE]
    ELSE row

\* Faulty: the new phone inherits the confirmation of the old one.
ResubscribeKeepsConfirmation(row, phone, fresh) ==
    IF row.emailOk /\ phone # None /\ phone # row.phone
    THEN [row EXCEPT !.phone = phone, !.ptok = fresh]
    ELSE row

\* What subscribe makes of the row it has loaded: a confirmed subscriber may
\* change the phone, which takes a new token; others keep what they have.
Resubscribe(row, phone, fresh) ==
    IF row.emailOk /\ phone # None /\ phone # row.phone
    THEN [row EXCEPT !.phone = phone, !.phoneOk = FALSE, !.ptok = fresh]
    ELSE row

\* Nothing to do: "This email is already subscribed."
AlreadySubscribed(row, phone) ==
    /\ row.emailOk
    /\ phone = None \/ (phone = row.phone /\ row.phoneOk)

\* subscribe: get_or_create, which inserts the row at once.
SubscribeLoad(c, p, e, phone) ==
    /\ req[c] = None /\ Resolves(p) /\ tokens + 2 <= MaxTokens
    /\ LET old == subs[p][e]
           new == Row(tokens + 1, phone, IF phone = None THEN 0 ELSE tokens + 2)
           row == IF old = None THEN new
                  ELSE Resubscribe(old, phone, tokens + 1)
           rq == [op |-> "subscribe", p |-> p, e |-> e, row |-> row,
                  update |-> old # None /\ row # old, told |-> FALSE]
       IN /\ subs' = IF old = None THEN [subs EXCEPT ![p][e] = new] ELSE subs
          /\ tokens' = IF row = old THEN tokens
                       ELSE IF old # None \/ phone = None THEN tokens + 1
                       ELSE tokens + 2
          /\ req' = IF old # None /\ AlreadySubscribed(old, phone) THEN req
                    ELSE [req EXCEPT ![c] = rq]
    /\ UNCHANGED <<sent, confirmed, late, pageVars, jobVars>>

\* The confirmation messages leave before the row is saved; a send that fails
\* is logged.
SubscribeSend(c) ==
    /\ req[c] # None /\ req[c].op = "subscribe" /\ ~req[c].told
    /\ LET r == req[c].row
           mails == (IF r.emailOk THEN {} ELSE {<<req[c].e, r.etok>>})
                    \cup (IF r.phone = None \/ r.phoneOk THEN {}
                          ELSE {<<r.phone, r.ptok>>})
       IN \E ok \in SUBSET mails : sent' = sent \cup ok
    /\ req' = [req EXCEPT ![c].told = TRUE]
    /\ UNCHANGED <<subs, tokens, confirmed, late, pageVars, jobVars>>

\* The phone columns.
WithPhone(row, loaded) ==
    [row EXCEPT !.phone = loaded.phone, !.ptok = loaded.ptok, !.phoneOk = loaded.phoneOk]

\* save(update_fields): the phone columns only; a deleted row raises.
SubscribeSave(c) ==
    /\ req[c] # None /\ req[c].op = "subscribe" /\ req[c].told
    /\ LET r == req[c]
           write == r.update /\ SameRow(r)
       IN /\ subs' = IF write
                     THEN [subs EXCEPT ![r.p][r.e] = WithPhone(@, r.row)]
                     ELSE subs
          /\ late' = IF write THEN late \ {<<r.p, r.e>>} ELSE late
    /\ req' = [req EXCEPT ![c] = None]
    /\ UNCHANGED <<sent, tokens, confirmed, pageVars, jobVars>>

\* verify_email and verify_phone: find the row by the token presented.
VerifyLoad(c, p, e, msg) ==
    /\ req[c] = None /\ Resolves(p) /\ subs[p][e] # None
    /\ \E op \in {"email", "phone"} :
         /\ msg[2] = IF op = "email" THEN subs[p][e].etok ELSE subs[p][e].ptok
         /\ op = "phone" => subs[p][e].phone # None
         /\ req' = [req EXCEPT ![c] =
                      [op |-> op, p |-> p, e |-> e, row |-> subs[p][e]]]
    /\ confirmed' = confirmed \cup {<<p, e, msg[1]>>}
    /\ UNCHANGED <<subs, sent, tokens, late, pageVars, jobVars>>

EmailConfirmed(row) == [row EXCEPT !.emailOk = TRUE, !.etok = 0]
PhoneConfirmed(row) == [row EXCEPT !.phoneOk = TRUE, !.ptok = 0]

VerifyEmailSave(c) ==
    /\ req[c] # None /\ req[c].op = "email"
    /\ LET r == req[c]
       IN subs' = IF SameRow(r)
                  THEN [subs EXCEPT ![r.p][r.e] = EmailConfirmed(@)]
                  ELSE subs
    /\ req' = [req EXCEPT ![c] = None]
    /\ UNCHANGED <<sent, tokens, confirmed, late, pageVars, jobVars>>

VerifyPhoneSave(c) ==
    /\ req[c] # None /\ req[c].op = "phone"
    /\ LET r == req[c]
       IN /\ subs' = IF SameRow(r)
                     THEN [subs EXCEPT ![r.p][r.e] = PhoneConfirmed(@)]
                     ELSE subs
          /\ late' = IF SameRow(r) /\ subs[r.p][r.e].phone # r.row.phone
                     THEN late \cup {<<r.p, r.e>>} ELSE late
    /\ req' = [req EXCEPT ![c] = None]
    /\ UNCHANGED <<sent, tokens, confirmed, pageVars, jobVars>>

----------------------------------------------------------------------------
(* Managers of a page                                                      *)

Edit == edits < MaxEdits /\ edits' = edits + 1

RemoveSubscriber(p, e) ==
    /\ Edit /\ subs[p][e] # None
    /\ subs' = [subs EXCEPT ![p][e] = None]
    /\ confirmed' = {x \in confirmed : <<x[1], x[2]>> # <<p, e>>}
    /\ late' = late \ {<<p, e>>}
    /\ UNCHANGED <<public, resources, sent, tokens, req, jobVars>>

\* A resource shows one monitor or one group, never both.
AddResource(p, m) ==
    /\ Edit
    /\ resources' = [resources EXCEPT ![p] = @ \cup {m}]
    /\ UNCHANGED <<public, rowVars, jobVars>>

RemoveResource(p, m) ==
    /\ Edit /\ m \in resources[p]
    /\ resources' = [resources EXCEPT ![p] = @ \ {m}]
    /\ UNCHANGED <<public, rowVars, jobVars>>

SetPublic(p) ==
    /\ Edit
    /\ public' = [public EXCEPT ![p] = ~@]
    /\ UNCHANGED <<resources, rowVars, jobVars>>

----------------------------------------------------------------------------
(* Notifications of a maintenance window                                   *)

\* Faulty: a window for the whole project concerns no page.
PagesWithItsMonitors ==
    {p \in Pages : public[p] /\ resources[p] \cap window.covers # {}}

\* A window without monitors concerns the whole project; a group on a page
\* does not count as its monitors.
NotifiedPages ==
    {p \in Pages : /\ public[p]
                   /\ window.covers = {} \/ resources[p] \cap window.covers # {}}

RowsOf(ps) == {subs[p][e] : p \in ps, e \in Emails} \ {None}

SubscriberEmails ==
    {e \in Emails : \E p \in NotifiedPages :
                       subs[p][e] # None /\ subs[p][e].emailOk}

SubscriberPhones ==
    {r.phone : r \in {s \in RowsOf(NotifiedPages) : s.phoneOk}} \ {None}

\* notify_started, then notify_ended: the list of addresses is read once.
Notify ==
    /\ job = None /\ window.stage < MaxRuns
    /\ job' = [todo |-> SubscriberEmails, phase |-> "email"]
    /\ UNCHANGED <<window, told, failed, rowVars, pageVars>>

NotifyEmail(e) ==
    /\ job # None /\ job.phase = "email" /\ e \in job.todo
    /\ told' = told \cup {e}
    /\ job' = [job EXCEPT !.todo = @ \ {e}]
    /\ UNCHANGED <<window, failed, rowVars, pageVars>>

\* An e-mail that cannot be sent ends the run: nobody after it is told and no
\* text message leaves.
NotifyEmailFails ==
    /\ job # None /\ job.phase = "email" /\ job.todo # {}
    /\ job' = None /\ failed' = TRUE
    /\ window' = [window EXCEPT !.stage = @ + 1]
    /\ UNCHANGED <<told, rowVars, pageVars>>

\* The phone numbers are read when the e-mails are out.
NotifyPhones ==
    /\ job # None /\ job.phase = "email" /\ job.todo = {}
    /\ job' = [todo |-> SubscriberPhones, phase |-> "sms"]
    /\ UNCHANGED <<window, told, failed, rowVars, pageVars>>

\* A text message that cannot be sent is skipped.
NotifySms(f) ==
    /\ job # None /\ job.phase = "sms" /\ f \in job.todo
    /\ told' \in {told, told \cup {f}}
    /\ job' = [job EXCEPT !.todo = @ \ {f}]
    /\ UNCHANGED <<window, failed, rowVars, pageVars>>

NotifyDone ==
    /\ job # None /\ job.phase = "sms" /\ job.todo = {}
    /\ job' = None
    /\ window' = [window EXCEPT !.stage = @ + 1]
    /\ UNCHANGED <<told, failed, rowVars, pageVars>>

Request(c) ==
    \/ \E p \in Pages, e \in Emails, f \in Phones \cup {None} :
          SubscribeLoad(c, p, e, f)
    \/ SubscribeSend(c)
    \/ SubscribeSave(c)
    \/ \E p \in Pages, e \in Emails, msg \in sent : VerifyLoad(c, p, e, msg)
    \/ VerifyEmailSave(c)
    \/ VerifyPhoneSave(c)

NotifyStep ==
    \/ Notify
    \/ \E e \in Emails : NotifyEmail(e)
    \/ NotifyEmailFails
    \/ NotifyPhones
    \/ \E f \in Phones : NotifySms(f)
    \/ NotifyDone

Next ==
    \/ \E c \in Clients : Request(c)
    \/ \E p \in Pages, e \in Emails : RemoveSubscriber(p, e)
    \/ \E p \in Pages, m \in Monitors \cup Groups :
          AddResource(p, m) \/ RemoveResource(p, m)
    \/ \E p \in Pages : SetPublic(p)
    \/ NotifyStep

Spec == Init /\ [][Next]_vars

\* The maintenance job runs every minute and goes on with what it has started.
FairSpec == Spec /\ WF_vars(NotifyStep)

----------------------------------------------------------------------------
(* Properties                                                              *)

\* A confirmed e-mail address or phone number is one whose holder presented a
\* token sent to it (SubscriberService.verify_email, verify_phone), although
\* the phone may be changed at any time: the only way round is a confirmation
\* of the old number that is saved after the number has changed (late).
VerifiedIsConfirmed ==
    \A p \in Pages, e \in Emails : subs[p][e] # None =>
        /\ subs[p][e].emailOk => <<p, e, e>> \in confirmed
        /\ subs[p][e].phoneOk =>
              \/ <<p, e, subs[p][e].phone>> \in confirmed
              \/ <<p, e>> \in late

\* A token in force was only ever sent to the address it confirms, and what is
\* not yet confirmed still has a token: nobody confirms somebody else's
\* address, and no subscription is stuck (subscribe).
TokensInForce ==
    \A p \in Pages, e \in Emails : subs[p][e] # None =>
        LET r == subs[p][e]
        IN /\ \A m \in sent : /\ m[2] = r.etok => m[1] = e
                              /\ m[2] = r.ptok => m[1] = r.phone
           /\ ~r.emailOk => r.etok # 0
           /\ (r.phone # None /\ ~r.phoneOk) => r.ptok # 0

\* A subscriber who has confirmed the address before a window starts and stays
\* subscribed to a public page the window concerns is told, unless sending an
\* e-mail failed in that run (MaintenanceNotificationService.notify_started).
Eligible(p, e) ==
    /\ public[p] /\ (window.covers \subseteq resources[p])
    /\ subs[p][e] # None /\ subs[p][e].emailOk

SubscribersAreTold ==
    \A p \in Pages, e \in Emails :
        [](window.stage = 0 /\ job = None /\ []Eligible(p, e)
             => <>(failed \/ e \in told))

=============================================================================
