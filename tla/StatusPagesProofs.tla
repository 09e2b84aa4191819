-------------------------- MODULE StatusPagesProofs --------------------------
(***************************************************************************)
(* Proofs about StatusPages, for any pages, addresses, clients and bounds.  *)
(***************************************************************************)
EXTENDS StatusPages, TLAPS

(* What a request makes of a row is a row. *)
LEMMA ResubscribeType ==
    ASSUME NEW row \in Rows, NEW phone \in Phones \cup {None}, NEW fresh \in 1 .. MaxTokens
    PROVE  Resubscribe(row, phone, fresh) \in Rows
<1>1. fresh \in 0 .. MaxTokens
  BY BoundsAssumption
<1>2. [row EXCEPT !.phone = phone, !.phoneOk = FALSE, !.ptok = fresh] \in Rows
  BY <1>1, Zenon DEF Rows
<1> QED  BY <1>2 DEF Resubscribe

LEMMA WithPhoneType ==
    ASSUME NEW row \in Rows, NEW loaded \in Rows
    PROVE  WithPhone(row, loaded) \in Rows
<1>1. /\ loaded.phone \in Phones \cup {None}
      /\ loaded.ptok \in 0 .. MaxTokens
      /\ loaded.phoneOk \in BOOLEAN
  BY Zenon DEF Rows
<1> QED  BY <1>1, Zenon DEF Rows, WithPhone

LEMMA ConfirmedType ==
    ASSUME NEW row \in Rows
    PROVE  EmailConfirmed(row) \in Rows /\ PhoneConfirmed(row) \in Rows
<1>1. 0 \in 0 .. MaxTokens
  BY BoundsAssumption
<1> QED  BY <1>1, Zenon DEF Rows, EmailConfirmed, PhoneConfirmed

(* Every step of a public request preserves the types. *)
LEMMA RequestType ==
    ASSUME TypeOK, NEW c \in Clients, Request(c)
    PROVE  TypeOK'
<1> USE DEF TypeOK, pageVars, jobVars
<1>1. ASSUME NEW p \in Pages, NEW e \in Emails, NEW f \in Phones \cup {None},
             SubscribeLoad(c, p, e, f)
      PROVE  TypeOK'
  <2> DEFINE old == subs[p][e]
             new == Row(tokens + 1, f, IF f = None THEN 0 ELSE tokens + 2)
             row == IF old = None THEN new ELSE Resubscribe(old, f, tokens + 1)
             rq == [op |-> "subscribe", p |-> p, e |-> e, row |-> row,
                    update |-> old # None /\ row # old, told |-> FALSE]
  <2>1. tokens \in Nat /\ tokens + 1 \in 1 .. MaxTokens /\ tokens + 2 \in 0 .. MaxTokens
    BY <1>1, BoundsAssumption DEF SubscribeLoad
  <2>2. new \in Rows
    <3>1. (IF f = None THEN 0 ELSE tokens + 2) \in 0 .. MaxTokens /\ tokens + 1 \in 0 .. MaxTokens
      BY <2>1, BoundsAssumption
    <3> QED  BY <2>1, <3>1, Zenon DEF Row, Rows
  <2>3. row \in Rows
    <3>1. old \in Rows \cup {None}
      OBVIOUS
    <3>2. old # None => Resubscribe(old, f, tokens + 1) \in Rows
      BY <3>1, <2>1, ResubscribeType
    <3> QED  BY <2>2, <3>2
  <2>4. rq \in Subscribing
    BY <2>3 DEF Subscribing
  <2> HIDE DEF row, new, rq, old
  <2>5. subs' = (IF old = None THEN [subs EXCEPT ![p][e] = new] ELSE subs)
        /\ req' = (IF old # None /\ AlreadySubscribed(old, f) THEN req
                   ELSE [req EXCEPT ![c] = rq])
        /\ tokens' \in {tokens, tokens + 1, tokens + 2}
    BY <1>1 DEF SubscribeLoad, row, new, rq, old
  <2>6. subs' \in [Pages -> [Emails -> Rows \cup {None}]]
    BY <2>2, <2>5
  <2>7. req' \in [Clients -> Subscribing \cup Verifying \cup {None}]
    BY <2>4, <2>5
  <2> QED  BY <1>1, <2>1, <2>5, <2>6, <2>7, BoundsAssumption DEF SubscribeLoad
<1>2. CASE SubscribeSend(c)
  <2>1. req[c] \in Subscribing
    BY <1>2 DEF SubscribeSend, Verifying
  <2> DEFINE r == req[c].row
             mails == (IF r.emailOk THEN {} ELSE {<<req[c].e, r.etok>>})
                      \cup (IF r.phone = None \/ r.phoneOk THEN {}
                            ELSE {<<r.phone, r.ptok>>})
  <2>2. mails \subseteq Addresses \X (0 .. MaxTokens)
    BY <2>1 DEF Subscribing, Rows, Addresses
  <2>3. sent' \subseteq Addresses \X (0 .. MaxTokens)
    BY <1>2, <2>2 DEF SubscribeSend
  <2>4. req' \in [Clients -> Subscribing \cup Verifying \cup {None}]
    BY <1>2, <2>1 DEF SubscribeSend, Subscribing
  <2> QED  BY <1>2, <2>3, <2>4 DEF SubscribeSend
<1>3. CASE SubscribeSave(c)
  <2>1. req[c] \in Subscribing
    BY <1>3 DEF SubscribeSave, Verifying
  <2> DEFINE r == req[c]
  <2>2. r.p \in Pages /\ r.e \in Emails /\ r.row \in Rows
    BY <2>1 DEF Subscribing
  <2>3. SameRow(r) => WithPhone(subs[r.p][r.e], r.row) \in Rows
    BY <2>2, WithPhoneType DEF SameRow
  <2>4. subs' \in [Pages -> [Emails -> Rows \cup {None}]]
    BY <1>3, <2>2, <2>3 DEF SubscribeSave
  <2>5. late' \subseteq Pages \X Emails
    BY <1>3 DEF SubscribeSave
  <2> QED  BY <1>3, <2>4, <2>5 DEF SubscribeSave
<1>4. ASSUME NEW p \in Pages, NEW e \in Emails, NEW msg \in sent, VerifyLoad(c, p, e, msg)
      PROVE  TypeOK'
  <2>1. subs[p][e] \in Rows /\ msg[1] \in Addresses
    BY <1>4 DEF VerifyLoad
  <2>2. req' \in [Clients -> Subscribing \cup Verifying \cup {None}]
    BY <1>4, <2>1 DEF VerifyLoad, Verifying
  <2>3. confirmed' \subseteq Pages \X Emails \X Addresses
    BY <1>4, <2>1 DEF VerifyLoad
  <2> QED  BY <1>4, <2>2, <2>3 DEF VerifyLoad
<1>5. CASE VerifyEmailSave(c)
  <2>1. req[c] \in Verifying
    BY <1>5 DEF VerifyEmailSave, Subscribing
  <2>2. subs' \in [Pages -> [Emails -> Rows \cup {None}]]
    BY <1>5, <2>1, ConfirmedType DEF VerifyEmailSave, Verifying, SameRow
  <2> QED  BY <1>5, <2>2 DEF VerifyEmailSave
<1>6. CASE VerifyPhoneSave(c)
  <2>1. req[c] \in Verifying
    BY <1>6 DEF VerifyPhoneSave, Subscribing
  <2>2. subs' \in [Pages -> [Emails -> Rows \cup {None}]]
    BY <1>6, <2>1, ConfirmedType DEF VerifyPhoneSave, Verifying, SameRow
  <2>3. late' \subseteq Pages \X Emails
    BY <1>6, <2>1 DEF VerifyPhoneSave, Verifying
  <2> QED  BY <1>6, <2>2, <2>3 DEF VerifyPhoneSave
<1> QED  BY <1>1, <1>2, <1>3, <1>4, <1>5, <1>6 DEF Request

(* So does every step of the notification job. *)
LEMMA NotifyType ==
    ASSUME TypeOK, NotifyStep
    PROVE  TypeOK'
<1> USE BoundsAssumption DEF TypeOK, rowVars, pageVars
<1>1. CASE Notify
  BY <1>1 DEF Notify, SubscriberEmails, Addresses
<1>2. ASSUME NEW e \in Emails, NotifyEmail(e)
      PROVE  TypeOK'
  BY <1>2 DEF NotifyEmail, Addresses
<1>3. CASE NotifyEmailFails
  BY <1>3 DEF NotifyEmailFails
<1>4. CASE NotifyPhones
  <2>1. RowsOf(NotifiedPages) \ {None} \subseteq Rows
    BY DEF RowsOf, NotifiedPages
  <2>2. SubscriberPhones \subseteq Addresses
    BY <2>1 DEF SubscriberPhones, RowsOf, Rows, Addresses
  <2> QED  BY <1>4, <2>2 DEF NotifyPhones
<1>5. ASSUME NEW f \in Phones, NotifySms(f)
      PROVE  TypeOK'
  BY <1>5 DEF NotifySms, Addresses
<1>6. CASE NotifyDone
  BY <1>6 DEF NotifyDone
<1> QED  BY <1>1, <1>2, <1>3, <1>4, <1>5, <1>6 DEF NotifyStep

LEMMA TypeInit ==
    ASSUME Init
    PROVE  TypeOK
<1>1. resources \in [Pages -> SUBSET (Monitors \cup Groups)]
  BY DEF Init
<1>2. window \in [covers : SUBSET Monitors, stage : 0 .. MaxRuns]
  BY BoundsAssumption, CoveringsAssumption DEF Init
<1>3. /\ public \in [Pages -> BOOLEAN]
      /\ subs \in [Pages -> [Emails -> Rows \cup {None}]]
      /\ req \in [Clients -> Subscribing \cup Verifying \cup {None}]
  BY DEF Init
<1>4. tokens \in 0 .. MaxTokens /\ edits \in 0 .. MaxEdits
  BY BoundsAssumption DEF Init
<1> QED  BY <1>1, <1>2, <1>3, <1>4 DEF Init, TypeOK

LEMMA TypeStep ==
    ASSUME TypeOK, [Next]_vars
    PROVE  TypeOK'
<1>0. Edit => edits' \in 0 .. MaxEdits
  BY BoundsAssumption DEF Edit, TypeOK
<1>1. ASSUME NEW p \in Pages, NEW e \in Emails, RemoveSubscriber(p, e)
      PROVE  TypeOK'
  <2>1. subs' \in [Pages -> [Emails -> Rows \cup {None}]]
    BY <1>1 DEF RemoveSubscriber, TypeOK
  <2>2. /\ confirmed' \subseteq Pages \X Emails \X Addresses
        /\ late' \subseteq Pages \X Emails
    BY <1>1 DEF RemoveSubscriber, TypeOK
  <2> QED  BY <1>0, <1>1, <2>1, <2>2 DEF RemoveSubscriber, TypeOK, jobVars
<1>2. ASSUME NEW p \in Pages, NEW m \in Monitors \cup Groups,
             AddResource(p, m) \/ RemoveResource(p, m)
      PROVE  TypeOK'
  <2>1. resources' \in [Pages -> SUBSET (Monitors \cup Groups)]
    BY <1>2 DEF AddResource, RemoveResource, TypeOK
  <2> QED  BY <1>0, <1>2, <2>1 DEF AddResource, RemoveResource, TypeOK, rowVars, jobVars
<1>3. ASSUME NEW p \in Pages, SetPublic(p)
      PROVE  TypeOK'
  <2>1. public' \in [Pages -> BOOLEAN]
    BY <1>3 DEF SetPublic, TypeOK
  <2> QED  BY <1>0, <1>3, <2>1 DEF SetPublic, TypeOK, rowVars, jobVars
<1>4. CASE UNCHANGED vars
  BY <1>4 DEF TypeOK, vars
<1> QED  BY <1>1, <1>2, <1>3, <1>4, RequestType, NotifyType DEF Next

(* Every variable keeps its type, requests between their read and their      *)
(* write included.                                                            *)
THEOREM TypeCorrect == Spec => []TypeOK
<1>1. TypeOK /\ [Next]_vars => TypeOK'
  BY TypeStep
<1> QED  BY <1>1, TypeInit, PTL DEF Spec

-----------------------------------------------------------------------------
(* Tokens *)

(* An address lays claim to a token: by a message received, by a row it is   *)
(* the e-mail address or the phone number of, or by the row a subscription   *)
(* has in hand, to send messages for and to save.                            *)
RowClaims(e, row, a, n) ==
    \/ a = e /\ n = row.etok
    \/ a = row.phone /\ n = row.ptok

InFlight(c, ops) == req[c] # None /\ req[c].op \in ops

Claims(a, n) ==
    \/ <<a, n>> \in sent
    \/ \E p \in Pages, e \in Emails : subs[p][e] # None /\ RowClaims(e, subs[p][e], a, n)
    \/ \E c \in Clients :
          InFlight(c, {"subscribe"}) /\ RowClaims(req[c].e, req[c].row, a, n)

(* No two addresses claim the same token, and none a token not created yet. *)
OneOwner ==
    \A a, b \in Addresses \cup {None}, n \in 1 .. MaxTokens :
        Claims(a, n) /\ Claims(b, n) => a = b
ClaimsAreIssued ==
    \A a \in Addresses \cup {None}, n \in 1 .. MaxTokens : Claims(a, n) => n <= tokens
SentIsIssued == \A m \in sent : m[2] # 0

(* What is to be confirmed has a token, in the rows and in the requests; what *)
(* SubscribeSave writes always has.                                           *)
HasTokens(row) ==
    /\ ~row.emailOk => row.etok # 0
    /\ row.phone # None /\ ~row.phoneOk => row.ptok # 0
RowsHaveTokens ==
    \A p \in Pages, e \in Emails :
        subs[p][e] # None => HasTokens(subs[p][e]) /\ subs[p][e].id <= tokens
RequestsHaveTokens ==
    \A c \in Clients :
        /\ req[c] # None => req[c].row.id <= tokens
        /\ InFlight(c, {"subscribe"}) =>
             /\ HasTokens(req[c].row)
             /\ req[c].update => ~req[c].row.phoneOk /\ req[c].row.ptok # 0

TokensInv ==
    /\ OneOwner
    /\ ClaimsAreIssued
    /\ SentIsIssued
    /\ RowsHaveTokens
    /\ RequestsHaveTokens

(* A confirmation in flight rests on a token presented by the address it is   *)
(* about, as long as the row it has read is there.                            *)
ConfirmationsHold ==
    \A c \in Clients :
        LET r == req[c]
        IN  /\ InFlight(c, {"email"}) /\ SameRow(r) => <<r.p, r.e, r.e>> \in confirmed
            /\ InFlight(c, {"phone"}) /\ SameRow(r) => <<r.p, r.e, r.row.phone>> \in confirmed

ConfirmedInv == VerifiedIsConfirmed /\ ConfirmationsHold

(* What the columns of a row become. *)
LEMMA RowFields ==
    ASSUME NEW row \in Rows, NEW loaded \in Rows
    PROVE  /\ WithPhone(row, loaded).id = row.id
           /\ WithPhone(row, loaded).phone = loaded.phone
           /\ WithPhone(row, loaded).etok = row.etok
           /\ WithPhone(row, loaded).ptok = loaded.ptok
           /\ WithPhone(row, loaded).emailOk = row.emailOk
           /\ WithPhone(row, loaded).phoneOk = loaded.phoneOk
           /\ EmailConfirmed(row).id = row.id
           /\ EmailConfirmed(row).phone = row.phone
           /\ EmailConfirmed(row).etok = 0
           /\ EmailConfirmed(row).ptok = row.ptok
           /\ EmailConfirmed(row).emailOk
           /\ EmailConfirmed(row).phoneOk = row.phoneOk
           /\ PhoneConfirmed(row).id = row.id
           /\ PhoneConfirmed(row).phone = row.phone
           /\ PhoneConfirmed(row).etok = row.etok
           /\ PhoneConfirmed(row).ptok = 0
           /\ PhoneConfirmed(row).emailOk = row.emailOk
           /\ PhoneConfirmed(row).phoneOk
BY DEF Rows, WithPhone, EmailConfirmed, PhoneConfirmed

LEMMA ResubscribeFields ==
    ASSUME NEW row \in Rows, NEW phone \in Phones \cup {None}, NEW fresh \in 1 .. MaxTokens,
           Resubscribe(row, phone, fresh) # row
    PROVE  /\ row.emailOk /\ phone # None /\ phone # row.phone
           /\ Resubscribe(row, phone, fresh).id = row.id
           /\ Resubscribe(row, phone, fresh).phone = phone
           /\ Resubscribe(row, phone, fresh).etok = row.etok
           /\ Resubscribe(row, phone, fresh).ptok = fresh
           /\ Resubscribe(row, phone, fresh).emailOk = row.emailOk
           /\ ~Resubscribe(row, phone, fresh).phoneOk
BY DEF Rows, Resubscribe

(* A step whose new claims are those of one address to the next token and of *)
(* another to the one after keeps the owners of tokens unique.                *)
LEMMA ClaimsStep ==
    ASSUME TypeOK, OneOwner, ClaimsAreIssued, tokens' \in Nat, tokens' >= tokens,
           NEW x, NEW y,
           \A a \in Addresses \cup {None}, n \in 1 .. MaxTokens :
              Claims(a, n)' => \/ Claims(a, n)
                               \/ a = x /\ n = tokens + 1 /\ n <= tokens'
                               \/ a = y /\ n = tokens + 2 /\ n <= tokens'
    PROVE  OneOwner' /\ ClaimsAreIssued'
<1>1. tokens \in Nat
  BY BoundsAssumption DEF TypeOK
<1>2. ClaimsAreIssued'
  BY <1>1, BoundsAssumption DEF ClaimsAreIssued
<1>3. ASSUME NEW a \in Addresses \cup {None}, NEW b \in Addresses \cup {None},
             NEW n \in 1 .. MaxTokens, Claims(a, n)', Claims(b, n)'
      PROVE  a = b
  <2>1. CASE n <= tokens
    <3>1. Claims(a, n) /\ Claims(b, n)
      BY <1>1, <1>3, <2>1, BoundsAssumption
    <3> QED  BY <3>1 DEF OneOwner
  <2>2. CASE ~(n <= tokens)
    <3>1. ~Claims(a, n) /\ ~Claims(b, n)
      BY <2>2 DEF ClaimsAreIssued
    <3> QED  BY <1>1, <1>3, <3>1, BoundsAssumption
  <2> QED  BY <2>1, <2>2
<1> QED  BY <1>2, <1>3 DEF OneOwner

(* Every step of a public request preserves what is said about tokens. *)
LEMMA LoadTokens ==
    ASSUME TypeOK, TokensInv, NEW c \in Clients, NEW p \in Pages, NEW e \in Emails,
           NEW f \in Phones \cup {None}, SubscribeLoad(c, p, e, f)
    PROVE  TokensInv'
<1> DEFINE old == subs[p][e]
           ptok == IF f = None THEN 0 ELSE tokens + 2
           new == Row(tokens + 1, f, ptok)
           row == IF old = None THEN new ELSE Resubscribe(old, f, tokens + 1)
           rq == [op |-> "subscribe", p |-> p, e |-> e, row |-> row,
                  update |-> old # None /\ row # old, told |-> FALSE]
<1>1. /\ tokens \in Nat /\ tokens + 1 \in 1 .. MaxTokens
      /\ tokens + 2 \in 0 .. MaxTokens /\ tokens + 1 \in 0 .. MaxTokens
      /\ ptok \in 0 .. MaxTokens
  BY BoundsAssumption DEF SubscribeLoad, TypeOK
<1>2. new \in Rows
  BY <1>1, Zenon DEF Row, Rows
<1>3. /\ new.id = tokens + 1 /\ new.etok = tokens + 1
      /\ new.phone = f /\ new.ptok = ptok /\ ~new.emailOk /\ ~new.phoneOk
  BY DEF Row
<1>4. old \in Rows \cup {None}
  BY DEF TypeOK
<1>5. \/ old = None /\ row = new
      \/ old # None /\ row = old
      \/ /\ old # None /\ row # old /\ old.emailOk /\ f # None
         /\ row.id = old.id /\ row.phone = f /\ row.etok = old.etok
         /\ row.ptok = tokens + 1 /\ row.emailOk = old.emailOk /\ ~row.phoneOk
  BY <1>1, <1>4, ResubscribeFields
<1>6. /\ rq.op = "subscribe" /\ rq.e = e /\ rq.row = row
      /\ rq.update <=> old # None /\ row # old
  OBVIOUS
<1>7. /\ sent' = sent
      /\ subs' = IF old = None THEN [subs EXCEPT ![p][e] = new] ELSE subs
      /\ req' = req \/ req' = [req EXCEPT ![c] = rq]
      /\ tokens' = IF row = old THEN tokens
                   ELSE IF old # None \/ f = None THEN tokens + 1 ELSE tokens + 2
  BY DEF SubscribeLoad
<1> HIDE DEF new, row, rq, old, ptok
<1>8. tokens' \in Nat /\ tokens' >= tokens /\ (old = None => tokens' >= tokens + 1)
  BY <1>1, <1>2, <1>5, <1>7, NoneAssumption
<1>9. \A q \in Pages, g \in Emails :
         subs'[q][g] = IF q = p /\ g = e /\ old = None THEN new ELSE subs[q][g]
  BY <1>7 DEF TypeOK
<1>10. \A d \in Clients : req'[d] = req[d] \/ (d = c /\ req'[d] = rq)
  BY <1>7 DEF TypeOK
<1>11. ASSUME NEW a \in Addresses \cup {None}, NEW n \in 1 .. MaxTokens, RowClaims(e, new, a, n),
              old = None
       PROVE  \/ a = e /\ n = tokens + 1 /\ n <= tokens'
              \/ a = f /\ n = tokens + 2 /\ n <= tokens'
  BY <1>1, <1>2, <1>3, <1>5, <1>7, <1>11, NoneAssumption DEF RowClaims, ptok
<1>12. ASSUME NEW a \in Addresses \cup {None}, NEW n \in 1 .. MaxTokens, RowClaims(e, row, a, n),
              old # None
       PROVE  Claims(a, n) \/ (a = f /\ n = tokens + 1 /\ n <= tokens')
  <2>1. RowClaims(e, old, a, n) => Claims(a, n)
    BY <1>12 DEF Claims, old
  <2> QED  BY <1>1, <1>5, <1>7, <1>12, <2>1 DEF RowClaims
<1>13. OneOwner' /\ ClaimsAreIssued'
  <2> DEFINE x == IF old = None THEN e ELSE f
  <2>1. ASSUME NEW a \in Addresses \cup {None}, NEW n \in 1 .. MaxTokens, Claims(a, n)'
        PROVE  \/ Claims(a, n)
               \/ a = x /\ n = tokens + 1 /\ n <= tokens'
               \/ a = f /\ n = tokens + 2 /\ n <= tokens'
    <3>1. CASE <<a, n>> \in sent'
      BY <1>7, <3>1 DEF Claims
    <3>2. ASSUME NEW q \in Pages, NEW g \in Emails,
                 subs'[q][g] # None, RowClaims(g, subs'[q][g], a, n)
          PROVE  Claims(a, n) \/ (old = None /\ RowClaims(e, new, a, n))
      BY <1>9, <3>2 DEF Claims
    <3>3. ASSUME NEW d \in Clients, InFlight(d, {"subscribe"})',
                 RowClaims(req'[d].e, req'[d].row, a, n)
          PROVE  Claims(a, n) \/ RowClaims(e, row, a, n)
      BY <1>6, <1>10, <3>3 DEF Claims, InFlight
    <3>4. RowClaims(e, row, a, n) /\ old = None => RowClaims(e, new, a, n)
      BY <1>2, <1>5, NoneAssumption
    <3> QED  BY <1>11, <1>12, <2>1, <3>1, <3>2, <3>3, <3>4 DEF Claims
  <2> HIDE DEF x
  <2>2. \A a \in Addresses \cup {None}, n \in 1 .. MaxTokens :
           Claims(a, n)' => \/ Claims(a, n)
                            \/ a = x /\ n = tokens + 1 /\ n <= tokens'
                            \/ a = f /\ n = tokens + 2 /\ n <= tokens'
    BY <2>1
  <2>3. OneOwner /\ ClaimsAreIssued
    BY DEF TokensInv
  <2> QED  BY <1>8, <2>2, <2>3, ClaimsStep
<1>14. SentIsIssued'
  BY <1>7 DEF TokensInv, SentIsIssued
<1>15. HasTokens(new) /\ (old # None => HasTokens(old) /\ old.id <= tokens)
  BY <1>1, <1>3 DEF TokensInv, RowsHaveTokens, HasTokens, ptok, old
<1>16. HasTokens(row) /\ row.id <= tokens'
       /\ (rq.update => ~row.phoneOk /\ row.ptok # 0)
  <2>1. CASE old = None
    BY <1>1, <1>2, <1>3, <1>5, <1>6, <1>8, <1>15, <2>1, NoneAssumption
  <2>2. CASE old # None /\ row = old
    BY <1>1, <1>4, <1>6, <1>8, <1>15, <2>2 DEF Rows
  <2>3. CASE old # None /\ row # old
    <3>1. row.ptok # 0 /\ row.emailOk
      BY <1>1, <1>5, <2>3
    <3>2. HasTokens(row)
      BY <3>1 DEF HasTokens
    <3>3. row.id = old.id /\ old.id \in Nat /\ old.id <= tokens
      BY <1>4, <1>5, <1>15, <2>3 DEF Rows
    <3>4. ~row.phoneOk
      BY <1>5, <2>3
    <3> QED  BY <1>1, <1>8, <3>1, <3>2, <3>3, <3>4
  <2> QED  BY <2>1, <2>2, <2>3
<1>17. RowsHaveTokens'
  <2>1. ASSUME NEW q \in Pages, NEW g \in Emails, subs[q][g] # None
        PROVE  HasTokens(subs[q][g]) /\ subs[q][g].id <= tokens'
    <3>1. HasTokens(subs[q][g]) /\ subs[q][g].id <= tokens /\ subs[q][g] \in Rows
      BY <2>1 DEF TokensInv, RowsHaveTokens, TypeOK
    <3> QED  BY <1>1, <1>8, <3>1 DEF Rows
  <2>2. old = None => HasTokens(new) /\ new.id <= tokens'
    BY <1>3, <1>8, <1>15
  <2> QED  BY <1>9, <2>1, <2>2 DEF RowsHaveTokens, HasTokens
<1>18. RequestsHaveTokens'
  <2>1. ASSUME NEW d \in Clients, req[d] # None
        PROVE  req[d].row.id <= tokens'
    <3>1. req[d].row.id <= tokens /\ req[d].row \in Rows
      BY <2>1 DEF TokensInv, RequestsHaveTokens, TypeOK, Subscribing, Verifying
    <3> QED  BY <1>1, <1>8, <3>1 DEF Rows
  <2> QED  BY <1>6, <1>10, <1>16, <2>1
           DEF TokensInv, RequestsHaveTokens, HasTokens, InFlight
<1> QED  BY <1>13, <1>14, <1>17, <1>18 DEF TokensInv

LEMMA NoNewClaims ==
    ASSUME OneOwner, ClaimsAreIssued, tokens' = tokens,
           \A a \in Addresses \cup {None}, n \in 1 .. MaxTokens : Claims(a, n)' => Claims(a, n)
    PROVE  OneOwner' /\ ClaimsAreIssued'
BY DEF OneOwner, ClaimsAreIssued

LEMMA SendTokens ==
    ASSUME TypeOK, TokensInv, NEW c \in Clients, SubscribeSend(c)
    PROVE  TokensInv'
<1> DEFINE r == req[c].row
           mails == (IF r.emailOk THEN {} ELSE {<<req[c].e, r.etok>>})
                    \cup (IF r.phone = None \/ r.phoneOk THEN {} ELSE {<<r.phone, r.ptok>>})
<1>1. InFlight(c, {"subscribe"}) /\ req[c] \in Subscribing
  BY DEF SubscribeSend, InFlight, TypeOK, Verifying
<1>2. \A a, n : <<a, n>> \in mails => RowClaims(req[c].e, r, a, n) /\ n # 0
  BY <1>1 DEF RowClaims, TokensInv, RequestsHaveTokens, HasTokens
<1>3. \A m \in sent' : m \in sent \/ m \in mails
  BY DEF SubscribeSend
<1>4. subs' = subs /\ tokens' = tokens
  BY DEF SubscribeSend
<1>5. \A d \in Clients : /\ req'[d].row = req[d].row /\ req'[d].e = req[d].e
                         /\ req'[d].op = req[d].op
                         /\ req'[d] # None => req[d] # None
                         /\ InFlight(d, {"subscribe"}) => req'[d].update = req[d].update
  <2>1. req' = [req EXCEPT ![c] = [req[c] EXCEPT !.told = TRUE]]
    BY DEF SubscribeSend
  <2>2. /\ [req[c] EXCEPT !.told = TRUE].row = req[c].row
        /\ [req[c] EXCEPT !.told = TRUE].e = req[c].e
        /\ [req[c] EXCEPT !.told = TRUE].op = req[c].op
        /\ [req[c] EXCEPT !.told = TRUE].update = req[c].update
    BY <1>1 DEF Subscribing
  <2> QED  BY <1>1, <2>1, <2>2 DEF TypeOK, InFlight
<1> HIDE DEF mails, r
<1>6. ASSUME NEW a \in Addresses \cup {None}, NEW n \in 1 .. MaxTokens, Claims(a, n)'
      PROVE  Claims(a, n)
  <2>1. <<a, n>> \in mails => Claims(a, n)
    BY <1>1, <1>2 DEF Claims, r
  <2>2. <<a, n>> \in sent' => Claims(a, n)
    BY <1>3, <2>1 DEF Claims
  <2> QED  BY <1>4, <1>5, <1>6, <2>2 DEF Claims, InFlight
<1>7. OneOwner' /\ ClaimsAreIssued'
  BY <1>4, <1>6, NoNewClaims DEF TokensInv
<1>8. SentIsIssued'
  <2>1. ASSUME NEW m \in mails
        PROVE  m[2] # 0
    BY <1>2, <2>1 DEF mails
  <2> QED  BY <1>3, <2>1 DEF SentIsIssued, TokensInv
<1>9. RowsHaveTokens' /\ RequestsHaveTokens'
  BY <1>4, <1>5 DEF TokensInv, RowsHaveTokens, RequestsHaveTokens, HasTokens, InFlight
<1> QED  BY <1>7, <1>8, <1>9 DEF TokensInv

(* A request that ends and leaves the rows alone, or gives one of them what  *)
(* another has in hand or no token at all, makes no new claim.                *)
LEMMA SaveTokens ==
    ASSUME TypeOK, TokensInv, NEW c \in Clients,
           SubscribeSave(c) \/ VerifyEmailSave(c) \/ VerifyPhoneSave(c)
    PROVE  TokensInv'
<1> DEFINE r == req[c]
           row == subs[r.p][r.e]
           written == IF r.op = "subscribe" THEN WithPhone(row, r.row)
                      ELSE IF r.op = "email" THEN EmailConfirmed(row)
                      ELSE PhoneConfirmed(row)
<1>1. /\ r # None /\ r \in Subscribing \cup Verifying
      /\ r.p \in Pages /\ r.e \in Emails /\ r.row \in Rows
  BY DEF SubscribeSave, VerifyEmailSave, VerifyPhoneSave, TypeOK, Subscribing, Verifying
<1>2. /\ tokens' = tokens /\ sent' = sent
      /\ req' = [req EXCEPT ![c] = None]
  BY DEF SubscribeSave, VerifyEmailSave, VerifyPhoneSave
<1>3. \/ subs' = subs
      \/ /\ SameRow(r)
         /\ r.op = "subscribe" => r.update
         /\ subs' = [subs EXCEPT ![r.p][r.e] = written]
  BY DEF SubscribeSave, VerifyEmailSave, VerifyPhoneSave
<1>4. SameRow(r) => row \in Rows /\ row # None /\ HasTokens(row) /\ row.id <= tokens
  BY <1>1 DEF SameRow, TypeOK, TokensInv, RowsHaveTokens
<1>5. SameRow(r) /\ (r.op = "subscribe" => r.update) =>
        /\ HasTokens(written) /\ written.id = row.id
        /\ \A a, n : n # 0 /\ RowClaims(r.e, written, a, n) =>
              \/ RowClaims(r.e, row, a, n)
              \/ InFlight(c, {"subscribe"}) /\ RowClaims(r.e, r.row, a, n)
  <2> SUFFICES ASSUME SameRow(r), r.op = "subscribe" => r.update
               PROVE  /\ HasTokens(written) /\ written.id = row.id
                      /\ \A a, n : n # 0 /\ RowClaims(r.e, written, a, n) =>
                            \/ RowClaims(r.e, row, a, n)
                            \/ InFlight(c, {"subscribe"}) /\ RowClaims(r.e, r.row, a, n)
    OBVIOUS
  <2>1. CASE r.op = "subscribe"
    <3>1. ~r.row.phoneOk /\ r.row.ptok # 0
      BY <1>1, <2>1 DEF TokensInv, RequestsHaveTokens, InFlight
    <3>2. /\ written.id = row.id /\ written.phone = r.row.phone /\ written.etok = row.etok
          /\ written.ptok = r.row.ptok /\ written.emailOk = row.emailOk
          /\ written.phoneOk = r.row.phoneOk
      BY <1>1, <1>4, <2>1, RowFields
    <3> QED  BY <1>1, <1>4, <2>1, <3>1, <3>2 DEF HasTokens, RowClaims, InFlight
  <2>2. CASE r.op = "email"
    <3>1. /\ written.id = row.id /\ written.phone = row.phone /\ written.etok = 0
          /\ written.ptok = row.ptok /\ written.emailOk /\ written.phoneOk = row.phoneOk
      BY <1>1, <1>4, <2>2, RowFields
    <3> QED  BY <1>4, <3>1 DEF HasTokens, RowClaims
  <2>3. CASE r.op = "phone"
    <3>1. /\ written.id = row.id /\ written.phone = row.phone /\ written.etok = row.etok
          /\ written.ptok = 0 /\ written.emailOk = row.emailOk /\ written.phoneOk
      BY <1>1, <1>4, <2>3, RowFields
    <3> QED  BY <1>4, <3>1 DEF HasTokens, RowClaims
  <2> QED  BY <1>1, <2>1, <2>2, <2>3 DEF Subscribing, Verifying
<1> HIDE DEF r, row, written
<1>6. \A d \in Clients : req'[d] = IF d = c THEN None ELSE req[d]
  BY <1>2 DEF TypeOK
<1>7. \A q \in Pages, g \in Emails :
         \/ subs'[q][g] = subs[q][g]
         \/ /\ q = r.p /\ g = r.e /\ subs[q][g] = row /\ subs'[q][g] = written
            /\ SameRow(r) /\ (r.op = "subscribe" => r.update)
  BY <1>1, <1>3 DEF TypeOK, row
<1>8. ASSUME NEW a \in Addresses \cup {None}, NEW n \in 1 .. MaxTokens, Claims(a, n)'
      PROVE  Claims(a, n)
  <2>1. CASE <<a, n>> \in sent'
    BY <1>2, <2>1 DEF Claims
  <2>2. ASSUME NEW q \in Pages, NEW g \in Emails,
               subs'[q][g] # None, RowClaims(g, subs'[q][g], a, n)
        PROVE  Claims(a, n)
    <3>1. CASE subs'[q][g] = subs[q][g]
      BY <2>2, <3>1 DEF Claims
    <3>2. CASE subs'[q][g] # subs[q][g]
      <4>1. n # 0 /\ q = r.p /\ g = r.e /\ subs[q][g] = row /\ RowClaims(r.e, written, a, n)
            /\ SameRow(r) /\ (r.op = "subscribe" => r.update)
        BY <1>7, <2>2, <3>2
      <4>2. \/ RowClaims(r.e, row, a, n)
            \/ InFlight(c, {"subscribe"}) /\ RowClaims(r.e, r.row, a, n)
        BY <1>5, <4>1
      <4> QED  BY <1>4, <4>1, <4>2 DEF Claims, r
    <3> QED  BY <3>1, <3>2
  <2>3. ASSUME NEW d \in Clients, InFlight(d, {"subscribe"})',
               RowClaims(req'[d].e, req'[d].row, a, n)
        PROVE  Claims(a, n)
    BY <1>6, <2>3 DEF Claims, InFlight
  <2> QED  BY <1>8, <2>1, <2>2, <2>3 DEF Claims
<1>9. OneOwner' /\ ClaimsAreIssued'
  BY <1>2, <1>8, NoNewClaims DEF TokensInv
<1>10. RowsHaveTokens'
  BY <1>2, <1>4, <1>5, <1>7 DEF TokensInv, RowsHaveTokens, HasTokens
<1>11. RequestsHaveTokens' /\ SentIsIssued'
  BY <1>2, <1>6 DEF TokensInv, RequestsHaveTokens, SentIsIssued, InFlight, HasTokens
<1> QED  BY <1>9, <1>10, <1>11 DEF TokensInv

LEMMA VerifyTokens ==
    ASSUME TypeOK, TokensInv, NEW c \in Clients, NEW p \in Pages, NEW e \in Emails,
           NEW msg \in sent, VerifyLoad(c, p, e, msg)
    PROVE  TokensInv'
<1>1. /\ tokens' = tokens /\ sent' = sent /\ subs' = subs
      /\ subs[p][e] # None
  BY DEF VerifyLoad
<1>2. \A d \in Clients :
         \/ req'[d] = req[d]
         \/ ~InFlight(d, {"subscribe"})' /\ req'[d].row = subs[p][e]
  BY DEF VerifyLoad, TypeOK, InFlight
<1>3. OneOwner' /\ ClaimsAreIssued'
  <2>1. \A a \in Addresses \cup {None}, n \in 1 .. MaxTokens : Claims(a, n)' => Claims(a, n)
    BY <1>1, <1>2 DEF Claims, InFlight
  <2> QED  BY <1>1, <2>1, NoNewClaims DEF TokensInv
<1>4. RowsHaveTokens' /\ RequestsHaveTokens' /\ SentIsIssued'
  BY <1>1, <1>2
  DEF TokensInv, RowsHaveTokens, RequestsHaveTokens, HasTokens, SentIsIssued, InFlight
<1> QED  BY <1>3, <1>4 DEF TokensInv

(* Rows change by public requests and by removal only. *)
LEMMA StepKinds ==
    ASSUME [Next]_vars
    PROVE  \/ \E c \in Clients : Request(c)
           \/ \E p \in Pages, e \in Emails : RemoveSubscriber(p, e)
           \/ UNCHANGED rowVars
BY DEF Next, NotifyStep, Notify, NotifyEmail, NotifyEmailFails, NotifyPhones, NotifySms,
       NotifyDone, AddResource, RemoveResource, SetPublic, vars, rowVars

(* The managers and the notification job create and give away no token. *)
LEMMA TokensStep ==
    ASSUME TypeOK, TokensInv, [Next]_vars
    PROVE  TokensInv'
<1>1. ASSUME NEW c \in Clients, Request(c)
      PROVE  TokensInv'
  BY <1>1, LoadTokens, SendTokens, SaveTokens, VerifyTokens DEF Request
<1>2. ASSUME NEW p \in Pages, NEW e \in Emails, RemoveSubscriber(p, e)
      PROVE  TokensInv'
  <2>1. /\ tokens' = tokens /\ sent' = sent /\ req' = req
        /\ \A q \in Pages, g \in Emails : subs'[q][g] = subs[q][g] \/ subs'[q][g] = None
    BY <1>2 DEF RemoveSubscriber, TypeOK
  <2>2. \A a \in Addresses \cup {None}, n \in 1 .. MaxTokens : Claims(a, n)' => Claims(a, n)
    BY <2>1 DEF Claims, InFlight
  <2>3. OneOwner' /\ ClaimsAreIssued'
    BY <2>1, <2>2, NoNewClaims DEF TokensInv
  <2>4. RowsHaveTokens' /\ RequestsHaveTokens' /\ SentIsIssued'
    BY <2>1 DEF TokensInv, RowsHaveTokens, RequestsHaveTokens, HasTokens, SentIsIssued, InFlight
  <2> QED  BY <2>3, <2>4 DEF TokensInv
<1>3. CASE UNCHANGED rowVars
  BY <1>3 DEF rowVars, TokensInv, OneOwner, ClaimsAreIssued, SentIsIssued, RowsHaveTokens,
              RequestsHaveTokens, HasTokens, InFlight, Claims
<1> QED  BY <1>1, <1>2, <1>3, StepKinds

LEMMA TokensInit ==
    ASSUME Init
    PROVE  TokensInv
BY DEF Init, TokensInv, OneOwner, ClaimsAreIssued, SentIsIssued, RowsHaveTokens,
       RequestsHaveTokens, InFlight, Claims

LEMMA TokensFollow ==
    ASSUME TypeOK, TokensInv
    PROVE  TokensInForce
<1> SUFFICES ASSUME NEW p \in Pages, NEW e \in Emails, subs[p][e] # None
             PROVE  /\ \A m \in sent : /\ m[2] = subs[p][e].etok => m[1] = e
                                       /\ m[2] = subs[p][e].ptok => m[1] = subs[p][e].phone
                    /\ HasTokens(subs[p][e])
  BY DEF TokensInForce, HasTokens
<1> DEFINE r == subs[p][e]
<1>1. r \in Rows
  BY DEF TypeOK
<1>2. e \in Addresses \cup {None} /\ r.phone \in Addresses \cup {None}
  BY <1>1 DEF Addresses, Rows
<1>3. ASSUME NEW m \in sent
      PROVE  m[1] \in Addresses /\ m[2] \in 1 .. MaxTokens /\ Claims(m[1], m[2])
  <2>1. m \in Addresses \X (0 .. MaxTokens) /\ m[2] # 0
    BY DEF TypeOK, TokensInv, SentIsIssued
  <2>2. m[2] \in 0 .. MaxTokens /\ m[1] \in Addresses /\ m = <<m[1], m[2]>>
    BY <2>1
  <2>3. m[2] \in 1 .. MaxTokens
    BY <2>1, <2>2, BoundsAssumption
  <2> QED  BY <2>2, <2>3 DEF Claims
<1>4. ASSUME NEW m \in sent, m[2] = r.etok
      PROVE  m[1] = e
  <2>1. Claims(e, m[2])
    BY <1>4 DEF Claims, RowClaims
  <2> QED  BY <1>2, <1>3, <2>1 DEF TokensInv, OneOwner
<1>5. ASSUME NEW m \in sent, m[2] = r.ptok
      PROVE  m[1] = r.phone
  <2>1. Claims(r.phone, m[2])
    BY <1>5 DEF Claims, RowClaims
  <2> QED  BY <1>2, <1>3, <2>1 DEF TokensInv, OneOwner
<1> QED  BY <1>4, <1>5 DEF TokensInv, RowsHaveTokens

(* SubscriberService.subscribe: a confirmation token in force was only ever   *)
(* sent to the address it confirms, and what is still to be confirmed has one, *)
(* whatever requests and managers do to the row between its reads and writes.  *)
THEOREM TokensStay == Spec => []TokensInForce
<1>1. Init => TypeOK /\ TokensInv
  BY TypeInit, TokensInit
<1>2. TypeOK /\ TokensInv /\ [Next]_vars => TypeOK' /\ TokensInv'
  BY TypeStep, TokensStep
<1>3. TypeOK /\ TokensInv => TokensInForce
  BY TokensFollow
<1> QED  BY <1>1, <1>2, <1>3, PTL DEF Spec

-----------------------------------------------------------------------------
(* Confirmed addresses *)

(* What ConfirmedInv says of one row and of one request. *)
RowConfirmed(p, e) ==
    subs[p][e] # None =>
        /\ subs[p][e].emailOk => <<p, e, e>> \in confirmed
        /\ subs[p][e].phoneOk =>
              <<p, e, subs[p][e].phone>> \in confirmed \/ <<p, e>> \in late
RequestConfirmed(c) ==
    SameRow(req[c]) =>
        /\ InFlight(c, {"email"}) => <<req[c].p, req[c].e, req[c].e>> \in confirmed
        /\ InFlight(c, {"phone"}) => <<req[c].p, req[c].e, req[c].row.phone>> \in confirmed

LEMMA ConfirmedParts ==
    /\ ConfirmedInv <=> /\ \A p \in Pages, e \in Emails : RowConfirmed(p, e)
                        /\ \A c \in Clients : RequestConfirmed(c)
    /\ ConfirmedInv' <=> /\ \A p \in Pages, e \in Emails : RowConfirmed(p, e)'
                         /\ \A c \in Clients : RequestConfirmed(c)'
BY DEF ConfirmedInv, VerifiedIsConfirmed, ConfirmationsHold, RowConfirmed, RequestConfirmed,
       InFlight, SameRow

(* A new row is not confirmed, and no request in flight has read it. *)
LEMMA LoadConfirmed ==
    ASSUME TypeOK, TokensInv, ConfirmedInv, NEW c \in Clients, NEW p \in Pages, NEW e \in Emails,
           NEW f \in Phones \cup {None}, SubscribeLoad(c, p, e, f)
    PROVE  ConfirmedInv'
<1> DEFINE old == subs[p][e]
           new == Row(tokens + 1, f, IF f = None THEN 0 ELSE tokens + 2)
<1>1. new.id = tokens + 1 /\ ~new.emailOk /\ ~new.phoneOk /\ tokens \in Nat
  BY BoundsAssumption DEF Row, TypeOK
<1>2. /\ confirmed' = confirmed /\ late' = late
      /\ subs' = IF old = None THEN [subs EXCEPT ![p][e] = new] ELSE subs
  BY DEF SubscribeLoad
<1>3. \A d \in Clients : req'[d] = req[d] \/ ~InFlight(d, {"email", "phone"})'
  BY DEF SubscribeLoad, TypeOK, InFlight
<1> HIDE DEF new
<1>4. \A q \in Pages, g \in Emails :
         subs'[q][g] = IF q = p /\ g = e /\ old = None THEN new ELSE subs[q][g]
  BY <1>2 DEF TypeOK
<1>5. ASSUME NEW q \in Pages, NEW g \in Emails
      PROVE  RowConfirmed(q, g)'
  BY <1>1, <1>2, <1>4, ConfirmedParts DEF RowConfirmed
<1>6. ASSUME NEW d \in Clients
      PROVE  RequestConfirmed(d)'
  <2> SUFFICES ASSUME InFlight(d, {"email", "phone"})', SameRow(req[d])'
               PROVE  SameRow(req[d]) /\ req'[d] = req[d]
    BY <1>2, ConfirmedParts DEF RequestConfirmed, InFlight
  <2>1. /\ req'[d] = req[d] /\ req[d] # None
        /\ req[d].p \in Pages /\ req[d].e \in Emails
        /\ req[d].row \in Rows
    BY <1>3 DEF InFlight, TypeOK, Subscribing, Verifying
  <2>2. req[d].row.id <= tokens /\ req[d].row.id \in Nat
    BY <2>1 DEF TokensInv, RequestsHaveTokens, Rows
  <2>3. SameRow(req[d])
    BY <1>1, <1>4, <2>1, <2>2 DEF SameRow
  <2> QED  BY <2>1, <2>3
<1> QED  BY <1>5, <1>6, ConfirmedParts

(* Who presents a token got it at the address it confirms (TokensInForce). *)
LEMMA VerifyConfirmed ==
    ASSUME TypeOK, TokensInForce, ConfirmedInv, NEW c \in Clients, NEW p \in Pages,
           NEW e \in Emails, NEW msg \in sent, VerifyLoad(c, p, e, msg)
    PROVE  ConfirmedInv'
<1>1. /\ subs' = subs /\ late' = late /\ subs[p][e] # None
      /\ confirmed' = confirmed \cup {<<p, e, msg[1]>>}
  BY DEF VerifyLoad
<1>2. PICK op \in {"email", "phone"} :
         /\ msg[2] = IF op = "email" THEN subs[p][e].etok ELSE subs[p][e].ptok
         /\ req' = [req EXCEPT ![c] = [op |-> op, p |-> p, e |-> e, row |-> subs[p][e]]]
  BY DEF VerifyLoad
<1>3. msg[1] = IF op = "email" THEN e ELSE subs[p][e].phone
  BY <1>1, <1>2 DEF TokensInForce
<1>4. \A q \in Pages, g \in Emails : RowConfirmed(q, g)'
  BY <1>1, ConfirmedParts DEF RowConfirmed
<1>5. ASSUME NEW d \in Clients
      PROVE  RequestConfirmed(d)'
  <2>1. CASE d = c
    <3>1. /\ req'[d].op = op /\ req'[d].p = p /\ req'[d].e = e
          /\ req'[d].row = subs[p][e]
      BY <1>2, <2>1 DEF TypeOK
    <3> QED  BY <1>1, <1>3, <3>1 DEF RequestConfirmed, InFlight
  <2>2. CASE d # c
    <3>1. req'[d] = req[d]
      BY <1>2, <2>2 DEF TypeOK
    <3> QED  BY <1>1, <3>1, ConfirmedParts DEF RequestConfirmed, InFlight, SameRow
  <2> QED  BY <2>1, <2>2
<1> QED  BY <1>4, <1>5, ConfirmedParts

(* SubscribeSave writes a phone that is not confirmed; the confirmations write *)
(* what the token they read has proved, or the row is late.                    *)
LEMMA SaveConfirmed ==
    ASSUME TypeOK, TokensInv, ConfirmedInv, NEW c \in Clients,
           SubscribeSave(c) \/ VerifyEmailSave(c) \/ VerifyPhoneSave(c)
    PROVE  ConfirmedInv'
<1> DEFINE r == req[c]
<1>0. PICK p \in Pages, e \in Emails : r.p = p /\ r.e = e
  BY DEF SubscribeSave, VerifyEmailSave, VerifyPhoneSave, TypeOK, Subscribing, Verifying
<1> DEFINE row == subs[p][e]
<1>1. /\ r # None /\ r \in Subscribing \cup Verifying
      /\ r.p = p /\ r.e = e /\ r.row \in Rows
  BY <1>0 DEF SubscribeSave, VerifyEmailSave, VerifyPhoneSave, TypeOK, Subscribing, Verifying
<1>2. confirmed' = confirmed /\ req' = [req EXCEPT ![c] = None]
  BY DEF SubscribeSave, VerifyEmailSave, VerifyPhoneSave
<1>3. SameRow(r) => row \in Rows /\ row # None
  BY <1>1 DEF SameRow, TypeOK
<1> DEFINE writes == SameRow(r) /\ (r.op = "subscribe" => r.update)
<1>4. \/ ~writes /\ subs' = subs /\ late' = late
      \/ /\ writes
         /\ \A q \in Pages, g \in Emails : <<q, g>> # <<p, e>> =>
               subs'[q][g] = subs[q][g] /\ (<<q, g>> \in late' <=> <<q, g>> \in late)
  BY <1>1 DEF SubscribeSave, VerifyEmailSave, VerifyPhoneSave, TypeOK
<1>5. ASSUME writes
      PROVE  /\ RowConfirmed(p, e)'
             /\ subs'[p][e] # None /\ subs'[p][e].id = row.id
  <2>1. RowConfirmed(p, e) /\ RequestConfirmed(c)
    BY <1>1, ConfirmedParts
  <2>2. CASE SubscribeSave(c)
    <3>1. r.op = "subscribe" /\ r.update /\ subs'[p][e] = WithPhone(row, r.row)
      BY <1>1, <1>5, <2>2 DEF SubscribeSave, TypeOK
    <3>2. ~r.row.phoneOk
      BY <1>1, <3>1 DEF TokensInv, RequestsHaveTokens, InFlight
    <3>3. /\ subs'[p][e].id = row.id /\ subs'[p][e].emailOk = row.emailOk
          /\ ~subs'[p][e].phoneOk
      BY <1>1, <1>3, <1>5, <3>1, <3>2, RowFields
    <3>4. subs'[p][e] # None
      BY <1>1, <1>3, <1>5, <3>1, WithPhoneType, NoneAssumption
    <3> QED  BY <1>2, <1>3, <1>5, <2>1, <3>3, <3>4 DEF RowConfirmed
  <2>3. CASE VerifyEmailSave(c)
    <3>1. r.op = "email" /\ subs'[p][e] = EmailConfirmed(row) /\ late' = late
      BY <1>1, <1>5, <2>3 DEF VerifyEmailSave, TypeOK
    <3>2. <<p, e, e>> \in confirmed
      BY <1>1, <1>5, <2>1, <3>1 DEF RequestConfirmed, InFlight
    <3>3. /\ subs'[p][e].id = row.id /\ subs'[p][e].phoneOk = row.phoneOk
          /\ subs'[p][e].phone = row.phone
      BY <1>1, <1>3, <1>5, <3>1, RowFields
    <3>4. subs'[p][e] # None
      BY <1>1, <1>3, <1>5, <3>1, ConfirmedType, NoneAssumption
    <3> QED  BY <1>2, <1>3, <1>5, <2>1, <3>1, <3>2, <3>3, <3>4 DEF RowConfirmed
  <2>4. CASE VerifyPhoneSave(c)
    <3>1. /\ r.op = "phone" /\ subs'[p][e] = PhoneConfirmed(row)
          /\ late' = IF row.phone # r.row.phone THEN late \cup {<<p, e>>} ELSE late
      BY <1>1, <1>5, <2>4 DEF VerifyPhoneSave, TypeOK
    <3>2. <<p, e, r.row.phone>> \in confirmed
      BY <1>1, <1>5, <2>1, <3>1 DEF RequestConfirmed, InFlight
    <3>3. /\ subs'[p][e].id = row.id /\ subs'[p][e].emailOk = row.emailOk
          /\ subs'[p][e].phone = row.phone
      BY <1>1, <1>3, <1>5, <3>1, RowFields
    <3>4. subs'[p][e] # None
      BY <1>1, <1>3, <1>5, <3>1, ConfirmedType, NoneAssumption
    <3> QED  BY <1>2, <1>3, <1>5, <2>1, <3>1, <3>2, <3>3, <3>4 DEF RowConfirmed
  <2> QED  BY <2>2, <2>3, <2>4
<1> HIDE DEF writes, row, r
<1>6. ASSUME NEW q \in Pages, NEW g \in Emails
      PROVE  RowConfirmed(q, g)'
  <2>1. CASE writes /\ <<q, g>> = <<p, e>>
    BY <1>5, <2>1
  <2>2. CASE ~(writes /\ <<q, g>> = <<p, e>>)
    <3>1. subs'[q][g] = subs[q][g] /\ (<<q, g>> \in late' <=> <<q, g>> \in late)
      BY <1>4, <2>2
    <3> QED  BY <1>2, <3>1, ConfirmedParts DEF RowConfirmed
  <2> QED  BY <2>1, <2>2
<1>7. ASSUME NEW d \in Clients
      PROVE  RequestConfirmed(d)'
  <2> SUFFICES ASSUME InFlight(d, {"email", "phone"})', SameRow(req[d])'
               PROVE  req'[d] = req[d] /\ SameRow(req[d])
    BY <1>2, ConfirmedParts DEF RequestConfirmed, InFlight
  <2>1. /\ req'[d] = req[d] /\ req[d] # None
        /\ req[d].p \in Pages /\ req[d].e \in Emails
    BY <1>2 DEF InFlight, TypeOK, Subscribing, Verifying
  <2>2. CASE writes /\ <<req[d].p, req[d].e>> = <<p, e>>
    BY <1>3, <1>5, <2>1, <2>2 DEF SameRow, writes, row
  <2>3. CASE ~(writes /\ <<req[d].p, req[d].e>> = <<p, e>>)
    BY <1>4, <2>1, <2>3 DEF SameRow
  <2> QED  BY <2>1, <2>2, <2>3
<1> QED  BY <1>6, <1>7, ConfirmedParts

LEMMA ConfirmedStep ==
    ASSUME TypeOK, TokensInv, ConfirmedInv, [Next]_vars
    PROVE  ConfirmedInv'
<1>1. ASSUME NEW c \in Clients, Request(c)
      PROVE  ConfirmedInv'
  <2>1. CASE SubscribeSend(c)
    <3>1. subs' = subs /\ confirmed' = confirmed /\ late' = late
      BY <2>1 DEF SubscribeSend
    <3>2. \A d \in Clients : req'[d] = req[d] \/ ~InFlight(d, {"email", "phone"})'
      <4>1. req[c] \in Subscribing /\ req' = [req EXCEPT ![c] = [req[c] EXCEPT !.told = TRUE]]
        BY <2>1 DEF SubscribeSend, TypeOK, Verifying
      <4>2. [req[c] EXCEPT !.told = TRUE].op = "subscribe"
        BY <4>1 DEF Subscribing
      <4> QED  BY <4>1, <4>2 DEF TypeOK, InFlight
    <3> QED  BY <3>1, <3>2, ConfirmedParts DEF RowConfirmed, RequestConfirmed, InFlight, SameRow
  <2> QED  BY <1>1, <2>1, LoadConfirmed, VerifyConfirmed, SaveConfirmed, TokensFollow DEF Request
<1>2. ASSUME NEW p \in Pages, NEW e \in Emails, RemoveSubscriber(p, e)
      PROVE  ConfirmedInv'
  <2>1. /\ req' = req
        /\ \A q \in Pages, g \in Emails :
              subs'[q][g] = IF q = p /\ g = e THEN None ELSE subs[q][g]
    BY <1>2 DEF RemoveSubscriber, TypeOK
  <2>2. \A q \in Pages, g \in Emails, a \in Addresses \cup {None} : <<q, g>> # <<p, e>> =>
           /\ <<q, g, a>> \in confirmed' <=> <<q, g, a>> \in confirmed
           /\ <<q, g>> \in late' <=> <<q, g>> \in late
    BY <1>2 DEF RemoveSubscriber
  <2>3. \A q \in Pages, g \in Emails : RowConfirmed(q, g)'
    <3> SUFFICES ASSUME NEW q \in Pages, NEW g \in Emails, subs'[q][g] # None
                 PROVE  RowConfirmed(q, g)'
      BY DEF RowConfirmed
    <3>1. <<q, g>> # <<p, e>> /\ subs'[q][g] = subs[q][g] /\ subs[q][g] \in Rows
      BY <2>1 DEF TypeOK
    <3>2. g \in Addresses /\ subs[q][g].phone \in Addresses \cup {None}
      BY <3>1 DEF Addresses, Rows
    <3> QED  BY <2>2, <3>1, <3>2, ConfirmedParts DEF RowConfirmed
  <2>4. ASSUME NEW d \in Clients
        PROVE  RequestConfirmed(d)'
    <3> SUFFICES ASSUME InFlight(d, {"email", "phone"}), SameRow(req[d])'
                 PROVE  RequestConfirmed(d)'
      BY <2>1 DEF RequestConfirmed, InFlight
    <3>1. /\ req[d].p \in Pages /\ req[d].e \in Emails
          /\ req[d].row.phone \in Addresses \cup {None}
      BY DEF InFlight, TypeOK, Subscribing, Verifying, Rows, Addresses
    <3>2. <<req[d].p, req[d].e>> # <<p, e>> /\ SameRow(req[d]) /\ req[d].e \in Addresses
      BY <2>1, <3>1 DEF SameRow, Addresses
    <3> QED  BY <2>1, <2>2, <3>1, <3>2, ConfirmedParts DEF RequestConfirmed, InFlight
  <2> QED  BY <2>3, <2>4, ConfirmedParts
<1>3. CASE UNCHANGED rowVars
  BY <1>3, ConfirmedParts DEF rowVars, RowConfirmed, RequestConfirmed, InFlight, SameRow
<1> QED  BY <1>1, <1>2, <1>3, StepKinds

(* SubscriberService.verify_email and verify_phone: a confirmed address is one *)
(* whose holder presented a token sent there, or whose number was changed      *)
(* under a confirmation already running.                                       *)
THEOREM Confirmed == Spec => []VerifiedIsConfirmed
<1>1. Init => ConfirmedInv
  BY DEF Init, ConfirmedInv, VerifiedIsConfirmed, ConfirmationsHold, InFlight
<1>2. Init => TypeOK /\ TokensInv
  BY TypeInit, TokensInit
<1>3. TypeOK /\ TokensInv /\ ConfirmedInv /\ [Next]_vars => TypeOK' /\ TokensInv' /\ ConfirmedInv'
  BY TypeStep, TokensStep, ConfirmedStep
<1>4. ConfirmedInv => VerifiedIsConfirmed
  BY DEF ConfirmedInv
<1> QED  BY <1>1, <1>2, <1>3, <1>4, PTL DEF Spec
=============================================================================
