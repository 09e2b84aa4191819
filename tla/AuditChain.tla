----------------------------- MODULE AuditChain -----------------------------
(***************************************************************************)
(* The audit log of one tenant: AuditService.record appends a record that   *)
(* carries the hash of the record before it, from any number of requests    *)
(* and jobs at once, each in its own database transaction; verify_chain     *)
(* walks the committed records and reports the broken links.                *)
(*                                                                          *)
(* The database (PostgreSQL, READ COMMITTED) is external: a statement sees  *)
(* the committed records and those of its own transaction; SELECT ... FOR   *)
(* UPDATE first reads, then waits for the row lock, and returns the row it  *)
(* has read, because an audit record is never updated; ids come from a      *)
(* sequence and are consumed by failed inserts too.                         *)
(*                                                                          *)
(* SHA-256 is taken to be injective: the hash of a payload that contains    *)
(* prev_hash is the sequence of contents that leads to it, and the 64       *)
(* zeros before the first record are the empty sequence.                    *)
(***************************************************************************)
EXTENDS Integers, Sequences, FiniteSets, FiniteSetsExt

CONSTANTS
    Writers,       \* request and job workers, one transaction each at a time
    Contents,      \* what record is given: actor, action, resource, old, new
    MaxRecords,    \* bound on the ids the sequence hands out
    None           \* no record under this id

Ids == 1 .. MaxRecords
Genesis == <<>>    \* "0" * 64
NoRecord == 0      \* .first() found no record of the tenant
Hashes == Seq(Contents)
Records == [content : Contents, prev_hash : Hashes, record_hash : Hashes]

ASSUME WritersAssumption == IsFiniteSet(Writers) /\ Writers # {}
ASSUME BoundAssumption == MaxRecords \in Nat
ASSUME NoneAssumption == None \notin Records

VARIABLES
    rows,          \* AuditLog by id, uncommitted ones included
    nextId,        \* the sequence of the BigAutoField
    committed,     \* ids every transaction sees
    own,           \* ids a transaction has inserted and not yet committed
    locks,         \* row locks a transaction holds
    prev,          \* the record it has selected as the last one
    pc             \* idle (no transaction), open, waiting (for the lock), selected

vars == <<rows, nextId, committed, own, locks, prev, pc>>

(***************************************************************************)
(* AuditService.                                                            *)
(***************************************************************************)

Visible(w) == committed \cup own[w]

\* Faulty: order_by("id"), the same query without the minus sign.
FirstOf(S) == IF S = {} THEN NoRecord ELSE Min(S)

LastOf(S) == IF S = {} THEN NoRecord ELSE Max(S)

\* Faulty: the hash is computed again, from the record's own content alone.
HashOfContent(id) == IF id = NoRecord THEN Genesis ELSE <<rows[id].content>>

HashOf(id) == IF id = NoRecord THEN Genesis ELSE rows[id].record_hash

\* Faulty: prev_hash left out of the payload.
HashContentOnly(content, prev_hash) == <<content>>

\* sha256 of the payload and prev_hash.
Hash(content, prev_hash) == Append(prev_hash, content)

InRecord(w) == pc[w] \in {"waiting", "selected"}

\* The bound: every record begun finds an id.
RoomForRecord ==
    nextId + Cardinality({w \in Writers : InRecord(w)}) <= MaxRecords

\* with transaction.atomic(), ...order_by("-id").select_for_update().first():
\* the read.  A transaction is opened, or a savepoint in the one that is open.
SelectLast(w) ==
    /\ pc[w] \in {"idle", "open"}
    /\ RoomForRecord
    /\ LET last == LastOf(Visible(w))
       IN /\ prev' = [prev EXCEPT ![w] = last]
          /\ pc' = [pc EXCEPT ![w] = IF last = NoRecord THEN "selected" ELSE "waiting"]
    /\ UNCHANGED <<rows, nextId, committed, own, locks>>

\* The lock of the record read, when no other transaction holds it.
GetLock(w) ==
    /\ pc[w] = "waiting"
    /\ \A v \in Writers \ {w} : prev[w] \notin locks[v]
    /\ locks' = [locks EXCEPT ![w] = @ \cup {prev[w]}]
    /\ pc' = [pc EXCEPT ![w] = "selected"]
    /\ UNCHANGED <<rows, nextId, committed, own, prev>>

\* The rest of record: hash and insert.
Insert(w, content) ==
    /\ pc[w] = "selected"
    /\ LET prev_hash == HashOf(prev[w])
       IN rows' = [rows EXCEPT ![nextId] =
                     [content |-> content,
                      prev_hash |-> prev_hash,
                      record_hash |-> Hash(content, prev_hash)]]
    /\ nextId' = nextId + 1
    /\ own' = [own EXCEPT ![w] = @ \cup {nextId}]
    /\ pc' = [pc EXCEPT ![w] = "open"]
    /\ UNCHANGED <<committed, locks, prev>>

\* record raises, before or after it has drawn an id: its savepoint is rolled
\* back with the lock it took, _record swallows the exception, the caller goes on.
Fail(w) ==
    /\ InRecord(w)
    /\ nextId' \in {nextId} \cup (IF pc[w] = "selected" THEN {nextId + 1} ELSE {})
    /\ locks' = [locks EXCEPT ![w] = @ \ {prev[w]}]
    /\ pc' = [pc EXCEPT ![w] = "open"]
    /\ UNCHANGED <<rows, committed, own, prev>>

EndTransaction(w) ==
    /\ pc[w] = "open"
    /\ own' = [own EXCEPT ![w] = {}]
    /\ locks' = [locks EXCEPT ![w] = {}]
    /\ pc' = [pc EXCEPT ![w] = "idle"]
    /\ UNCHANGED <<nextId, prev>>

Commit(w) ==
    /\ EndTransaction(w)
    /\ committed' = committed \cup own[w]
    /\ UNCHANGED rows

\* The caller's transaction fails, or its worker dies.
Rollback(w) ==
    /\ EndTransaction(w)
    /\ rows' = [id \in Ids |-> IF id \in own[w] THEN None ELSE rows[id]]
    /\ UNCHANGED committed

(***************************************************************************)
(* verify_chain, over the records S in the order of their ids.              *)
(***************************************************************************)

\* Faulty: the first record checked is trusted to name its predecessor.
PrevHashTrusting(log, S, id) ==
    LET before == {i \in S : i < id}
    IN IF before = {} THEN log[id].prev_hash ELSE log[Max(before)].record_hash

PrevHash(log, S, id) ==
    LET before == {i \in S : i < id}
    IN IF before = {} THEN Genesis ELSE log[Max(before)].record_hash

PrevMismatch(log, S) ==
    {id \in S : log[id].prev_hash # PrevHash(log, S, id)}

RecordMismatch(log, S) ==
    {id \in S : log[id].record_hash # Hash(log[id].content, PrevHash(log, S, id))}

\* Faulty: only the links are compared, not the contents.
BrokenLinks(log, S) == PrevMismatch(log, S)

\* The ids of verify_chain's "broken" list.
Broken(log, S) == PrevMismatch(log, S) \cup RecordMismatch(log, S)

\* The records verify_chain(since) reads; created_at grows with the ids.
Since(S, first) == {id \in S : id >= first}

(***************************************************************************)
(* Specification.                                                           *)
(***************************************************************************)

Init ==
    /\ rows = [id \in Ids |-> None]
    /\ nextId = 1
    /\ committed = {}
    /\ own = [w \in Writers |-> {}]
    /\ locks = [w \in Writers |-> {}]
    /\ prev = [w \in Writers |-> NoRecord]
    /\ pc = [w \in Writers |-> "idle"]

Next ==
    \E w \in Writers :
        \/ SelectLast(w)
        \/ GetLock(w)
        \/ \E content \in Contents : Insert(w, content)
        \/ Fail(w)
        \/ Commit(w)
        \/ Rollback(w)

Spec == Init /\ [][Next]_vars

(***************************************************************************)
(* Properties.                                                              *)
(***************************************************************************)

\* The type invariant.
TypeOK ==
    /\ rows \in [Ids -> Records \cup {None}]
    /\ nextId \in 1 .. MaxRecords + 1
    /\ committed \in SUBSET Ids
    /\ own \in [Writers -> SUBSET Ids]
    /\ locks \in [Writers -> SUBSET Ids]
    /\ prev \in [Writers -> Ids \cup {NoRecord}]
    /\ pc \in [Writers -> {"idle", "open", "waiting", "selected"}]

\* No circular wait: a transaction that records several changes keeps the locks
\* of the earlier ones (record, select_for_update), and yet a writer that waits
\* for one that is itself waiting waits for an older record than that one does.
WaitsAreOrdered ==
    \A w, v \in Writers :
        /\ w # v
        /\ pc[w] = "waiting" /\ pc[v] = "waiting"
        /\ prev[w] \in locks[v]
        => prev[w] < prev[v]

\* A committed record follows the first record's zeros or a record that is
\* committed as well and has a smaller id: no rollback or failed savepoint
\* leaves a record whose prev_hash no record of the log has.
ChainIsRooted ==
    \A id \in committed :
        \/ rows[id].prev_hash = Genesis
        \/ \E before \in committed :
            /\ before < id
            /\ rows[before].record_hash = rows[id].prev_hash

\* What verify_chain reports on a log nobody has tampered with is a fork: two
\* records made from the same predecessor.  Without a fork it reports nothing.
BreaksAreForks ==
    Broken(rows, committed) # {}
    <=> \E i, j \in committed : i # j /\ rows[i].prev_hash = rows[j].prev_hash

\* verify_chain reports a record whose content was changed, whatever else it
\* reports, and in a log it finds valid the absence of any record but the last.
TamperIsSeen ==
    /\ \A id \in committed, c \in Contents :
        c # rows[id].content
        => id \in Broken([rows EXCEPT ![id].content = c], committed)
    /\ Broken(rows, committed) = {} =>
        \A id \in committed \ {LastOf(committed)} :
            Broken(rows, committed \ {id}) # {}

\* Verification from a date reports what verification of the whole log reports of
\* the records after the first, and the first one always (unless it starts the
\* log), for it is compared with 64 zeros: a valid log verified from a date is
\* never found valid (verify_chain, since).
SinceBlamesFirst ==
    \A first \in committed :
        LET later == Since(committed, first)
        IN /\ Broken(rows, later) \ {first} = (Broken(rows, committed) \cap later) \ {first}
           /\ first \in Broken(rows, later) <=> rows[first].prev_hash # Genesis

\* "Uses SELECT FOR UPDATE on the last record to ensure sequential hashing."
\* (src/apps/audit/services.py:76): the log record builds is a chain.
SequentialHashing == Broken(rows, committed) = {}
=============================================================================
