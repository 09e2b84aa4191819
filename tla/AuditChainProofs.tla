-------------------------- MODULE AuditChainProofs --------------------------
(***************************************************************************)
(* Proofs about AuditChain, for any finite set of writers, any contents and *)
(* any number of records.                                                   *)
(***************************************************************************)
EXTENDS AuditChain, FiniteSetTheorems, TLAPS

(***************************************************************************)
(* The inductive invariant.                                                 *)
(***************************************************************************)

InRecords == {w \in Writers : InRecord(w)}

(* The sequence has an id for every record begun. *)
Room == nextId + Cardinality(InRecords) <= MaxRecords + 1

(* A transaction's records are its own until it commits. *)
OwnIsPrivate ==
    /\ \A w \in Writers : own[w] \cap committed = {}
    /\ \A w, v \in Writers : w # v => own[w] \cap own[v] = {}
    /\ \A w \in Writers : pc[w] = "idle" => own[w] = {} /\ locks[w] = {}

(* A record in the log has drawn its id and carries the hash of its content. *)
Sound(id) ==
    /\ id < nextId
    /\ rows[id] \in Records
    /\ rows[id].record_hash = Hash(rows[id].content, rows[id].prev_hash)

RecordsAreSound == \A w \in Writers : \A id \in Visible(w) : Sound(id)

(* Among the records S, record id follows an older one or none. *)
Follows(id, S) ==
    \/ rows[id].prev_hash = Genesis
    \/ \E before \in S : before < id /\ rows[before].record_hash = rows[id].prev_hash

OwnIsRooted == \A w \in Writers : \A id \in own[w] : Follows(id, Visible(w))

(* What record has selected stays in sight of its transaction. *)
SelectedIsVisible ==
    \A w \in Writers :
        /\ InRecord(w) => prev[w] = NoRecord \/ prev[w] \in Visible(w)
        /\ pc[w] = "waiting" => prev[w] # NoRecord /\ \A id \in own[w] : id <= prev[w]

(* The locks of earlier records are on rows older than the transaction's own. *)
LocksAreOld ==
    \A w \in Writers : \A id \in locks[w] :
        \/ pc[w] = "selected" /\ id = prev[w]
        \/ \E mine \in own[w] : id < mine

IInv ==
    /\ TypeOK
    /\ Room
    /\ OwnIsPrivate
    /\ RecordsAreSound
    /\ ChainIsRooted
    /\ OwnIsRooted
    /\ SelectedIsVisible
    /\ LocksAreOld

(***************************************************************************)
(* Finite sets of numbers.                                                  *)
(***************************************************************************)

(* A set of numbers below a bound has a greatest element: among the sets of  *)
(* its elements above x, one is smallest.                                    *)
LEMMA GreatestExists ==
    ASSUME NEW n \in Nat, NEW S \in SUBSET (1 .. n), S # {}
    PROVE  \E x \in S : \A y \in S : x >= y
<1> DEFINE Above(x) == {y \in S : y > x}
           Family == {Above(x) : x \in S}
<1>1. IsFiniteSet(S)
  <2>1. IsFiniteSet(1 .. n)
    BY FS_Interval
  <2> QED  BY <2>1, FS_Subset
<1>2. IsWellFoundedOn(StrictSubsetOrdering(S), FiniteSubsetsOf(S))
  BY FS_StrictSubsetOrderingWellFounded
<1>3. \A x \in S : Above(x) \in SUBSET S
  OBVIOUS
<1>4. \A x \in S : Above(x) \in FiniteSubsetsOf(S)
  BY <1>1, <1>3, FS_Subset DEF FiniteSubsetsOf
<1>5. Family \subseteq FiniteSubsetsOf(S) /\ Family # {}
  BY <1>4
<1>6. PICK A \in Family : \A B \in Family : ~ (<<B, A>> \in StrictSubsetOrdering(S))
  <2> HIDE DEF Family
  <2> QED  BY <1>2, <1>5, WFMin
<1>7. PICK x \in S : A = Above(x)
  BY <1>6
<1>8. ASSUME NEW y \in S, y > x
      PROVE  FALSE
  <2>1. Above(y) \in Family
    OBVIOUS
  <2>2. Above(y) \subseteq Above(x)
    <3>1. \A z \in S : z > y => z > x
      <4>1. \A z \in S : z \in Int
        OBVIOUS
      <4> QED  BY <4>1, <1>8
    <3> QED  BY <3>1
  <2>4. y \in Above(x) /\ y \notin Above(y)
    BY <1>8
  <2>3. <<Above(y), Above(x)>> \in StrictSubsetOrdering(S)
    BY <2>2, <2>4, <1>3 DEF StrictSubsetOrdering
  <2> QED  BY <2>1, <2>3, <1>6, <1>7
<1> QED  BY <1>8

(* What the query of the last record returns. *)
LEMMA MaxIsGreatest ==
    ASSUME NEW n \in Nat, NEW S \in SUBSET (1 .. n), S # {}
    PROVE  Max(S) \in S /\ \A y \in S : y <= Max(S)
<1>1. PICK x \in S : \A y \in S : x >= y
  BY GreatestExists
<1>2. Max(S) \in S /\ \A y \in S : Max(S) >= y
  BY <1>1 DEF Max
<1> QED  BY <1>2

LEMMA LastIsVisible ==
    ASSUME TypeOK, NEW w \in Writers
    PROVE  LET last == LastOf(Visible(w))
           IN \/ last = NoRecord /\ Visible(w) = {}
              \/ /\ last \in Visible(w) /\ last \in Ids /\ last # NoRecord
                 /\ \A id \in Visible(w) : id <= last
<1>1. Visible(w) \in SUBSET (1 .. MaxRecords)
  BY DEF TypeOK, Visible, Ids
<1>2. CASE Visible(w) = {}
  BY <1>2 DEF LastOf
<1>3. CASE Visible(w) # {}
  <2>1. Max(Visible(w)) \in Visible(w) /\ \A id \in Visible(w) : id <= Max(Visible(w))
    BY <1>1, <1>3, BoundAssumption, MaxIsGreatest
  <2> QED  BY <1>1, <1>3, <2>1 DEF LastOf, Ids, NoRecord
<1> QED  BY <1>2, <1>3

(***************************************************************************)
(* The bound on the ids.                                                    *)
(***************************************************************************)

LEMMA InRecordsFinite == IsFiniteSet(InRecords) /\ Cardinality(InRecords) \in Nat
<1>1. InRecords \in SUBSET Writers
  BY DEF InRecords
<1>2. IsFiniteSet(InRecords)
  BY <1>1, WritersAssumption, FS_Subset
<1> QED  BY <1>2, FS_CardinalityType

(* A writer that leaves record gives its id back or has used it. *)
LEMMA LeavingRecord ==
    ASSUME TypeOK, Room, NEW w \in Writers, InRecord(w),
           pc' = [pc EXCEPT ![w] = "open"], nextId' \in {nextId, nextId + 1}
    PROVE  Room' /\ nextId \in Ids /\ nextId' \in 1 .. MaxRecords + 1
<1>1. InRecords' = InRecords \ {w}
  BY DEF InRecords, InRecord, TypeOK
<1>2. w \in InRecords
  BY DEF InRecords
<1>3. Cardinality(InRecords') = Cardinality(InRecords) - 1
  BY <1>1, <1>2, InRecordsFinite, FS_RemoveElement
<1>4. Cardinality(InRecords') \in Nat
  <2>1. IsFiniteSet(InRecords')
    BY <1>1, InRecordsFinite, FS_RemoveElement
  <2> QED  BY <2>1, FS_CardinalityType
<1> QED  BY <1>3, <1>4, InRecordsFinite, BoundAssumption DEF Room, TypeOK, Ids

LEMMA RoomKept ==
    ASSUME TypeOK, Room, InRecords' = InRecords, nextId' = nextId
    PROVE  Room'
BY DEF Room

LEMMA EnteringRecord ==
    ASSUME TypeOK, NEW w \in Writers, SelectLast(w)
    PROVE  Room'
<1>1. InRecords' = InRecords \cup {w} /\ w \notin InRecords
  BY DEF InRecords, InRecord, SelectLast, TypeOK
<1>2. Cardinality(InRecords') = Cardinality(InRecords) + 1
  BY <1>1, InRecordsFinite, FS_AddElement
<1>3. nextId + Cardinality(InRecords) <= MaxRecords /\ nextId' = nextId
  BY DEF SelectLast, RoomForRecord, InRecords
<1> QED  BY <1>2, <1>3, InRecordsFinite, BoundAssumption DEF Room, TypeOK

(***************************************************************************)
(* The steps of record.                                                     *)
(***************************************************************************)

LEMMA SelectLastStep ==
    ASSUME IInv, NEW w \in Writers, SelectLast(w)
    PROVE  IInv'
<1> USE DEF IInv, SelectLast
<1> DEFINE last == LastOf(Visible(w))
<1>1. \/ last = NoRecord /\ Visible(w) = {}
      \/ /\ last \in Visible(w) /\ last \in Ids /\ last # NoRecord
         /\ \A id \in Visible(w) : id <= last
  BY LastIsVisible
<1>2. prev' = [prev EXCEPT ![w] = last]
  OBVIOUS
<1>3. pc' = [pc EXCEPT ![w] = IF last = NoRecord THEN "selected" ELSE "waiting"]
  OBVIOUS
<1> HIDE DEF last
<1>4. TypeOK'
  BY <1>1, <1>2, <1>3 DEF TypeOK
<1>5. Room'
  BY EnteringRecord
<1>6. OwnIsPrivate'
  BY <1>3 DEF OwnIsPrivate, TypeOK
<1>7. RecordsAreSound' /\ ChainIsRooted' /\ OwnIsRooted'
  BY DEF RecordsAreSound, Sound, Visible, ChainIsRooted, OwnIsRooted, Follows
<1>8. SelectedIsVisible'
  <2> SUFFICES ASSUME NEW v \in Writers
               PROVE  /\ InRecord(v)' => prev'[v] = NoRecord \/ prev'[v] \in Visible(v)'
                      /\ pc'[v] = "waiting" =>
                           prev'[v] # NoRecord /\ \A id \in own'[v] : id <= prev'[v]
    BY DEF SelectedIsVisible
  <2>1. Visible(v)' = Visible(v) /\ own' = own
    BY DEF Visible
  <2>2. CASE v = w
    <3>1. prev'[v] = last /\ (pc'[v] = "waiting" => last # NoRecord)
      BY <1>2, <1>3, <2>2 DEF TypeOK
    <3>2. own[v] \subseteq Visible(v)
      BY DEF Visible
    <3> QED  BY <1>1, <2>1, <2>2, <3>1, <3>2
  <2>3. CASE v # w
    <3>1. prev'[v] = prev[v] /\ pc'[v] = pc[v]
      BY <1>2, <1>3, <2>3 DEF TypeOK
    <3> QED  BY <2>1, <3>1 DEF SelectedIsVisible, InRecord
  <2> QED  BY <2>2, <2>3
<1>9. LocksAreOld'
  BY <1>2, <1>3 DEF LocksAreOld, TypeOK
<1> QED  BY <1>4, <1>5, <1>6, <1>7, <1>8, <1>9

LEMMA GetLockStep ==
    ASSUME IInv, NEW w \in Writers, GetLock(w)
    PROVE  IInv'
<1> USE DEF IInv, GetLock
<1>1. prev[w] \in Ids
  BY DEF SelectedIsVisible, TypeOK
<1>2. TypeOK'
  BY <1>1 DEF TypeOK
<1>3. Room'
  <2>1. InRecords' = InRecords
    BY DEF InRecords, InRecord, TypeOK
  <2> QED  BY <2>1, RoomKept
<1>4. OwnIsPrivate'
  BY DEF OwnIsPrivate, TypeOK
<1>5. RecordsAreSound' /\ ChainIsRooted' /\ OwnIsRooted'
  BY DEF RecordsAreSound, Sound, Visible, ChainIsRooted, OwnIsRooted, Follows
<1>6. SelectedIsVisible'
  BY DEF SelectedIsVisible, InRecord, Visible, TypeOK
<1>7. LocksAreOld'
  BY DEF LocksAreOld, TypeOK
<1> QED  BY <1>2, <1>3, <1>4, <1>5, <1>6, <1>7

LEMMA FailStep ==
    ASSUME IInv, NEW w \in Writers, Fail(w)
    PROVE  IInv'
<1> USE DEF IInv, Fail
<1>1. nextId' \in {nextId, nextId + 1}
  OBVIOUS
<1>2. Room' /\ nextId' \in 1 .. MaxRecords + 1
  BY <1>1, LeavingRecord
<1>3. TypeOK'
  BY <1>2 DEF TypeOK
<1>4. OwnIsPrivate'
  BY DEF OwnIsPrivate, TypeOK
<1>5. RecordsAreSound'
  <2>1. \A id \in Ids : id < nextId => id < nextId'
    BY <1>1 DEF TypeOK, Ids
  <2>2. \A v \in Writers : Visible(v) \subseteq Ids
    BY DEF Visible, TypeOK
  <2> QED  BY <2>1, <2>2 DEF RecordsAreSound, Sound, Visible
<1>6. ChainIsRooted' /\ OwnIsRooted'
  BY DEF Visible, ChainIsRooted, OwnIsRooted, Follows
<1>7. SelectedIsVisible'
  BY DEF SelectedIsVisible, InRecord, Visible, TypeOK
<1>8. LocksAreOld'
  BY DEF LocksAreOld, TypeOK, InRecord
<1> QED  BY <1>2, <1>3, <1>4, <1>5, <1>6, <1>7, <1>8

LEMMA InsertStep ==
    ASSUME IInv, NEW w \in Writers, NEW content \in Contents, Insert(w, content)
    PROVE  IInv'
<1> USE DEF IInv
<1> DEFINE last == HashOf(prev[w])
           record == [content |-> content, prev_hash |-> last,
                      record_hash |-> Hash(content, last)]
<1>1. /\ pc[w] = "selected"
      /\ rows' = [rows EXCEPT ![nextId] = record]
      /\ nextId' = nextId + 1
      /\ own' = [own EXCEPT ![w] = @ \cup {nextId}]
      /\ pc' = [pc EXCEPT ![w] = "open"]
      /\ UNCHANGED <<committed, locks, prev>>
  BY DEF Insert
<1>2. InRecord(w)
  BY <1>1 DEF InRecord
<1>3. Room' /\ nextId \in Ids /\ nextId' \in 1 .. MaxRecords + 1
  BY <1>1, <1>2, LeavingRecord
<1>4. \/ prev[w] = NoRecord /\ last = Genesis
      \/ /\ prev[w] \in Visible(w) /\ prev[w] \in Ids /\ Sound(prev[w])
         /\ last = rows[prev[w]].record_hash
  <2>1. prev[w] = NoRecord \/ prev[w] \in Visible(w)
    BY <1>2 DEF SelectedIsVisible
  <2>2. Visible(w) \subseteq Ids
    BY DEF Visible, TypeOK
  <2>3. NoRecord \notin Ids
    BY DEF NoRecord, Ids
  <2> QED  BY <2>1, <2>2, <2>3 DEF HashOf, RecordsAreSound
<1>5. last \in Hashes
  <2>1. Genesis \in Hashes
    BY DEF Genesis, Hashes
  <2> QED  BY <1>4, <2>1 DEF Sound, Records
<1>6. record \in Records /\ record.record_hash = Hash(record.content, record.prev_hash)
  <2>1. Hash(content, last) \in Hashes
    BY <1>5 DEF Hash, Hashes
  <2> HIDE DEF last
  <2> QED  BY <1>5, <2>1 DEF Records
<1> HIDE DEF record, last
<1>0. PICK new \in Ids : new = nextId
  BY <1>3
<1>7. \A v \in Writers : Visible(v) \subseteq Ids /\ \A id \in Visible(v) : id < nextId
  BY DEF Visible, TypeOK, RecordsAreSound, Sound
<1>8. \A id \in Ids : id # nextId => rows'[id] = rows[id]
  BY <1>1 DEF TypeOK
<1>9. rows'[new] = record
  BY <1>0, <1>1, <1>3 DEF TypeOK
<1>10. /\ \A v \in Writers \ {w} : own'[v] = own[v] /\ Visible(v)' = Visible(v)
       /\ own'[w] = own[w] \cup {new}
       /\ Visible(w)' = Visible(w) \cup {new}
  BY <1>0, <1>1 DEF Visible, TypeOK
<1>11. TypeOK'
  BY <1>1, <1>3, <1>6 DEF TypeOK
<1>12. OwnIsPrivate'
  <2>1. \A v \in Writers : new \notin Visible(v)
    BY <1>0, <1>7, <1>3 DEF Ids
  <2> QED  BY <1>1, <1>10, <2>1 DEF OwnIsPrivate, Visible, TypeOK
<1>13. RecordsAreSound'
  <2>1. ASSUME NEW v \in Writers, NEW id \in Visible(v)
        PROVE  Sound(id)'
    <3>1. id \in Ids /\ id < nextId /\ Sound(id)
      BY <1>7 DEF RecordsAreSound
    <3>2. id # nextId /\ id < nextId'
      BY <3>1, <1>1, <1>3 DEF Ids
    <3>3. rows'[id] = rows[id]
      BY <3>1, <3>2, <1>8
    <3> QED  BY <3>1, <3>2, <3>3 DEF Sound, Hash
  <2>2. Sound(new)'
    <3>1. new < nextId'
      BY <1>0, <1>1, <1>3 DEF Ids
    <3> QED  BY <3>1, <1>1, <1>6, <1>9 DEF Sound, Hash
  <2> QED  BY <2>1, <2>2, <1>10 DEF RecordsAreSound
<1>14. ChainIsRooted'
  <2>1. committed' = committed /\ \A id \in committed : rows'[id] = rows[id]
    <3>1. committed \subseteq Ids /\ \A id \in committed : id < nextId
      BY <1>7 DEF Visible
    <3> QED  BY <1>1, <1>3, <1>8, <3>1 DEF Ids
  <2> QED  BY <2>1 DEF ChainIsRooted
<1>15. OwnIsRooted'
  <2>1. \A v \in Writers : \A id \in Visible(v) : rows'[id] = rows[id]
    BY <1>7, <1>3, <1>8 DEF Ids
  <2>2. ASSUME NEW v \in Writers, NEW id \in own[v]
        PROVE  Follows(id, Visible(v))'
    <3>1. Follows(id, Visible(v)) /\ id \in Visible(v)
      BY DEF OwnIsRooted, Visible
    <3>2. Visible(v) \subseteq Visible(v)'
      BY <1>10
    <3> QED  BY <3>1, <3>2, <2>1 DEF Follows, Genesis
  <2>3. Follows(new, Visible(w))'
    <3>1. rows'[new].prev_hash = last
      BY <1>9 DEF record
    <3>2. CASE last = Genesis
      BY <3>1, <3>2 DEF Follows
    <3>3. CASE /\ prev[w] \in Visible(w) /\ prev[w] \in Ids
               /\ last = rows[prev[w]].record_hash
      <4>1. /\ prev[w] \in Visible(w)' /\ prev[w] < new
            /\ rows'[prev[w]].record_hash = rows'[new].prev_hash
        BY <1>0, <3>1, <3>3, <1>7, <1>10, <2>1
      <4> QED  BY <4>1 DEF Follows
    <3> QED  BY <1>4, <3>2, <3>3
  <2> QED  BY <2>2, <2>3, <1>10 DEF OwnIsRooted
<1>16. SelectedIsVisible'
  BY <1>1, <1>10 DEF SelectedIsVisible, InRecord, TypeOK
<1>17. LocksAreOld'
  <2>1. ASSUME NEW id \in locks[w]
        PROVE  \E mine \in own'[w] : id < mine
    <3>1. CASE id = prev[w]
      <4>1. id \in Ids
        BY DEF TypeOK
      <4>2. prev[w] \in Visible(w)
        BY <1>4, <3>1, <4>1 DEF NoRecord, Ids
      <4> QED  BY <1>0, <3>1, <4>2, <1>7, <1>10
    <3> QED  BY <3>1, <1>10 DEF LocksAreOld
  <2> QED  BY <2>1, <1>1, <1>10 DEF LocksAreOld, TypeOK
<1> QED  BY <1>3, <1>11, <1>12, <1>13, <1>14, <1>15, <1>16, <1>17

(***************************************************************************)
(* The end of a transaction.                                                *)
(***************************************************************************)

(* What both ends of a transaction keep. *)
LEMMA EndTransactionStep ==
    ASSUME IInv, NEW w \in Writers, EndTransaction(w)
    PROVE  /\ Room'
           /\ own' \in [Writers -> SUBSET Ids] /\ locks' \in [Writers -> SUBSET Ids]
           /\ pc' \in [Writers -> {"idle", "open", "waiting", "selected"}]
           /\ LocksAreOld'
<1> USE DEF IInv, EndTransaction
<1>1. InRecords' = InRecords
  BY DEF InRecords, InRecord, TypeOK
<1>2. LocksAreOld'
  BY DEF LocksAreOld, TypeOK
<1> QED  BY <1>1, <1>2, RoomKept DEF TypeOK

LEMMA CommitStep ==
    ASSUME IInv, NEW w \in Writers, Commit(w)
    PROVE  IInv'
<1> USE DEF IInv
<1>1. /\ EndTransaction(w)
      /\ pc[w] = "open" /\ pc' = [pc EXCEPT ![w] = "idle"]
      /\ own' = [own EXCEPT ![w] = {}] /\ locks' = [locks EXCEPT ![w] = {}]
      /\ committed' = committed \cup own[w]
      /\ UNCHANGED <<rows, nextId, prev>>
  BY DEF Commit, EndTransaction
<1>2. Room' /\ LocksAreOld'
  BY <1>1, EndTransactionStep
<1>3. TypeOK'
  BY <1>1, EndTransactionStep DEF TypeOK
<1>4. OwnIsPrivate'
  BY <1>1 DEF OwnIsPrivate, TypeOK
<1>5. /\ Visible(w)' = Visible(w)
      /\ \A v \in Writers : Visible(v)' = Visible(v) \cup (IF v = w THEN {} ELSE own[w])
      /\ \A v \in Writers : Visible(v)' \subseteq Visible(v) \cup Visible(w)
  BY <1>1 DEF Visible, TypeOK
<1>6. RecordsAreSound'
  BY <1>1, <1>5 DEF RecordsAreSound, Sound, Hash
<1>7. ChainIsRooted'
  <2>1. \A id \in committed' : Follows(id, committed')
    BY <1>1 DEF ChainIsRooted, OwnIsRooted, Follows, Visible
  <2> QED  BY <2>1, <1>1 DEF ChainIsRooted, Follows, Genesis
<1>8. OwnIsRooted'
  <2>1. \A v \in Writers : Visible(v) \subseteq Visible(v)'
    BY <1>5
  <2>2. \A v \in Writers : own'[v] \subseteq own[v]
    BY <1>1 DEF TypeOK
  <2> QED  BY <2>1, <2>2, <1>1 DEF OwnIsRooted, Follows, Genesis
<1>9. SelectedIsVisible'
  BY <1>1, <1>5 DEF SelectedIsVisible, InRecord, TypeOK, Visible
<1> QED  BY <1>2, <1>3, <1>4, <1>6, <1>7, <1>8, <1>9

LEMMA RollbackStep ==
    ASSUME IInv, NEW w \in Writers, Rollback(w)
    PROVE  IInv'
<1> USE DEF IInv
<1>1. /\ EndTransaction(w)
      /\ pc[w] = "open" /\ pc' = [pc EXCEPT ![w] = "idle"]
      /\ own' = [own EXCEPT ![w] = {}] /\ locks' = [locks EXCEPT ![w] = {}]
      /\ rows' = [id \in Ids |-> IF id \in own[w] THEN None ELSE rows[id]]
      /\ UNCHANGED <<committed, nextId, prev>>
  BY DEF Rollback, EndTransaction
<1>2. Room' /\ LocksAreOld'
  BY <1>1, EndTransactionStep
<1>3. TypeOK'
  BY <1>1, EndTransactionStep DEF TypeOK
<1>4. OwnIsPrivate'
  BY <1>1 DEF OwnIsPrivate, TypeOK
<1>5. /\ Visible(w)' = committed
      /\ \A v \in Writers \ {w} : Visible(v)' = Visible(v)
      /\ \A v \in Writers : Visible(v)' \subseteq Visible(v)
  BY <1>1 DEF Visible, TypeOK
<1>6. \A v \in Writers : \A id \in Visible(v)' : rows'[id] = rows[id]
  BY <1>1, <1>5 DEF OwnIsPrivate, Visible, TypeOK
<1>7. RecordsAreSound'
  BY <1>1, <1>5, <1>6 DEF RecordsAreSound, Sound, Hash
<1>8. ChainIsRooted'
  <2>1. committed' = committed /\ \A id \in committed : rows'[id] = rows[id]
    BY <1>1, <1>5, <1>6
  <2> QED  BY <2>1 DEF ChainIsRooted
<1>9. OwnIsRooted'
  <2>1. ASSUME NEW v \in Writers, NEW id \in own'[v]
        PROVE  Follows(id, Visible(v))'
    <3>1. v # w /\ id \in own[v]
      BY <1>1 DEF TypeOK
    <3>2. Visible(v)' = Visible(v) /\ \A i \in Visible(v) : rows'[i] = rows[i]
      BY <3>1, <1>5, <1>6
    <3>3. id \in Visible(v) /\ Follows(id, Visible(v))
      BY <3>1 DEF Visible, OwnIsRooted
    <3> QED  BY <3>2, <3>3 DEF Follows, Genesis
  <2> QED  BY <2>1 DEF OwnIsRooted
<1>10. SelectedIsVisible'
  BY <1>1, <1>5 DEF SelectedIsVisible, InRecord, TypeOK
<1> QED  BY <1>2, <1>3, <1>4, <1>7, <1>8, <1>9, <1>10

(***************************************************************************)
(* What verify_chain sees.                                                  *)
(***************************************************************************)

LEMMA LeastExists ==
    ASSUME NEW n \in Nat, NEW S \in SUBSET (1 .. n), S # {}
    PROVE  \E x \in S : \A y \in S : x <= y
<1> DEFINE Mirror == {n + 1 - x : x \in S}
<1>1. Mirror \in SUBSET (1 .. n) /\ Mirror # {}
  <2>1. \A x \in S : n + 1 - x \in 1 .. n
    OBVIOUS
  <2>2. Mirror \subseteq 1 .. n
    BY <2>1
  <2>3. PICK x \in S : TRUE
    OBVIOUS
  <2>4. n + 1 - x \in Mirror
    OBVIOUS
  <2> HIDE DEF Mirror
  <2> QED  BY <2>2, <2>4
<1>2. PICK m \in Mirror : \A y \in Mirror : m >= y
  <2> HIDE DEF Mirror
  <2> QED  BY <1>1, GreatestExists
<1>3. PICK x \in S : m = n + 1 - x
  OBVIOUS
<1>4. \A y \in S : n + 1 - y \in Mirror
  OBVIOUS
<1>5. \A y \in S : n + 1 - x >= n + 1 - y
  BY <1>2, <1>3, <1>4
<1> QED  BY <1>5

(* The hash tells the content and the hash before it, and is none of the     *)
(* hashes it is made from.                                                   *)
LEMMA HashInjective ==
    ASSUME NEW g \in Hashes, NEW h \in Hashes, NEW c \in Contents, NEW d \in Contents
    PROVE  /\ Hash(c, g) = Hash(d, h) => c = d /\ g = h
           /\ Hash(c, g) # g
           /\ Hash(c, g) # Genesis
<1> USE DEF Hash, Hashes, Genesis
<1>1. Len(Append(g, c)) = Len(g) + 1 /\ Len(Append(h, d)) = Len(h) + 1
  OBVIOUS
<1>2. ASSUME Append(g, c) = Append(h, d)
      PROVE  c = d /\ g = h
  <2>1. Len(g) = Len(h)
    BY <1>1, <1>2
  <2>2. Append(g, c)[Len(g) + 1] = c /\ Append(h, d)[Len(h) + 1] = d
    OBVIOUS
  <2>3. \A i \in 1 .. Len(g) : Append(g, c)[i] = g[i]
    OBVIOUS
  <2>4. \A i \in 1 .. Len(h) : Append(h, d)[i] = h[i]
    OBVIOUS
  <2>5. \A i \in 1 .. Len(g) : g[i] = h[i]
    BY <1>2, <2>1, <2>3, <2>4
  <2>6. g = h
    BY <2>1, <2>5
  <2> QED  BY <1>2, <2>1, <2>2, <2>6
<1>3. Len(<<>>) = 0 /\ Len(g) \in Nat
  OBVIOUS
<1> QED  BY <1>1, <1>2, <1>3

(* verify_chain compares a record with the one before it in the log. *)
LEMMA PrevHashOfPredecessor ==
    ASSUME NEW log, NEW S \in SUBSET Ids, NEW id \in Ids
    PROVE  \/ /\ \A i \in S : ~ (i < id)
              /\ PrevHash(log, S, id) = Genesis
           \/ \E p \in S : /\ p < id
                          /\ \A i \in S : i < id => i <= p
                          /\ PrevHash(log, S, id) = log[p].record_hash
<1> DEFINE before == {i \in S : i < id}
<1>1. before \in SUBSET (1 .. MaxRecords)
  BY DEF Ids
<1>2. CASE before = {}
  BY <1>2 DEF PrevHash
<1>3. CASE before # {}
  <2>1. Max(before) \in before /\ \A y \in before : y <= Max(before)
    <3> HIDE DEF before
    <3> QED  BY <1>1, <1>3, BoundAssumption, MaxIsGreatest
  <2>2. PrevHash(log, S, id) = log[Max(before)].record_hash
    BY <1>3 DEF PrevHash
  <2> QED  BY <2>1, <2>2
<1> QED  BY <1>2, <1>3

(* In the log record builds, every hash is one of its type and every record  *)
(* carries the hash of its content.                                          *)
LEMMA CommittedIsSound ==
    ASSUME IInv
    PROVE  /\ committed \in SUBSET Ids
           /\ \A id \in committed :
                /\ Sound(id) /\ rows[id].content \in Contents
                /\ rows[id].prev_hash \in Hashes /\ rows[id].record_hash \in Hashes
<1>1. PICK w \in Writers : TRUE
  BY WritersAssumption
<1>2. \A id \in committed : Sound(id)
  BY <1>1 DEF IInv, RecordsAreSound, Visible
<1> QED  BY <1>2 DEF IInv, TypeOK, Sound, Records

LEMMA PrevHashType ==
    ASSUME IInv, NEW S \in SUBSET committed, NEW id \in Ids
    PROVE  PrevHash(rows, S, id) \in Hashes
<1>1. S \in SUBSET Ids
  BY CommittedIsSound
<1>2. Genesis \in Hashes
  BY DEF Genesis, Hashes
<1>3. PrevHash(rows, S, id) = Genesis \/ \E p \in S : PrevHash(rows, S, id) = rows[p].record_hash
  BY <1>1, PrevHashOfPredecessor
<1> QED  BY <1>2, <1>3, CommittedIsSound

(* A changed content no longer has the record's hash. *)
LEMMA ChangeIsSeen ==
    ASSUME IInv, NEW id \in committed, NEW c \in Contents, c # rows[id].content
    PROVE  id \in Broken([rows EXCEPT ![id].content = c], committed)
<1> DEFINE log == [rows EXCEPT ![id].content = c]
<1>1. id \in Ids /\ committed \in SUBSET Ids
  BY CommittedIsSound
<1>2. \A i \in committed : log[i].record_hash = rows[i].record_hash
  <2>1. \A i \in Ids : i # id => log[i] = rows[i]
    BY <1>1 DEF IInv, TypeOK
  <2>2. log[id].record_hash = rows[id].record_hash
    BY <1>1, CommittedIsSound DEF IInv, TypeOK, Sound, Records
  <2> QED  BY <1>1, <2>1, <2>2
<1>3. log[id].content = c
  BY <1>1, CommittedIsSound DEF IInv, TypeOK, Sound, Records
<1> HIDE DEF log
<1>4. PrevHash(log, committed, id) \in Hashes
  <2>1. Genesis \in Hashes
    BY DEF Genesis, Hashes
  <2>2. \/ PrevHash(log, committed, id) = Genesis
        \/ \E p \in committed : PrevHash(log, committed, id) = log[p].record_hash
    BY <1>1, PrevHashOfPredecessor
  <2> QED  BY <1>2, <2>1, <2>2, CommittedIsSound
<1>5. rows[id].record_hash # Hash(c, PrevHash(log, committed, id))
  <2>1. /\ rows[id].record_hash = Hash(rows[id].content, rows[id].prev_hash)
        /\ rows[id].content \in Contents /\ rows[id].prev_hash \in Hashes
    BY CommittedIsSound DEF Sound
  <2> QED  BY <1>4, <2>1, HashInjective
<1>6. id \in RecordMismatch(log, committed)
  BY <1>2, <1>3, <1>5 DEF RecordMismatch
<1> QED  BY <1>6 DEF Broken, log

(* The record after a missing one carries a hash the log no longer has there. *)
LEMMA RemovalIsSeen ==
    ASSUME IInv, Broken(rows, committed) = {},
           NEW id \in committed, id # LastOf(committed)
    PROVE  Broken(rows, committed \ {id}) # {}
<1> DEFINE later == {i \in committed : i > id}
<1>1. id \in Ids /\ committed \in SUBSET Ids /\ committed \in SUBSET (1 .. MaxRecords)
  BY CommittedIsSound DEF Ids
<1>2. later # {}
  <2>1. LastOf(committed) \in committed /\ id <= LastOf(committed)
    BY <1>1, BoundAssumption, MaxIsGreatest DEF LastOf
  <2>2. PICK last \in committed : last = LastOf(committed)
    BY <2>1
  <2>3. last # id /\ id <= last
    BY <2>1, <2>2
  <2>4. last > id
    BY <1>1, <2>3
  <2> QED  BY <2>4
<1>3. PICK next \in later : \A y \in later : next <= y
  <2>1. later \in SUBSET (1 .. MaxRecords)
    BY <1>1
  <2> HIDE DEF later
  <2> QED  BY <1>2, <2>1, BoundAssumption, LeastExists
<1>4. /\ next \in committed /\ next \in Ids /\ id < next
      /\ \A i \in committed : i < next => i <= id
  BY <1>1, <1>3 DEF Ids
<1> HIDE DEF later
<1> DEFINE h == PrevHash(rows, committed, id)
<1>5. h \in Hashes
  BY <1>1, PrevHashType
<1>6. rows[id].record_hash = Hash(rows[id].content, h) /\ rows[id].content \in Contents
  BY CommittedIsSound DEF Broken, RecordMismatch
<1>7. rows[next].prev_hash = rows[id].record_hash
  <2>1. rows[next].prev_hash = PrevHash(rows, committed, next)
    BY <1>4 DEF Broken, PrevMismatch
  <2>2. PICK p \in committed : /\ p < next /\ \A i \in committed : i < next => i <= p
                             /\ PrevHash(rows, committed, next) = rows[p].record_hash
    BY <1>1, <1>4, PrevHashOfPredecessor
  <2>3. p = id
    BY <1>1, <1>4, <2>2 DEF Ids
  <2> QED  BY <2>1, <2>2, <2>3
<1>8. PrevHash(rows, committed \ {id}, next) = h
  <2>1. {i \in committed \ {id} : i < next} = {i \in committed : i < id}
    <3>1. \A i \in committed : (i # id /\ i < next) <=> i < id
      BY <1>1, <1>4 DEF Ids
    <3> QED  BY <3>1
  <2> QED  BY <2>1 DEF PrevHash
<1>9. rows[next].prev_hash # PrevHash(rows, committed \ {id}, next)
  BY <1>5, <1>6, <1>7, <1>8, HashInjective
<1>10. next \in committed \ {id}
  BY <1>1, <1>4 DEF Ids
<1> QED  BY <1>9, <1>10 DEF Broken, PrevMismatch

Fork == \E i, j \in committed : i # j /\ rows[i].prev_hash = rows[j].prev_hash

(* In a valid log no two records follow the same one: the records before     *)
(* them would have the same hash, so they would be an earlier such pair.     *)
LEMMA ForkIsBroken ==
    ASSUME IInv, Broken(rows, committed) = {}
    PROVE  ~ Fork
<1> DEFINE Twins == {j \in committed : \E i \in committed : i < j /\ rows[i].prev_hash = rows[j].prev_hash}
<1>1. committed \in SUBSET Ids /\ committed \in SUBSET (1 .. MaxRecords)
  BY CommittedIsSound DEF Ids
<1>2. SUFFICES ASSUME Twins # {} PROVE FALSE
  <2>1. ASSUME NEW i \in committed, NEW j \in committed, i # j,
               rows[i].prev_hash = rows[j].prev_hash
        PROVE  i \in Twins \/ j \in Twins
    <3>1. i < j \/ j < i
      BY <1>1, <2>1 DEF Ids
    <3> QED  BY <2>1, <3>1
  <2> QED  BY <2>1 DEF Fork
<1>3. PICK j \in Twins : \A y \in Twins : j <= y
  <2>1. Twins \in SUBSET (1 .. MaxRecords)
    BY <1>1
  <2> HIDE DEF Twins
  <2> QED  BY <1>2, <2>1, BoundAssumption, LeastExists
<1>4. PICK i \in committed : i < j /\ rows[i].prev_hash = rows[j].prev_hash
  BY <1>3
<1>5. j \in committed /\ i \in Ids /\ j \in Ids
  BY <1>1, <1>3
<1>6. /\ rows[i].prev_hash = PrevHash(rows, committed, i)
      /\ rows[j].prev_hash = PrevHash(rows, committed, j)
  BY <1>5 DEF Broken, PrevMismatch
<1>7. PICK q \in committed : /\ q < j /\ \A k \in committed : k < j => k <= q
                           /\ PrevHash(rows, committed, j) = rows[q].record_hash
  BY <1>1, <1>4, <1>5, PrevHashOfPredecessor
<1>8. /\ \A k \in committed : rows[k].record_hash = Hash(rows[k].content, rows[k].prev_hash)
      /\ \A k \in committed : rows[k].content \in Contents /\ rows[k].prev_hash \in Hashes
  BY CommittedIsSound DEF Sound
<1>9. rows[q].record_hash # Genesis
  BY <1>8, HashInjective
<1>10. PICK p \in committed : p < i /\ PrevHash(rows, committed, i) = rows[p].record_hash
  BY <1>1, <1>4, <1>5, <1>6, <1>7, <1>9, PrevHashOfPredecessor
<1>11. Hash(rows[p].content, rows[p].prev_hash) = Hash(rows[q].content, rows[q].prev_hash)
  BY <1>4, <1>6, <1>7, <1>8, <1>10
<1>12. rows[p].prev_hash = rows[q].prev_hash
  BY <1>8, <1>11, HashInjective
<1>13. p < q /\ q < j
  BY <1>1, <1>4, <1>5, <1>7, <1>10 DEF Ids
<1>14. q \in Twins
  BY <1>12, <1>13
<1>15. j <= q
  BY <1>3, <1>14
<1> QED  BY <1>1, <1>5, <1>13, <1>15 DEF Ids

(* The first record verify_chain reports follows an older record than the    *)
(* one before it; the record after that older one was valid and follows it   *)
(* too.                                                                      *)
LEMMA BreakIsFork ==
    ASSUME IInv, Broken(rows, committed) # {}
    PROVE  Fork
<1> DEFINE B == Broken(rows, committed)
<1>1. committed \in SUBSET Ids /\ committed \in SUBSET (1 .. MaxRecords)
  BY CommittedIsSound DEF Ids
<1>2. B \subseteq committed
  BY DEF Broken, PrevMismatch, RecordMismatch
<1>3. PICK b \in B : \A y \in B : b <= y
  <2>1. B \in SUBSET (1 .. MaxRecords)
    BY <1>1, <1>2
  <2> HIDE DEF B
  <2> QED  BY <2>1, BoundAssumption, LeastExists DEF B
<1>4. b \in committed /\ b \in Ids
  BY <1>1, <1>2
<1>5. \A i \in committed : i < b => rows[i].prev_hash = PrevHash(rows, committed, i)
  <2>1. \A i \in committed : i < b => i \notin B
    BY <1>1, <1>3, <1>4 DEF Ids
  <2> QED  BY <2>1 DEF Broken, PrevMismatch
<1>6. rows[b].prev_hash # PrevHash(rows, committed, b)
  <2>1. rows[b].record_hash = Hash(rows[b].content, rows[b].prev_hash)
    BY <1>4, CommittedIsSound DEF Sound
  <2> QED  BY <2>1 DEF Broken, PrevMismatch, RecordMismatch
<1>7. CASE rows[b].prev_hash = Genesis
  <2>1. PICK q \in committed : q < b
    BY <1>1, <1>4, <1>6, <1>7, PrevHashOfPredecessor
  <2>2. PICK f \in committed : \A y \in committed : f <= y
    BY <1>1, <1>4, BoundAssumption, LeastExists
  <2>3. f < b /\ \A i \in committed : ~ (i < f)
    BY <1>1, <1>4, <2>1, <2>2 DEF Ids
  <2>4. PrevHash(rows, committed, f) = Genesis
    BY <1>1, <2>3, PrevHashOfPredecessor
  <2>5. rows[f].prev_hash = Genesis /\ f # b
    BY <1>1, <1>4, <1>5, <2>3, <2>4 DEF Ids
  <2> QED  BY <1>4, <1>7, <2>5 DEF Fork
<1>8. ASSUME NEW p \in committed, p < b, rows[p].record_hash = rows[b].prev_hash
      PROVE  Fork
  <2>1. PICK q \in committed : /\ q < b /\ \A k \in committed : k < b => k <= q
                             /\ PrevHash(rows, committed, b) = rows[q].record_hash
    BY <1>1, <1>4, <1>8, PrevHashOfPredecessor
  <2>2. p < q
    BY <1>1, <1>6, <1>8, <2>1 DEF Ids
  <2> DEFINE later == {k \in committed : k > p}
  <2>3. later \in SUBSET (1 .. MaxRecords) /\ q \in later
    BY <1>1, <2>2 DEF Ids
  <2>4. PICK s \in later : \A y \in later : s <= y
    <3> HIDE DEF later
    <3> QED  BY <2>3, BoundAssumption, LeastExists
  <2>5. /\ s \in committed /\ p < s /\ s < b
        /\ \A k \in committed : k < s => k <= p
    BY <1>1, <1>4, <2>1, <2>3, <2>4 DEF Ids
  <2>6. PICK r \in committed : /\ r < s /\ \A k \in committed : k < s => k <= r
                             /\ PrevHash(rows, committed, s) = rows[r].record_hash
    BY <1>1, <2>5, PrevHashOfPredecessor
  <2>7. r = p
    BY <1>1, <2>5, <2>6 DEF Ids
  <2>8. rows[s].prev_hash = rows[b].prev_hash /\ s # b
    BY <1>1, <1>4, <1>5, <1>8, <2>5, <2>6, <2>7 DEF Ids
  <2> QED  BY <1>4, <2>5, <2>8 DEF Fork
<1> QED  BY <1>4, <1>7, <1>8 DEF IInv, ChainIsRooted

(***************************************************************************)
(* Theorems.                                                                *)
(***************************************************************************)

LEMMA InitIInv == Init => IInv
<1> SUFFICES ASSUME Init PROVE IInv
  OBVIOUS
<1> USE DEF Init
<1>1. TypeOK
  BY BoundAssumption DEF TypeOK, NoRecord
<1>2. Room
  <2>1. InRecords = {}
    BY DEF InRecords, InRecord
  <2> QED  BY <2>1, FS_EmptySet, BoundAssumption DEF Room
<1>3. /\ OwnIsPrivate /\ RecordsAreSound /\ ChainIsRooted /\ OwnIsRooted
      /\ SelectedIsVisible /\ LocksAreOld
  BY DEF OwnIsPrivate, RecordsAreSound, ChainIsRooted, OwnIsRooted, SelectedIsVisible,
         LocksAreOld, Visible, InRecord
<1> QED  BY <1>1, <1>2, <1>3 DEF IInv

LEMMA NextIInv == IInv /\ [Next]_vars => IInv'
<1> SUFFICES ASSUME IInv, [Next]_vars PROVE IInv'
  OBVIOUS
<1>1. ASSUME NEW w \in Writers, SelectLast(w) PROVE IInv'
  BY <1>1, SelectLastStep
<1>2. ASSUME NEW w \in Writers, GetLock(w) PROVE IInv'
  BY <1>2, GetLockStep
<1>3. ASSUME NEW w \in Writers, NEW content \in Contents, Insert(w, content) PROVE IInv'
  BY <1>3, InsertStep
<1>4. ASSUME NEW w \in Writers, Fail(w) PROVE IInv'
  BY <1>4, FailStep
<1>5. ASSUME NEW w \in Writers, Commit(w) PROVE IInv'
  BY <1>5, CommitStep
<1>6. ASSUME NEW w \in Writers, Rollback(w) PROVE IInv'
  BY <1>6, RollbackStep
<1>7. CASE UNCHANGED vars
  <2> USE <1>7 DEF vars, IInv
  <2>1. TypeOK' /\ Room'
    BY DEF TypeOK, Room, InRecords, InRecord
  <2>2. OwnIsPrivate' /\ SelectedIsVisible' /\ LocksAreOld'
    BY DEF OwnIsPrivate, SelectedIsVisible, LocksAreOld, Visible, InRecord
  <2>3. RecordsAreSound' /\ ChainIsRooted' /\ OwnIsRooted'
    BY DEF RecordsAreSound, Sound, ChainIsRooted, OwnIsRooted, Follows, Visible
  <2> QED  BY <2>1, <2>2, <2>3
<1> QED  BY <1>1, <1>2, <1>3, <1>4, <1>5, <1>6, <1>7 DEF Next

(* The invariant of the log and of the transactions that write it. *)
THEOREM Invariance == Spec => []IInv
BY InitIInv, NextIInv, PTL DEF Spec

(* Every reachable state has the types TypeOK gives. *)
THEOREM TypeCorrect == Spec => []TypeOK
<1>1. IInv => TypeOK
  BY DEF IInv
<1> QED  BY <1>1, Invariance, PTL

(* However many changes the transactions record, those that wait for a lock  *)
(* of select_for_update wait in the order of the record ids, so never for    *)
(* each other in a circle.                                                   *)
THEOREM NoCircularWait == Spec => []WaitsAreOrdered
<1>1. IInv => WaitsAreOrdered
  <2> SUFFICES ASSUME IInv, NEW w \in Writers, NEW v \in Writers,
                      pc[v] = "waiting", prev[w] \in locks[v]
               PROVE  prev[w] < prev[v]
    BY DEF WaitsAreOrdered
  <2>1. PICK mine \in own[v] : prev[w] < mine
    BY DEF IInv, LocksAreOld
  <2>2. mine <= prev[v]
    BY DEF IInv, SelectedIsVisible
  <2>3. mine \in Int /\ prev[w] \in Int /\ prev[v] \in Int
    BY DEF IInv, TypeOK, Ids, NoRecord
  <2> QED  BY <2>1, <2>2, <2>3
<1> QED  BY <1>1, Invariance, PTL

(* No rollback, failure or interleaving of record commits a record whose     *)
(* prev_hash no older record has.                                            *)
THEOREM RootedChain == Spec => []ChainIsRooted
<1>1. IInv => ChainIsRooted
  BY DEF IInv
<1> QED  BY <1>1, Invariance, PTL

(* verify_chain reports a log record has written if, and only if, two        *)
(* records were made from the same predecessor.                              *)
THEOREM OnlyForksBreak == Spec => []BreaksAreForks
<1>1. IInv => BreaksAreForks
  BY ForkIsBroken, BreakIsFork DEF BreaksAreForks, Fork
<1> QED  BY <1>1, Invariance, PTL

(* verify_chain reports every changed record, and the absence of any record  *)
(* but the last from a valid log.                                            *)
THEOREM TamperEvident == Spec => []TamperIsSeen
<1>1. IInv => TamperIsSeen
  BY ChangeIsSeen, RemovalIsSeen DEF TamperIsSeen
<1> QED  BY <1>1, Invariance, PTL

(* Within the records from a date on, every record but the first is compared *)
(* with the same predecessor as within the whole log.                        *)
LEMMA SamePredecessor ==
    ASSUME IInv, NEW first \in committed, NEW id \in Since(committed, first), id # first
    PROVE  PrevHash(rows, Since(committed, first), id) = PrevHash(rows, committed, id)
<1> DEFINE later == Since(committed, first)
           before == {i \in committed : i < id}
           laterBefore == {i \in later : i < id}
<1>1. committed \in SUBSET Ids /\ later \in SUBSET Ids /\ id \in Ids /\ first \in Ids
  BY CommittedIsSound DEF Since
<1>2. first < id /\ first \in laterBefore /\ first \in before
  BY <1>1 DEF Since, Ids
<1>3. PICK q \in committed : /\ q < id /\ \A k \in committed : k < id => k <= q
                            /\ PrevHash(rows, committed, id) = rows[q].record_hash
  BY <1>1, <1>2, PrevHashOfPredecessor
<1>4. PICK p \in later : /\ p < id /\ \A k \in later : k < id => k <= p
                        /\ PrevHash(rows, later, id) = rows[p].record_hash
  BY <1>1, <1>2, PrevHashOfPredecessor
<1>5. p = q
  <2>1. q >= first /\ p >= first
    BY <1>1, <1>2, <1>3, <1>4 DEF Since, Ids
  <2>2. q \in later /\ p \in committed
    BY <1>3, <1>4, <2>1 DEF Since
  <2> QED  BY <1>1, <1>3, <1>4, <2>2 DEF Ids
<1> QED  BY <1>3, <1>4, <1>5

(* verify_chain(since) blames the first record it reads, whoever wrote the   *)
(* log, and agrees with verify_chain on all the others.                      *)
THEOREM SinceIsUnfair == Spec => []SinceBlamesFirst
<1>1. IInv => SinceBlamesFirst
  <2> SUFFICES ASSUME IInv, NEW first \in committed
               PROVE  LET later == Since(committed, first)
                      IN /\ Broken(rows, later) \ {first}
                              = (Broken(rows, committed) \cap later) \ {first}
                         /\ first \in Broken(rows, later) <=> rows[first].prev_hash # Genesis
    BY DEF SinceBlamesFirst
  <2> DEFINE later == Since(committed, first)
  <2>1. /\ committed \in SUBSET Ids /\ later \in SUBSET committed /\ first \in later
        /\ \A id \in later : ~(id < first)
    BY CommittedIsSound DEF Since, Ids
  <2>2. \A id \in later \ {first} : PrevHash(rows, later, id) = PrevHash(rows, committed, id)
    BY SamePredecessor
  <2>3. PrevHash(rows, later, first) = Genesis
    BY <2>1 DEF PrevHash
  <2>4. rows[first].record_hash = Hash(rows[first].content, rows[first].prev_hash)
    BY CommittedIsSound DEF Sound
  <2>5. first \in Broken(rows, later) <=> rows[first].prev_hash # Genesis
    BY <2>1, <2>3, <2>4 DEF Broken, PrevMismatch, RecordMismatch
  <2>6. Broken(rows, later) \ {first} = (Broken(rows, committed) \cap later) \ {first}
    <3> HIDE DEF later
    <3> QED  BY <2>1, <2>2 DEF Broken, PrevMismatch, RecordMismatch
  <2> QED  BY <2>5, <2>6
<1> QED  BY <1>1, Invariance, PTL
=============================================================================
