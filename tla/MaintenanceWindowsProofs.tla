----------------------- MODULE MaintenanceWindowsProofs -----------------------
(***************************************************************************)
(* Proofs about MaintenanceWindows, for any windows, monitors, recurrences,  *)
(* calendar, clients and bounds.                                             *)
(***************************************************************************)
EXTENDS MaintenanceWindows, FiniteSetTheorems, WellFoundedInduction, TLAPS

-----------------------------------------------------------------------------
(* Natural numbers: every set of them has a least element, because the finite *)
(* sets 0 .. n are well-founded by inclusion; induction follows.              *)
LEMMA LeastNumber ==
    ASSUME NEW S \in SUBSET Nat, S # {}
    PROVE  \E x \in S : \A y \in S : x <= y
<1>1. PICK n \in S : TRUE
  OBVIOUS
<1> DEFINE Up == 0 .. n
           R == StrictSubsetOrdering(Up)
           T == {0 .. x : x \in S \cap Up}
<1>2. IsWellFoundedOn(R, FiniteSubsetsOf(Up))
  BY FS_StrictSubsetOrderingWellFounded
<1>3. T \subseteq FiniteSubsetsOf(Up) /\ T # {}
  <2>1. \A x \in S \cap Up : IsFiniteSet(0 .. x) /\ 0 .. x \subseteq Up
    BY FS_Interval
  <2> QED  BY <1>1, <2>1 DEF FiniteSubsetsOf
<1>4. PICK t \in T : \A u \in T : ~(<<u, t>> \in R)
  <2> HIDE DEF R, T
  <2> QED  BY <1>2, <1>3, WFMin
<1>5. PICK x \in S \cap Up : t = 0 .. x
  OBVIOUS
<1>6. \A y \in S \cap Up : x <= y
  <2> SUFFICES ASSUME NEW y \in S \cap Up, y < x
               PROVE  FALSE
    OBVIOUS
  <2>1. /\ 0 .. y \in T /\ 0 .. y \subseteq 0 .. x /\ 0 .. y # 0 .. x
        /\ 0 .. y \subseteq Up /\ 0 .. x \subseteq Up
    OBVIOUS
  <2>2. <<0 .. y, 0 .. x>> \in R
    BY <2>1 DEF StrictSubsetOrdering
  <2> QED  BY <1>4, <1>5, <2>1, <2>2
<1> QED  BY <1>6

LEMMA InductionOnNat ==
    ASSUME NEW S \in SUBSET Nat, 0 \in S, \A n \in S : n + 1 \in S
    PROVE  S = Nat
<1> SUFFICES ASSUME Nat \ S # {}
             PROVE  FALSE
  OBVIOUS
<1>1. PICK x \in Nat \ S : \A y \in Nat \ S : x <= y
  BY LeastNumber
<1>2. x # 0 /\ x - 1 \in S
  BY <1>1
<1> QED  BY <1>2

-----------------------------------------------------------------------------
(* The calendar *)

LEMMA MonthsHaveDays ==
    ASSUME NEW k \in Nat
    PROVE  LengthOfMonth(k) \in Nat \ {0}
<1>1. Len(MonthLength) \in Nat \ {0} /\ MonthLength \in [1 .. Len(MonthLength) -> Nat \ {0}]
  BY CalendarAssumption
<1>2. 1 + (k % Len(MonthLength)) \in 1 .. Len(MonthLength)
  BY <1>1
<1> QED  BY <1>1, <1>2 DEF LengthOfMonth

(* MonthStart is defined by recursion: the sums up to each month exist,       *)
(* agree with each other and make the function.                               *)
Sums(n) == {g \in [0 .. n -> Nat] :
              g[0] = 0 /\ \A k \in 0 .. n - 1 : g[k + 1] = g[k] + LengthOfMonth(k)}

LEMMA SumsExist ==
    \A n \in Nat : Sums(n) # {}
<1> DEFINE S == {n \in Nat : Sums(n) # {}}
<1>1. 0 \in S
  <2>1. [k \in 0 .. 0 |-> 0] \in Sums(0)
    BY DEF Sums
  <2> QED  BY <2>1
<1>2. ASSUME NEW n \in S
      PROVE  n + 1 \in S
  <2>1. PICK g \in Sums(n) : TRUE
    OBVIOUS
  <2> DEFINE h == [k \in 0 .. n + 1 |-> IF k = n + 1 THEN g[n] + LengthOfMonth(n) ELSE g[k]]
  <2>2. /\ g \in [0 .. n -> Nat] /\ g[0] = 0
        /\ \A k \in 0 .. n - 1 : g[k + 1] = g[k] + LengthOfMonth(k)
    BY <2>1 DEF Sums
  <2>3. h \in [0 .. n + 1 -> Nat]
    <3>1. g[n] + LengthOfMonth(n) \in Nat
      BY <2>2, MonthsHaveDays
    <3>2. \A k \in 0 .. n + 1 : k # n + 1 => k \in 0 .. n
      OBVIOUS
    <3> QED  BY <2>2, <3>1, <3>2
  <2>4. h[0] = 0
    BY <2>2
  <2>5. ASSUME NEW k \in 0 .. n + 1 - 1
        PROVE  h[k + 1] = h[k] + LengthOfMonth(k)
    BY <2>2
  <2> HIDE DEF h
  <2>6. h \in Sums(n + 1)
    BY <2>3, <2>4, <2>5 DEF Sums
  <2> QED  BY <2>6
<1> HIDE DEF S
<1>3. S = Nat
  BY <1>1, <1>2, InductionOnNat DEF S
<1> QED  BY <1>3 DEF S

LEMMA SumsAgree ==
    ASSUME NEW m \in Nat, NEW n \in Nat, NEW g \in Sums(m), NEW h \in Sums(n)
    PROVE  \A k \in Nat : k <= m /\ k <= n => g[k] = h[k]
<1> DEFINE S == {k \in Nat : k <= m /\ k <= n => g[k] = h[k]}
<1>1. 0 \in S
  BY DEF Sums
<1>2. ASSUME NEW k \in S
      PROVE  k + 1 \in S
  BY DEF Sums
<1> HIDE DEF S
<1>3. S = Nat
  BY <1>1, <1>2, InductionOnNat DEF S
<1> QED  BY <1>3 DEF S

LEMMA MonthStartDef ==
    /\ MonthStart \in [Nat -> Nat]
    /\ MonthStart[0] = 0
    /\ \A k \in Nat : MonthStart[k + 1] = MonthStart[k] + LengthOfMonth(k)
<1> DEFINE sum(n) == CHOOSE g \in Sums(n) : TRUE
           f == [n \in Nat |-> sum(n)[n]]
           F(g) == [k \in Nat |-> IF k = 0 THEN 0 ELSE g[k - 1] + LengthOfMonth(k - 1)]
<1>1. \A n \in Nat : sum(n) \in Sums(n)
  BY SumsExist
<1> HIDE DEF sum
<1>2. f[0] = 0
  BY <1>1 DEF Sums
<1>3. ASSUME NEW k \in Nat
      PROVE  f[k + 1] = f[k] + LengthOfMonth(k)
  <2>1. sum(k + 1) \in Sums(k + 1) /\ sum(k) \in Sums(k)
    BY <1>1
  <2>2. sum(k + 1)[k] = sum(k)[k]
    BY <2>1, SumsAgree
  <2>3. sum(k + 1)[k + 1] = sum(k + 1)[k] + LengthOfMonth(k)
    <3>1. \A j \in 0 .. k + 1 - 1 : sum(k + 1)[j + 1] = sum(k + 1)[j] + LengthOfMonth(j)
      BY <2>1 DEF Sums
    <3>2. k \in 0 .. k + 1 - 1
      OBVIOUS
    <3> QED  BY <3>1, <3>2
  <2> QED  BY <2>2, <2>3
<1>4. f \in [Nat -> Nat]
  <2>1. ASSUME NEW n \in Nat
        PROVE  sum(n)[n] \in Nat
    <3>1. sum(n) \in [0 .. n -> Nat] /\ n \in 0 .. n
      BY <1>1 DEF Sums
    <3> QED  BY <3>1
  <2> QED  BY <2>1
<1> HIDE DEF f
<1>5. f = F(f)
  <2>1. \A k \in Nat : f[k] = F(f)[k]
    BY <1>2, <1>3
  <2> QED  BY <1>4, <2>1
<1>6. MonthStart = F(MonthStart)
  BY <1>5 DEF MonthStart
<1>7. \A k \in Nat : MonthStart[k] = IF k = 0 THEN 0 ELSE MonthStart[k - 1] + LengthOfMonth(k - 1)
  BY <1>6
<1>8. MonthStart \in [Nat -> Nat]
  <2> DEFINE S == {k \in Nat : MonthStart[k] \in Nat}
  <2>1. 0 \in S
    BY <1>7
  <2>2. ASSUME NEW k \in S
        PROVE  k + 1 \in S
    BY <1>7, MonthsHaveDays
  <2> HIDE DEF S
  <2>3. S = Nat
    BY <2>1, <2>2, InductionOnNat DEF S
  <2>4. \A k \in Nat : MonthStart[k] \in Nat
    BY <2>3 DEF S
  <2> QED  BY <1>6, <2>4
<1> QED  BY <1>7, <1>8

LEMMA MonthsGrow ==
    /\ \A j, k \in Nat : j < k => MonthStart[j] < MonthStart[k]
    /\ \A k \in Nat : k <= MonthStart[k]
<1> USE MonthStartDef
<1>0. \A k \in Nat : MonthStart[k] \in Nat /\ MonthStart[k] < MonthStart[k + 1]
  BY MonthsHaveDays
<1>1. ASSUME NEW j \in Nat
      PROVE  \A k \in Nat : j < k => MonthStart[j] < MonthStart[k]
  <2> DEFINE S == {k \in Nat : j < k => MonthStart[j] < MonthStart[k]}
  <2>1. 0 \in S
    OBVIOUS
  <2>2. ASSUME NEW k \in S
        PROVE  k + 1 \in S
    <3>1. MonthStart[j] \in Nat /\ MonthStart[k] \in Nat /\ MonthStart[k + 1] \in Nat
      OBVIOUS
    <3>2. MonthStart[k] < MonthStart[k + 1]
      BY <1>0
    <3>3. j < k + 1 => j < k \/ j = k
      OBVIOUS
    <3> QED  BY <3>1, <3>2, <3>3
  <2> HIDE DEF S
  <2>3. S = Nat
    BY <2>1, <2>2, InductionOnNat DEF S
  <2> QED  BY <2>3 DEF S
<1>2. \A k \in Nat : k <= MonthStart[k]
  <2> DEFINE S == {k \in Nat : k <= MonthStart[k]}
  <2>1. 0 \in S
    OBVIOUS
  <2>2. ASSUME NEW k \in S
        PROVE  k + 1 \in S
    <3>1. MonthStart[k] \in Nat /\ MonthStart[k + 1] \in Nat /\ MonthStart[k] < MonthStart[k + 1]
      BY <1>0
    <3> QED  BY <3>1
  <2> HIDE DEF S
  <2>3. S = Nat
    BY <2>1, <2>2, InductionOnNat DEF S
  <2> QED  BY <2>3 DEF S
<1> QED  BY <1>1, <1>2

(* Every day is in one month. *)
LEMMA MonthOfDay ==
    ASSUME NEW day \in Nat
    PROVE  /\ MonthOf(day) \in Nat
           /\ MonthStart[MonthOf(day)] <= day
           /\ day < MonthStart[MonthOf(day) + 1]
<1> DEFINE S == {k \in Nat : day < MonthStart[k + 1]}
<1>1. \A k \in Nat : MonthStart[k] \in Nat
  BY MonthStartDef
<1>2. day \in S
  <2>1. day <= MonthStart[day] /\ MonthStart[day] < MonthStart[day + 1]
    BY MonthsGrow
  <2> QED  BY <1>1, <2>1
<1>3. PICK k \in S : \A j \in S : k <= j
  BY <1>2, LeastNumber
<1>4. k \in 0 .. day /\ day < MonthStart[k + 1]
  BY <1>2, <1>3
<1>5. MonthStart[k] <= day
  <2>1. CASE k = 0
    BY <2>1, MonthStartDef
  <2>2. CASE k # 0
    <3>1. k - 1 \in Nat /\ k - 1 \notin S /\ k - 1 + 1 = k
      BY <1>3, <2>2
    <3> QED  BY <1>1, <3>1
  <2> QED  BY <2>1, <2>2
<1>6. \E j \in 0 .. day : MonthStart[j] <= day /\ day < MonthStart[j + 1]
  BY <1>4, <1>5
<1> QED  BY <1>6 DEF MonthOf

LEMMA MonthIsUnique ==
    ASSUME NEW day \in Nat, NEW k \in Nat, MonthStart[k] <= day, day < MonthStart[k + 1]
    PROVE  MonthOf(day) = k
<1> DEFINE m == MonthOf(day)
<1>1. m \in Nat /\ MonthStart[m] <= day /\ day < MonthStart[m + 1]
  BY MonthOfDay
<1> HIDE DEF m
<1>2. /\ MonthStart[m] \in Nat /\ MonthStart[k] \in Nat
      /\ MonthStart[m + 1] \in Nat /\ MonthStart[k + 1] \in Nat
  BY <1>1, MonthStartDef
<1>3. ASSUME m < k
      PROVE  FALSE
  <2>1. m + 1 = k \/ MonthStart[m + 1] < MonthStart[k]
    BY <1>1, <1>3, MonthsGrow
  <2> QED  BY <1>1, <1>2, <2>1
<1>4. ASSUME k < m
      PROVE  FALSE
  <2>1. k + 1 = m \/ MonthStart[k + 1] < MonthStart[m]
    BY <1>1, <1>4, MonthsGrow
  <2> QED  BY <1>1, <1>2, <2>1
<1> QED  BY <1>1, <1>3, <1>4 DEF m

(* So many months later is in the month so many months later, on the same day *)
(* or the last one.                                                            *)
LEMMA AddMonthsFacts ==
    ASSUME NEW day \in Nat, NEW n \in Nat
    PROVE  /\ AddMonths(day, n) \in Nat
           /\ MonthOf(day) \in Nat
           /\ MonthOf(AddMonths(day, n)) = MonthOf(day) + n
           /\ \/ DayOfMonth(AddMonths(day, n)) = DayOfMonth(day)
              \/ /\ DayOfMonth(AddMonths(day, n)) < DayOfMonth(day)
                 /\ DayOfMonth(AddMonths(day, n)) = LengthOfMonth(MonthOf(day) + n) - 1
<1> DEFINE month == MonthOf(day) + n
           d == DayOfMonth(day)
           to == AddMonths(day, n)
<1>1. MonthOf(day) \in Nat /\ month \in Nat /\ d \in Nat
  <2>1. /\ MonthOf(day) \in Nat /\ MonthStart[MonthOf(day)] \in Nat
        /\ MonthStart[MonthOf(day)] <= day
    BY MonthOfDay, MonthStartDef
  <2> QED  BY <2>1 DEF DayOfMonth
<1>2. /\ LengthOfMonth(month) \in Nat \ {0} /\ MonthStart[month] \in Nat
      /\ MonthStart[month + 1] = MonthStart[month] + LengthOfMonth(month)
  BY <1>1, MonthsHaveDays, MonthStartDef
<1>3. to = MonthStart[month] + Smaller(d, LengthOfMonth(month) - 1)
  BY DEF AddMonths
<1> HIDE DEF month, d, to
<1>4. /\ Smaller(d, LengthOfMonth(month) - 1) \in 0 .. LengthOfMonth(month) - 1
      /\ \/ Smaller(d, LengthOfMonth(month) - 1) = d
         \/ /\ Smaller(d, LengthOfMonth(month) - 1) < d
            /\ Smaller(d, LengthOfMonth(month) - 1) = LengthOfMonth(month) - 1
  BY <1>1, <1>2 DEF Smaller
<1>5. to \in Nat /\ MonthStart[month] <= to /\ to < MonthStart[month + 1]
  BY <1>2, <1>3, <1>4
<1>6. MonthOf(to) = month
  BY <1>1, <1>5, MonthIsUnique
<1>7. DayOfMonth(to) = Smaller(d, LengthOfMonth(month) - 1)
  BY <1>2, <1>3, <1>4, <1>6 DEF DayOfMonth
<1> QED  BY <1>1, <1>4, <1>5, <1>6, <1>7 DEF month, d, to

(* Every weekday comes up within a week. *)
LEMMA WeekdayComes ==
    ASSUME NEW day \in Nat, NEW s \in 0 .. WeekLength - 1
    PROVE  \E d \in day + 1 .. day + WeekLength : Weekday(d) = s
<1> DEFINE q == day \div WeekLength
           r == day % WeekLength
<1>1. /\ WeekLength \in Nat \ {0} /\ q \in Nat /\ r \in 0 .. WeekLength - 1
      /\ day = (WeekLength * q) + r
  BY CalendarAssumption
<1> HIDE DEF q, r
<1>2. CASE r < s
  <2>1. (WeekLength * q) + s \in day + 1 .. day + WeekLength
    BY <1>1, <1>2
  <2>2. Weekday((WeekLength * q) + s) = s
    BY <1>1 DEF Weekday
  <2> QED  BY <2>1, <2>2
<1>3. CASE s <= r
  <2>1. WeekLength * (q + 1) = WeekLength * q + WeekLength
    BY <1>1
  <2>2. (WeekLength * (q + 1)) + s \in day + 1 .. day + WeekLength
    BY <1>1, <1>3, <2>1
  <2>3. Weekday((WeekLength * (q + 1)) + s) = s
    BY <1>1 DEF Weekday
  <2> QED  BY <2>2, <2>3
<1> QED  BY <1>1, <1>2, <1>3

-----------------------------------------------------------------------------
(* schedule_next_occurrence *)

(* The settings the recurrence is made of. *)
LEMMA Settings ==
    ASSUME recurrence \in Recurrences
    PROVE  /\ recurrence.frequency \in Frequencies
           /\ recurrence.interval \in Nat
           /\ recurrence.weekdays \subseteq Nat
           /\ recurrence.until \in Nat \cup {None}
           /\ Interval \in Nat \ {0}
<1>1. recurrence \in [frequency : Frequencies, interval : Nat,
                      weekdays : SUBSET Nat, until : Nat \cup {None}]
  BY RecurrencesAssumption
<1>2. recurrence.interval \in Nat
  BY <1>1
<1>3. Interval \in Nat \ {0}
  BY <1>2 DEF Interval
<1> QED  BY <1>1, <1>3

(* The weekly search finds the first selected weekday. *)
LEMMA WeeklyFacts ==
    ASSUME NEW w \in Windows, recurrence \in Recurrences, starts[w] \in Nat
    PROVE  /\ NextWeekly(w) \in Nat
           /\ NextWeekly(w) > starts[w]
           /\ \/ Weekday(NextWeekly(w)) \in SelectedWeekdays(starts[w])
              \/ /\ SelectedWeekdays(starts[w]) \cap (0 .. WeekLength - 1) = {}
                 /\ NextWeekly(w) - starts[w] = Interval * WeekLength
           /\ \A day \in starts[w] + 1 .. NextWeekly(w) - 1 :
                Weekday(day) \notin SelectedWeekdays(starts[w])
<1> DEFINE from == starts[w]
           found == {day \in from + 1 .. from + SearchDays : Weekday(day) \in SelectedWeekdays(starts[w])}
           to == NextWeekly(w)
<1>1. /\ from \in Nat /\ SearchDays \in Nat /\ WeekLength \in Nat \ {0}
      /\ SearchDays >= WeekLength /\ Interval \in Nat \ {0}
  BY Settings, CalendarAssumption
<1>2. to = IF found = {} THEN from + Interval * WeekLength
           ELSE CHOOSE day \in found : \A other \in found : day <= other
  BY DEF NextWeekly
<1> HIDE DEF to, from
<1>3. CASE found # {}
  <2>1. \E day \in found : \A other \in found : day <= other
    <3>1. found \in SUBSET Nat
      BY <1>1
    <3> HIDE DEF found
    <3> QED  BY <3>1, <1>3, LeastNumber
  <2>2. to \in found /\ \A other \in found : to <= other
    <3> HIDE DEF found
    <3> QED  BY <1>2, <1>3, <2>1
  <2>3. ASSUME NEW day \in from + 1 .. to - 1, Weekday(day) \in SelectedWeekdays(starts[w])
        PROVE  FALSE
    <3>1. to \in from + 1 .. from + SearchDays
      BY <2>2
    <3>2. day \in found
      BY <1>1, <2>3, <3>1
    <3> QED  BY <1>1, <2>2, <3>1, <3>2
  <2>4. to \in Nat /\ to > from /\ Weekday(to) \in SelectedWeekdays(starts[w])
    BY <1>1, <2>2
  <2> QED  BY <2>3, <2>4 DEF to, from
<1>4. CASE found = {}
  <2>1. SelectedWeekdays(starts[w]) \cap (0 .. WeekLength - 1) = {}
    <3> SUFFICES ASSUME NEW s \in 0 .. WeekLength - 1, s \in SelectedWeekdays(starts[w])
                 PROVE  FALSE
      OBVIOUS
    <3>1. PICK d \in from + 1 .. from + WeekLength : Weekday(d) = s
      BY <1>1, WeekdayComes
    <3>2. d \in found
      BY <1>1, <3>1
    <3> QED  BY <1>4, <3>2
  <2>2. Interval * WeekLength \in Nat \ {0}
    BY <1>1
  <2>3. to = from + Interval * WeekLength
    BY <1>2, <1>4
  <2>4. ASSUME NEW day \in from + 1 .. to - 1
        PROVE  Weekday(day) \notin SelectedWeekdays(starts[w])
    <3>1. day \in Nat /\ Weekday(day) \in 0 .. WeekLength - 1
      BY <1>1, <2>2, <2>3 DEF Weekday
    <3> QED  BY <2>1, <3>1
  <2>5. to \in Nat /\ to > from /\ to - from = Interval * WeekLength
    BY <1>1, <2>2, <2>3
  <2> QED  BY <2>1, <2>4, <2>5 DEF to, from
<1> QED  BY <1>3, <1>4

LEMMA NextStartIsNat ==
    ASSUME NEW w \in Windows, recurrence \in Recurrences, starts[w] \in Nat,
           recurrence.frequency # "none"
    PROVE  NextStart(w) \in Nat
<1>1. recurrence.frequency \in {"daily", "weekly", "monthly"} /\ Interval \in Nat
  BY Settings DEF Frequencies
<1>2. starts[w] + Interval \in Nat
  BY <1>1
<1>3. NextWeekly(w) \in Nat
  BY WeeklyFacts
<1>4. AddMonths(starts[w], Interval) \in Nat
  BY <1>1, AddMonthsFacts
<1> QED  BY <1>1, <1>2, <1>3, <1>4 DEF NextStart

-----------------------------------------------------------------------------
(* Types *)

LEMMA NoneIsNone ==
    None \notin Windows /\ None \notin Nat /\ None \notin Requests
BY NoneAssumption, RequestsAssumption

LEMMA TypeInit ==
    Init => TypeOK
<1> SUFFICES ASSUME Init
             PROVE  TypeOK
  OBVIOUS
<1>1. PICK t \in FirstStarts : starts = [w \in Windows |-> IF w = 1 THEN t ELSE 0]
  BY DEF Init
<1>2. t \in Nat /\ InitialCovers \in SUBSET Monitors
  BY WindowsAssumption
<1>3. starts \in [Windows -> Nat]
  BY <1>1, <1>2
<1>4. /\ status \in [Windows -> WindowStatus]
      /\ covers \in [Windows -> SUBSET Monitors]
      /\ request \in [Clients -> Requests \cup {None}]
      /\ parent \in [Windows -> Windows \cup {None}]
      /\ undone \in [Windows -> Nat]
  BY <1>2 DEF Init, WindowStatus
<1>5. now \in 0 .. MaxTime /\ begun \in 0 .. MaxTime
      /\ faults \in 0 .. MaxFaults /\ requests \in 0 .. MaxRequests
  BY WindowsAssumption DEF Init
<1> QED  BY <1>3, <1>4, <1>5, NoneIsNone DEF Init, TypeOK

(* A request is a record of its fields. *)
LEMMA RequestFields ==
    ASSUME NEW r \in Requests
    PROVE  r.op \in {"cancel", "patch"} /\ r.window \in Windows /\ r.status \in WindowStatus
BY DEF Requests

LEMMA TypeStep ==
    ASSUME TypeOK, [Next]_vars
    PROVE  TypeOK'
<1> USE NoneIsNone, WindowsAssumption
<1>1. CASE LoadStarting
  BY <1>1 DEF TypeOK, LoadStarting, rowVars, taskVars, clientVars, historyVars
<1>2. ASSUME NEW w \in Windows, StartWindow(w)
      PROVE  TypeOK'
  <2>1. status' \in [Windows -> WindowStatus]
    BY <1>2 DEF TypeOK, StartWindow, WindowStatus
  <2>2. /\ phase' \in {"idle", "starting", "ending"} /\ begun' \in 0 .. MaxTime
        /\ toStart' \in SUBSET Windows /\ toEnd' \in SUBSET Windows
    BY <1>2 DEF TypeOK, StartWindow, AbortRun
  <2> QED  BY <1>2, <2>1, <2>2 DEF TypeOK, StartWindow, taskVars, clientVars, historyVars
<1>3. CASE LoadEnding
  BY <1>3 DEF TypeOK, LoadEnding, rowVars, taskVars, clientVars, historyVars
<1>4. ASSUME NEW w \in Windows, CompleteWindow(w)
      PROVE  TypeOK'
  <2>1. status' \in [Windows -> WindowStatus]
    BY <1>4 DEF TypeOK, CompleteWindow, WindowStatus
  <2>2. /\ phase' \in {"idle", "starting", "ending"} /\ begun' \in 0 .. MaxTime
        /\ toStart' \in SUBSET Windows /\ toEnd' \in SUBSET Windows
    BY <1>4 DEF TypeOK, CompleteWindow, AbortRun
  <2>3. /\ ending' \in Windows \cup {None}
        /\ task' \in {"none", "schedule", "link", "reevaluate"}
        /\ (ending' = None) <=> (task' = "none")
        /\ (clone' = None) <=> (task' # "link")
    BY <1>4 DEF TypeOK, CompleteWindow
  <2> QED  BY <1>4, <2>1, <2>2, <2>3 DEF TypeOK, CompleteWindow, clientVars, historyVars
<1>5. ASSUME NEW w \in Windows, ScheduleNext(w)
      PROVE  TypeOK'
  <2>1. /\ status' \in [Windows -> WindowStatus]
        /\ parent' \in [Windows -> Windows \cup {None}]
        /\ ending \in Windows
    BY <1>5 DEF TypeOK, ScheduleNext, WindowStatus
  <2>2. NextStart(ending) \in Nat
    BY <1>5, <2>1, NextStartIsNat DEF TypeOK, ScheduleNext, Recurs
  <2>3. starts' \in [Windows -> Nat]
    BY <1>5, <2>2 DEF TypeOK, ScheduleNext
  <2> QED  BY <1>5, <2>1, <2>3 DEF TypeOK, ScheduleNext, clientVars
<1>6. CASE ScheduleNone
  BY <1>6 DEF TypeOK, ScheduleNone, rowVars, clientVars, historyVars
<1>7. CASE LinkClone
  <2>1. covers' \in [Windows -> SUBSET Monitors]
    BY <1>7 DEF TypeOK, LinkClone
  <2> QED  BY <1>7, <2>1 DEF TypeOK, LinkClone, clientVars, historyVars
<1>8. CASE Reevaluate
  BY <1>8 DEF TypeOK, Reevaluate, rowVars, clientVars
<1>9. CASE EndRun
  BY <1>9 DEF TypeOK, EndRun, AbortRun, rowVars, taskVars, clientVars, historyVars
<1>10. CASE Crash
  <2>1. interrupted' \in SUBSET Windows
    BY <1>10 DEF TypeOK, Crash
  <2> QED  BY <1>10, <2>1 DEF TypeOK, Crash, AbortRun, rowVars, clientVars
<1>11. CASE Tick
  BY <1>11 DEF TypeOK, Tick, rowVars, jobVars, taskVars, clientVars, historyVars
<1>12. ASSUME NEW c \in Clients, NEW op \in {"cancel", "patch"}, NEW w \in Windows,
              ReadWindow(c, op, w)
       PROVE  TypeOK'
  <2> DEFINE r == [op |-> op, window |-> w, status |-> status[w]]
  <2>1. r \in Requests
    BY DEF TypeOK, Requests
  <2>2. request' = [request EXCEPT ![c] = r]
    BY <1>12 DEF ReadWindow
  <2> HIDE DEF r
  <2>3. request' \in [Clients -> Requests \cup {None}]
    BY <2>1, <2>2 DEF TypeOK
  <2>4. requests' \in 0 .. MaxRequests
    BY <1>12 DEF TypeOK, ReadWindow
  <2> QED  BY <1>12, <2>3, <2>4 DEF TypeOK, ReadWindow, rowVars, jobVars, taskVars, historyVars
<1>13. ASSUME NEW c \in Clients, CancelWindow(c)
       PROVE  TypeOK'
  <2>1. request[c] \in Requests
    BY <1>13 DEF TypeOK, CancelWindow, Answer
  <2>2. request[c].window \in Windows
    BY <2>1, RequestFields
  <2>3. /\ request' \in [Clients -> Requests \cup {None}]
        /\ raced' \in SUBSET Windows
        /\ undone' \in [Windows -> Nat]
    BY <1>13, <2>2 DEF TypeOK, CancelWindow, Answer
  <2>4. status' \in [Windows -> WindowStatus]
    BY <1>13 DEF TypeOK, CancelWindow, WindowStatus
  <2> QED  BY <1>13, <2>3, <2>4 DEF TypeOK, CancelWindow, Answer, jobVars, taskVars
<1>14. ASSUME NEW c \in Clients, PatchWindow(c)
       PROVE  TypeOK'
  <2>1. request[c] \in Requests
    BY <1>14 DEF TypeOK, PatchWindow, Answer
  <2>2. request[c].window \in Windows /\ request[c].status \in WindowStatus
    BY <2>1, RequestFields
  <2>3. /\ request' \in [Clients -> Requests \cup {None}]
        /\ undone' \in [Windows -> Nat]
    BY <1>14, <2>2 DEF TypeOK, PatchWindow, Answer
  <2>4. status' \in [Windows -> WindowStatus]
    BY <1>14, <2>2 DEF TypeOK, PatchWindow
  <2> QED  BY <1>14, <2>3, <2>4 DEF TypeOK, PatchWindow, Answer, jobVars, taskVars
<1>15. ASSUME NEW w \in Windows, DeleteWindow(w)
       PROVE  TypeOK'
  <2>1. status' \in [Windows -> WindowStatus] /\ requests' \in 0 .. MaxRequests
    BY <1>15 DEF TypeOK, DeleteWindow, WindowStatus
  <2> QED  BY <1>15, <2>1 DEF TypeOK, DeleteWindow, jobVars, taskVars, historyVars
<1>16. CASE UNCHANGED vars
  BY <1>16 DEF TypeOK, vars, rowVars, jobVars, taskVars, clientVars, historyVars
<1> QED
  BY <1>1, <1>2, <1>3, <1>4, <1>5, <1>6, <1>7, <1>8, <1>9, <1>10, <1>11, <1>12, <1>13,
     <1>14, <1>15, <1>16
  DEF Next, JobStep

(* Every reachable state is well typed. *)
THEOREM TypeCorrect ==
    Spec => []TypeOK
<1>1. Init => TypeOK
  BY TypeInit
<1>2. TypeOK /\ [Next]_vars => TypeOK'
  BY TypeStep
<1> QED  BY <1>1, <1>2, PTL DEF Spec

-----------------------------------------------------------------------------
(* The inductive invariant *)

(* The request of c is about window w. *)
Holds(c, w) == request[c] # None /\ request[c].window = w

(* Nothing has been done yet with a window that has not been created. *)
Fresh(w) ==
    /\ parent[w] = None
    /\ Children(w) = {}
    /\ w \notin toStart \cup toEnd \cup reevaluated
    /\ ending # w
    /\ \A c \in Clients : ~Holds(c, w)

FreshInv ==
    /\ \A w \in Windows : status[w] = "absent" => Fresh(w)
    /\ \A c \in Clients : request[c] # None => request[c].status # "absent"

(* The lists of windows loaded, and the completion being handled, belong to a *)
(* phase of the run.                                                          *)
PhaseInv ==
    /\ phase # "starting" => toStart = {}
    /\ phase # "ending" => toEnd = {} /\ ending = None

(* The completions of w still to come without a request that saves over one:  *)
(* one if w is not completed or is loaded, and the one being handled.         *)
Open(w) == status[w] \in {"absent", "scheduled", "in_progress", "cancelled"}
           \/ w \in toStart \cup toEnd
Pending(w) == (IF Open(w) THEN 1 ELSE 0) + (IF ending = w /\ task = "schedule" THEN 1 ELSE 0)

OccurrencesInv ==
    \A w \in Windows : Cardinality(Children(w)) + Pending(w) <= 1 + undone[w]

(* The series has its next occurrence after w, or ends there. *)
Settled(w) ==
    \/ Children(w) # {}
    \/ recurrence.frequency = "none"
    \/ /\ recurrence.until # None
       /\ now >= recurrence.until \/ NextStart(w) >= recurrence.until

Handled(w) == w \in interrupted \/ ending = w \/ (w \in reevaluated /\ Settled(w))

HandledInv ==
    /\ \A w \in Windows : status[w] = "completed" => Handled(w)
    /\ \A c \in Clients, w \in Windows :
         Holds(c, w) /\ request[c].status = "completed" => Handled(w)
    /\ task \in {"link", "reevaluate"} => Settled(ending)

(* Until its monitors are set, the occurrence just created has none of its own. *)
CloneInv ==
    clone # None => parent[clone] = ending /\ clone # ending /\ Children(clone) = {}

(* The cancellation of w, or of what a request read, is final. *)
Cancelled(w) ==
    \/ status[w] = "cancelled"
    \/ \E c \in Clients : Holds(c, w) /\ request[c].status = "cancelled"

CancelInv ==
    \A w \in Windows \ raced :
        Cancelled(w) =>
            /\ status[w] \in {"cancelled", "deleted"}
            /\ status[w] = "cancelled" => w \notin toStart \cup toEnd
            /\ \A c \in Clients : Holds(c, w) => request[c].status = "cancelled"

WindowsInv ==
    /\ TypeOK
    /\ FreshInv
    /\ PhaseInv
    /\ OccurrencesInv
    /\ HandledInv
    /\ CloneInv
    /\ CancelInv

LEMMA WindowsInvInit ==
    Init => WindowsInv
<1> SUFFICES ASSUME Init
             PROVE  WindowsInv
  OBVIOUS
<1>1. TypeOK
  BY TypeInit
<1>2. \A c \in Clients : request[c] = None
  BY DEF Init
<1>3. /\ toStart = {} /\ toEnd = {} /\ reevaluated = {} /\ phase = "idle"
      /\ ending = None /\ task = "none" /\ clone = None
  BY DEF Init
<1>4. \A w \in Windows : parent[w] = None /\ undone[w] = 0
                         /\ status[w] \in {"absent", "scheduled"}
  BY DEF Init
<1>5. \A w \in Windows : Children(w) = {}
  BY <1>4, NoneIsNone DEF Children
<1>6. FreshInv
  BY <1>2, <1>3, <1>4, <1>5, NoneIsNone DEF FreshInv, Fresh, Holds
<1>7. PhaseInv
  BY <1>3 DEF PhaseInv
<1>8. OccurrencesInv
  <2> SUFFICES ASSUME NEW w \in Windows
               PROVE  Cardinality(Children(w)) + Pending(w) <= 1 + undone[w]
    BY DEF OccurrencesInv
  <2>1. Cardinality(Children(w)) = 0
    BY <1>5, FS_EmptySet
  <2>2. Pending(w) \in {0, 1}
    BY <1>3 DEF Pending
  <2> QED  BY <1>4, <2>1, <2>2
<1>9. HandledInv
  BY <1>2, <1>3, <1>4 DEF HandledInv, Holds
<1>10. CloneInv
  BY <1>3 DEF CloneInv
<1>11. CancelInv
  BY <1>2, <1>4 DEF CancelInv, Cancelled, Holds
<1> QED  BY <1>1, <1>6, <1>7, <1>8, <1>9, <1>10, <1>11 DEF WindowsInv

(* A window once created stays, with its times and its origin; a deleted one  *)
(* does not come back.                                                        *)
LEMMA WindowsPersist ==
    ASSUME TypeOK, FreshInv, [Next]_vars, NEW w \in Windows, status[w] # "absent"
    PROVE  /\ status'[w] # "absent"
           /\ starts'[w] = starts[w]
           /\ parent'[w] = parent[w]
           /\ status[w] = "deleted" => status'[w] = "deleted"
<1>0. /\ status \in [Windows -> WindowStatus] /\ starts \in [Windows -> Nat]
      /\ parent \in [Windows -> Windows \cup {None}]
  BY DEF TypeOK
<1>1. ASSUME NEW v \in Windows, StartWindow(v)
      PROVE  status'[w] # "absent" /\ starts' = starts /\ parent' = parent
             /\ (status[w] = "deleted" => status'[w] = "deleted")
  BY <1>0, <1>1 DEF StartWindow, Exists, historyVars
<1>2. ASSUME NEW v \in Windows, CompleteWindow(v)
      PROVE  status'[w] # "absent" /\ starts' = starts /\ parent' = parent
             /\ (status[w] = "deleted" => status'[w] = "deleted")
  BY <1>0, <1>2 DEF CompleteWindow, Exists, historyVars
<1>3. ASSUME NEW v \in Windows, ScheduleNext(v)
      PROVE  status'[w] = status[w] /\ starts'[w] = starts[w] /\ parent'[w] = parent[w]
  BY <1>0, <1>3 DEF ScheduleNext
<1>4. ASSUME NEW c \in Clients, CancelWindow(c)
      PROVE  status'[w] # "absent" /\ starts' = starts /\ parent' = parent
             /\ (status[w] = "deleted" => status'[w] = "deleted")
  BY <1>0, <1>4 DEF CancelWindow, Answer, Exists
<1>5. ASSUME NEW c \in Clients, PatchWindow(c)
      PROVE  status'[w] # "absent" /\ starts' = starts /\ parent' = parent
             /\ (status[w] = "deleted" => status'[w] = "deleted")
  <2>1. request[c].status # "absent"
    BY <1>5 DEF PatchWindow, Answer, FreshInv
  <2> QED  BY <1>0, <1>5, <2>1 DEF PatchWindow, Answer, Exists
<1>6. ASSUME NEW v \in Windows, DeleteWindow(v)
      PROVE  status'[w] # "absent" /\ starts' = starts /\ parent' = parent
             /\ (status[w] = "deleted" => status'[w] = "deleted")
  BY <1>0, <1>6 DEF DeleteWindow, historyVars
<1>7. CASE \/ LoadStarting \/ LoadEnding \/ ScheduleNone \/ LinkClone \/ Reevaluate
           \/ EndRun \/ Crash \/ Tick \/ UNCHANGED vars
           \/ \E c \in Clients, op \in {"cancel", "patch"}, v \in Windows : ReadWindow(c, op, v)
  <2>1. status' = status /\ starts' = starts /\ parent' = parent
    BY <1>7 DEF LoadStarting, LoadEnding, ScheduleNone, LinkClone, Reevaluate, EndRun, Crash,
       Tick, ReadWindow, vars, rowVars, historyVars
  <2> QED  BY <2>1
<1> QED  BY <1>1, <1>2, <1>3, <1>4, <1>5, <1>6, <1>7 DEF Next, JobStep

LEMMA PhaseStep ==
    ASSUME TypeOK, PhaseInv, [Next]_vars
    PROVE  PhaseInv'
<1> USE DEF PhaseInv
<1>1. CASE LoadStarting
  BY <1>1 DEF LoadStarting, taskVars
<1>2. ASSUME NEW w \in Windows, StartWindow(w)
      PROVE  PhaseInv'
  BY <1>2 DEF StartWindow, AbortRun, taskVars
<1>3. CASE LoadEnding
  BY <1>3 DEF LoadEnding, taskVars
<1>4. ASSUME NEW w \in Windows, CompleteWindow(w)
      PROVE  PhaseInv'
  BY <1>4 DEF CompleteWindow, AbortRun
<1>5. ASSUME NEW w \in Windows, ScheduleNext(w)
      PROVE  PhaseInv'
  BY <1>5 DEF ScheduleNext
<1>6. CASE ScheduleNone \/ LinkClone \/ Reevaluate
  BY <1>6 DEF ScheduleNone, LinkClone, Reevaluate
<1>7. CASE EndRun \/ Crash
  BY <1>7 DEF EndRun, Crash, AbortRun, taskVars
<1>8. ASSUME UNCHANGED <<phase, toStart, toEnd, ending>>
      PROVE  PhaseInv'
  BY <1>8
<1>9. CASE \/ Tick \/ UNCHANGED vars
           \/ \E c \in Clients, op \in {"cancel", "patch"}, v \in Windows : ReadWindow(c, op, v)
           \/ \E c \in Clients : CancelWindow(c) \/ PatchWindow(c)
           \/ \E w \in Windows : DeleteWindow(w)
  BY <1>8, <1>9 DEF Tick, vars, ReadWindow, CancelWindow, PatchWindow, Answer, DeleteWindow,
     jobVars, taskVars
<1> QED  BY <1>1, <1>2, <1>3, <1>4, <1>5, <1>6, <1>7, <1>9 DEF Next, JobStep

(* A request is answered or read, or the requests do not change. *)
LEMMA HoldsStep ==
    ASSUME TypeOK, NEW c \in Clients, NEW d \in Clients, NEW w \in Windows,
           CancelWindow(c) \/ PatchWindow(c)
    PROVE  Holds(d, w)' => d # c /\ Holds(d, w) /\ request'[d] = request[d]
BY DEF TypeOK, CancelWindow, PatchWindow, Answer, Holds

LEMMA ReadStep ==
    ASSUME TypeOK, NEW c \in Clients, NEW op \in {"cancel", "patch"}, NEW v \in Windows,
           ReadWindow(c, op, v), NEW d \in Clients, NEW w \in Windows, Holds(d, w)'
    PROVE  \/ Holds(d, w) /\ request'[d] = request[d]
           \/ d = c /\ w = v /\ request'[d].status = status[w]
<1> DEFINE r == [op |-> op, window |-> v, status |-> status[v]]
<1>1. r.window = v /\ r.status = status[v]
  OBVIOUS
<1> HIDE DEF r
<1>2. request' = [request EXCEPT ![c] = r]
  BY DEF ReadWindow, r
<1>3. request \in [Clients -> Requests \cup {None}]
  BY DEF TypeOK
<1>4. CASE d = c
  BY <1>1, <1>2, <1>3, <1>4 DEF Holds
<1>5. CASE d # c
  BY <1>2, <1>3, <1>5 DEF Holds
<1> QED  BY <1>4, <1>5

LEMMA ParentStep ==
    ASSUME [Next]_vars, \A v \in Windows : ~ScheduleNext(v)
    PROVE  parent' = parent
BY DEF Next, JobStep, LoadStarting, StartWindow, LoadEnding, CompleteWindow, ScheduleNone,
   LinkClone, Reevaluate, EndRun, Crash, Tick, ReadWindow, CancelWindow, PatchWindow, Answer,
   DeleteWindow, vars, historyVars

(* Only schedule_next_occurrence gives a window a next occurrence. *)
LEMMA ChildrenStep ==
    ASSUME TypeOK, FreshInv, [Next]_vars, NEW w \in Windows
    PROVE  \/ Children(w)' = Children(w)
           \/ \E v \in Windows : /\ ScheduleNext(v) /\ w = ending
                                 /\ v \notin Children(w)
                                 /\ Children(w)' = Children(w) \cup {v}
<1>1. CASE \A v \in Windows : ~ScheduleNext(v)
  BY <1>1, ParentStep DEF Children
<1>2. ASSUME NEW v \in Windows, ScheduleNext(v)
      PROVE  IF w = ending THEN v \notin Children(w) /\ Children(w)' = Children(w) \cup {v}
                           ELSE Children(w)' = Children(w)
  <2>1. /\ parent \in [Windows -> Windows \cup {None}]
        /\ parent' = [parent EXCEPT ![v] = ending]
    BY <1>2 DEF TypeOK, ScheduleNext
  <2>2. parent[v] = None
    BY <1>2 DEF ScheduleNext, FreshInv, Fresh
  <2> QED  BY <2>1, <2>2, NoneIsNone DEF Children
<1> QED  BY <1>1, <1>2

LEMMA RequestsStep ==
    ASSUME [Next]_vars
    PROVE  \/ request' = request
           \/ \E c \in Clients : CancelWindow(c) \/ PatchWindow(c)
           \/ \E c \in Clients, op \in {"cancel", "patch"}, v \in Windows : ReadWindow(c, op, v)
BY DEF Next, JobStep, LoadStarting, StartWindow, LoadEnding, CompleteWindow, ScheduleNext,
   ScheduleNone, LinkClone, Reevaluate, EndRun, Crash, Tick, DeleteWindow, vars, clientVars

LEMMA FreshStep ==
    ASSUME TypeOK, FreshInv, [Next]_vars
    PROVE  FreshInv'
<1>1. ASSUME NEW w \in Windows, status'[w] = "absent"
      PROVE  status[w] = "absent" /\ Fresh(w)
  BY <1>1, WindowsPersist DEF FreshInv
<1>2. ASSUME NEW w \in Windows, status'[w] = "absent"
      PROVE  /\ w \notin toStart' \cup toEnd' \cup reevaluated'
             /\ ending' # w
  <2>1. status[w] = "absent" /\ w \notin toStart \cup toEnd \cup reevaluated /\ ending # w
    BY <1>1, <1>2 DEF Fresh
  <2>2. CASE LoadStarting
    BY <2>1, <2>2 DEF LoadStarting, taskVars, historyVars
  <2>3. ASSUME NEW v \in Windows, StartWindow(v)
        PROVE  w \notin toStart' \cup toEnd' \cup reevaluated' /\ ending' # w
    BY <2>1, <2>3 DEF StartWindow, AbortRun, taskVars, historyVars
  <2>4. CASE LoadEnding
    BY <2>1, <2>4 DEF LoadEnding, Overdue, taskVars, historyVars
  <2>5. ASSUME NEW v \in Windows, CompleteWindow(v)
        PROVE  w \notin toStart' \cup toEnd' \cup reevaluated' /\ ending' # w
    BY <2>1, <2>5 DEF CompleteWindow, AbortRun, historyVars
  <2>6. ASSUME NEW v \in Windows, ScheduleNext(v)
        PROVE  w \notin toStart' \cup toEnd' \cup reevaluated' /\ ending' # w
    BY <2>1, <2>6 DEF ScheduleNext
  <2>7. CASE Reevaluate
    BY <2>1, <2>7, NoneIsNone DEF Reevaluate
  <2>8. CASE EndRun \/ Crash
    BY <2>1, <2>8, NoneIsNone DEF EndRun, Crash, AbortRun, taskVars, historyVars
  <2>9. CASE \/ ScheduleNone \/ LinkClone \/ Tick \/ UNCHANGED vars
             \/ \E c \in Clients, op \in {"cancel", "patch"}, v \in Windows : ReadWindow(c, op, v)
             \/ \E c \in Clients : CancelWindow(c) \/ PatchWindow(c)
             \/ \E v \in Windows : DeleteWindow(v)
    <3>1. UNCHANGED <<toStart, toEnd, reevaluated, ending>>
      BY <2>9 DEF ScheduleNone, LinkClone, Tick, vars, ReadWindow, CancelWindow, PatchWindow,
         Answer, DeleteWindow, jobVars, taskVars, historyVars
    <3> QED  BY <2>1, <3>1
  <2> QED  BY <2>2, <2>3, <2>4, <2>5, <2>6, <2>7, <2>8, <2>9 DEF Next, JobStep
<1>3. ASSUME NEW w \in Windows, status'[w] = "absent"
      PROVE  parent'[w] = None /\ Children(w)' = {}
  <2>1. status[w] = "absent" /\ parent[w] = None /\ Children(w) = {} /\ ending # w
    BY <1>1, <1>3 DEF Fresh
  <2>2. parent'[w] = None
    <3>1. CASE \A v \in Windows : ~ScheduleNext(v)
      BY <2>1, <3>1, ParentStep
    <3>2. ASSUME NEW v \in Windows, ScheduleNext(v)
          PROVE  parent'[w] = None
      <4>1. v # w
        BY <1>3, <3>2 DEF ScheduleNext, TypeOK
      <4> QED  BY <2>1, <3>2, <4>1 DEF ScheduleNext, TypeOK
    <3> QED  BY <3>1, <3>2
  <2> QED  BY <2>1, <2>2, ChildrenStep
<1>4. ASSUME NEW d \in Clients
      PROVE  /\ request'[d] # None => request'[d].status # "absent"
             /\ \A w \in Windows : status'[w] = "absent" => ~Holds(d, w)'
  <2>1. ASSUME NEW c \in Clients, CancelWindow(c) \/ PatchWindow(c)
        PROVE  /\ request'[d] # None => request'[d].status # "absent"
               /\ \A w \in Windows : status'[w] = "absent" => ~Holds(d, w)'
    <3>1. (d = c /\ request'[d] = None) \/ request'[d] = request[d]
      BY <2>1 DEF TypeOK, CancelWindow, PatchWindow, Answer
    <3> QED  BY <1>1, <3>1 DEF FreshInv, Fresh, Holds
  <2>2. ASSUME NEW c \in Clients, NEW op \in {"cancel", "patch"}, NEW v \in Windows,
               ReadWindow(c, op, v)
        PROVE  /\ request'[d] # None => request'[d].status # "absent"
               /\ \A w \in Windows : status'[w] = "absent" => ~Holds(d, w)'
    <3>1. status[v] # "absent" /\ status' = status
      BY <2>2 DEF ReadWindow, Exists, rowVars
    <3>2. request'[d] # None => request'[d] = request[d] \/ request'[d].status = status[v]
      BY <2>2 DEF TypeOK, ReadWindow
    <3>3. ASSUME NEW w \in Windows, status'[w] = "absent", Holds(d, w)'
          PROVE  FALSE
      <4>1. ~Holds(d, w)
        BY <1>1, <3>3 DEF Fresh
      <4> QED  BY <2>2, <3>1, <3>3, <4>1, ReadStep
    <3> QED  BY <3>1, <3>2, <3>3 DEF FreshInv
  <2>3. ASSUME request' = request
        PROVE  /\ request'[d] # None => request'[d].status # "absent"
               /\ \A w \in Windows : status'[w] = "absent" => ~Holds(d, w)'
    BY <1>1, <2>3 DEF FreshInv, Fresh, Holds
  <2>4. \/ request' = request
        \/ \E c \in Clients : CancelWindow(c) \/ PatchWindow(c)
        \/ \E c \in Clients, op \in {"cancel", "patch"}, v \in Windows : ReadWindow(c, op, v)
    BY RequestsStep
  <2> QED  BY <2>1, <2>2, <2>3, <2>4
<1> QED  BY <1>2, <1>3, <1>4 DEF FreshInv, Fresh

LEMMA ChildrenCount ==
    ASSUME NEW w \in Windows
    PROVE  IsFiniteSet(Children(w)) /\ Cardinality(Children(w)) \in Nat
<1>1. IsFiniteSet(Windows)
  BY WindowsAssumption, FS_Interval DEF Windows
<1>2. Children(w) \subseteq Windows
  BY DEF Children
<1> QED  BY <1>1, <1>2, FS_Subset, FS_CardinalityType

(* Completing a window, and only that, trades an open window for a completion *)
(* to handle; a request makes a completed window open only when it saves over *)
(* the completion.                                                            *)
LEMMA PendingStep ==
    ASSUME TypeOK, FreshInv, PhaseInv, [Next]_vars, NEW w \in Windows,
           \A v \in Windows : ~ScheduleNext(v)
    PROVE  Pending(w)' - Pending(w) <= undone'[w] - undone[w]
<1>0. /\ status \in [Windows -> WindowStatus] /\ undone \in [Windows -> Nat]
  BY DEF TypeOK
<1>1. /\ Pending(w) = (IF Open(w) THEN 1 ELSE 0) + (IF ending = w /\ task = "schedule" THEN 1 ELSE 0)
      /\ Pending(w)' = (IF Open(w)' THEN 1 ELSE 0) + (IF ending' = w /\ task' = "schedule" THEN 1 ELSE 0)
  BY DEF Pending
<1>2. ASSUME undone'[w] = undone[w], Open(w)' => Open(w),
             ending' = w /\ task' = "schedule" => ending = w /\ task = "schedule"
      PROVE  Pending(w)' - Pending(w) <= undone'[w] - undone[w]
  BY <1>0, <1>1, <1>2
<1>3. CASE LoadStarting
  BY <1>2, <1>3 DEF LoadStarting, Open, rowVars, taskVars, historyVars
<1>4. ASSUME NEW v \in Windows, StartWindow(v)
      PROVE  Pending(w)' - Pending(w) <= undone'[w] - undone[w]
  <2>1. Open(w)' => Open(w)
    BY <1>0, <1>4 DEF StartWindow, AbortRun, Open
  <2> QED  BY <1>2, <1>4, <2>1 DEF StartWindow, taskVars, historyVars
<1>5. CASE LoadEnding
  BY <1>2, <1>5 DEF LoadEnding, Overdue, Open, rowVars, taskVars, historyVars
<1>6. ASSUME NEW v \in Windows, CompleteWindow(v)
      PROVE  Pending(w)' - Pending(w) <= undone'[w] - undone[w]
  <2>1. CASE Exists(v) /\ v = w
    <3>1. toStart' = {} /\ w \in toEnd /\ w \notin toEnd' /\ status'[w] = "completed"
      BY <1>0, <1>6, <2>1 DEF CompleteWindow, PhaseInv
    <3>2. Open(w) /\ ~Open(w)'
      BY <3>1 DEF Open
    <3>3. undone' = undone /\ ending # w
      BY <1>6, NoneIsNone DEF CompleteWindow, historyVars
    <3> QED  BY <1>0, <1>1, <3>2, <3>3
  <2>2. CASE Exists(v) /\ v # w
    <3>1. Open(w)' => Open(w)
      BY <1>0, <1>6, <2>2 DEF CompleteWindow, Open
    <3> QED  BY <1>2, <1>6, <2>2, <3>1 DEF CompleteWindow, historyVars
  <2>3. CASE ~Exists(v)
    <3>1. Open(w)' => Open(w)
      BY <1>6, <2>3 DEF CompleteWindow, AbortRun, Open
    <3> QED  BY <1>2, <1>6, <2>3, <3>1 DEF CompleteWindow, historyVars
  <2> QED  BY <2>1, <2>2, <2>3
<1>7. CASE ScheduleNone \/ LinkClone \/ Reevaluate
  BY <1>2, <1>7 DEF ScheduleNone, LinkClone, Reevaluate, Open, rowVars, historyVars
<1>8. CASE EndRun
  BY <1>2, <1>8 DEF EndRun, AbortRun, Open, rowVars, taskVars, historyVars
<1>9. CASE Crash
  BY <1>2, <1>9 DEF Crash, AbortRun, Open, rowVars
<1>10. CASE \/ Tick \/ UNCHANGED vars
            \/ \E c \in Clients, op \in {"cancel", "patch"}, v \in Windows : ReadWindow(c, op, v)
  BY <1>2, <1>10 DEF Tick, vars, ReadWindow, Open, rowVars, jobVars, taskVars, historyVars
<1>11. ASSUME NEW c \in Clients, CancelWindow(c) \/ PatchWindow(c)
       PROVE  Pending(w)' - Pending(w) <= undone'[w] - undone[w]
  <2>1. UNCHANGED <<toStart, toEnd, ending, task>>
    BY <1>11 DEF CancelWindow, PatchWindow, Answer, jobVars, taskVars
  <2>2. /\ undone'[w] \in {undone[w], undone[w] + 1}
        /\ undone'[w] = undone[w] => status'[w] = status[w] \/ status[w] # "completed"
                                     \/ status'[w] = "completed"
        /\ status[w] = "deleted" => status'[w] = "deleted"
    BY <1>0, <1>11 DEF CancelWindow, PatchWindow, Answer, Exists
  <2>3. status[w] \in {"absent", "scheduled", "in_progress", "cancelled", "completed", "deleted"}
    BY <1>0 DEF WindowStatus
  <2>4. undone'[w] = undone[w] /\ Open(w)' => Open(w)
    BY <2>1, <2>2, <2>3 DEF Open
  <2> QED  BY <1>0, <1>1, <2>1, <2>2, <2>4
<1>12. ASSUME NEW v \in Windows, DeleteWindow(v)
       PROVE  Pending(w)' - Pending(w) <= undone'[w] - undone[w]
  <2>1. Open(w)' => Open(w)
    BY <1>0, <1>12 DEF DeleteWindow, Open, jobVars
  <2> QED  BY <1>2, <1>12, <2>1 DEF DeleteWindow, jobVars, taskVars, historyVars
<1> QED
  BY <1>3, <1>4, <1>5, <1>6, <1>7, <1>8, <1>9, <1>10, <1>11, <1>12 DEF Next, JobStep

LEMMA OccurrencesStep ==
    ASSUME TypeOK, FreshInv, PhaseInv, OccurrencesInv, [Next]_vars
    PROVE  OccurrencesInv'
<1> SUFFICES ASSUME NEW w \in Windows
             PROVE  Cardinality(Children(w)') + Pending(w)' <= 1 + undone'[w]
  BY DEF OccurrencesInv
<1>1. /\ Cardinality(Children(w)) \in Nat /\ Pending(w) \in 0 .. 2 /\ Pending(w)' \in 0 .. 2
      /\ undone[w] \in Nat /\ Cardinality(Children(w)) + Pending(w) <= 1 + undone[w]
  BY ChildrenCount DEF OccurrencesInv, Pending, TypeOK
<1>2. undone'[w] \in Nat
  BY TypeStep DEF TypeOK
<1>3. CASE \A v \in Windows : ~ScheduleNext(v)
  <2>1. Children(w)' = Children(w)
    BY <1>3, ParentStep DEF Children
  <2>2. Pending(w)' - Pending(w) <= undone'[w] - undone[w]
    BY <1>3, PendingStep
  <2> QED  BY <1>1, <1>2, <2>1, <2>2
<1>4. ASSUME NEW v \in Windows, ScheduleNext(v)
      PROVE  Cardinality(Children(w)') + Pending(w)' <= 1 + undone'[w]
  <2>1. /\ status[v] = "absent" /\ status' = [status EXCEPT ![v] = "scheduled"]
        /\ UNCHANGED <<toStart, toEnd, ending, undone>>
        /\ task = "schedule" /\ task' = "link"
    BY <1>4 DEF ScheduleNext
  <2>2. ending # v
    BY <2>1 DEF FreshInv, Fresh
  <2>3. Open(w)' => Open(w)
    BY <2>1 DEF TypeOK, Open
  <2>4. CASE w = ending
    <3>1. v \notin Children(w) /\ Children(w)' = Children(w) \cup {v}
      <4>1. parent[v] = None /\ parent' = [parent EXCEPT ![v] = ending]
        BY <1>4, <2>1 DEF ScheduleNext, FreshInv, Fresh
      <4> QED  BY <2>4, <4>1, NoneIsNone DEF Children, TypeOK
    <3>2. Cardinality(Children(w)') = Cardinality(Children(w)) + 1
      BY <3>1, ChildrenCount, FS_AddElement
    <3>3. Pending(w)' <= Pending(w) - 1
      BY <2>1, <2>3, <2>4 DEF Pending
    <3> QED  BY <1>1, <2>1, <3>2, <3>3
  <2>5. CASE w # ending
    <3>1. Children(w)' = Children(w)
      BY <2>5, ChildrenStep
    <3>2. Pending(w)' <= Pending(w)
      BY <2>1, <2>3, <2>5 DEF Pending
    <3> QED  BY <1>1, <2>1, <3>1, <3>2
  <2> QED  BY <2>4, <2>5
<1> QED  BY <1>3, <1>4

LEMMA ClockStep ==
    ASSUME TypeOK, [Next]_vars
    PROVE  recurrence' = recurrence /\ now' >= now /\ now \in Nat /\ now' \in Nat
<1>1. recurrence' = recurrence /\ now' \in {now, now + 1}
  BY DEF Next, JobStep, LoadStarting, StartWindow, LoadEnding, CompleteWindow, ScheduleNext,
     ScheduleNone, LinkClone, Reevaluate, EndRun, Crash, Tick, ReadWindow, CancelWindow,
     PatchWindow, Answer, DeleteWindow, vars
<1>2. now \in Nat
  BY WindowsAssumption DEF TypeOK
<1> QED  BY <1>1, <1>2

LEMMA NextStartStays ==
    ASSUME NEW w \in Windows, recurrence' = recurrence, starts'[w] = starts[w]
    PROVE  NextStart(w)' = NextStart(w)
<1>1. Interval' = Interval /\ SelectedWeekdays(starts[w])' = SelectedWeekdays(starts[w])
  BY DEF Interval, SelectedWeekdays
<1>2. NextWeekly(w)' = NextWeekly(w)
  BY <1>1 DEF NextWeekly
<1>3. AddMonths(starts[w], Interval)' = AddMonths(starts[w], Interval)
  BY <1>1 DEF AddMonths
<1> QED  BY <1>1, <1>2, <1>3 DEF NextStart

(* Once the series is settled after a window, it stays so. *)
LEMMA SettledStep ==
    ASSUME TypeOK, FreshInv, [Next]_vars, NEW w \in Windows, status[w] # "absent", Settled(w)
    PROVE  Settled(w)'
<1>1. Children(w) # {} => Children(w)' # {}
  BY ChildrenStep
<1>2. recurrence' = recurrence /\ now' >= now /\ now \in Nat /\ now' \in Nat
  BY ClockStep
<1>3. NextStart(w)' = NextStart(w)
  BY <1>2, WindowsPersist, NextStartStays
<1>4. recurrence.until \in Nat \cup {None}
  BY Settings DEF TypeOK
<1> QED  BY <1>1, <1>2, <1>3, <1>4 DEF Settled

(* The completion being handled goes on, is done, or is cut short. *)
LEMMA EndingStep ==
    ASSUME TypeOK, [Next]_vars, NEW w \in Windows, ending = w
    PROVE  \/ ending' = w
           \/ task = "reevaluate" /\ w \in reevaluated'
           \/ w \in interrupted'
BY NoneIsNone DEF TypeOK, Next, JobStep, LoadStarting, StartWindow, LoadEnding, CompleteWindow,
   ScheduleNext, ScheduleNone, LinkClone, Reevaluate, EndRun, Crash, Tick, ReadWindow,
   CancelWindow, PatchWindow, Answer, DeleteWindow, vars, jobVars, taskVars

LEMMA HistoryGrows ==
    ASSUME [Next]_vars
    PROVE  reevaluated \subseteq reevaluated' /\ interrupted \subseteq interrupted'
BY DEF Next, JobStep, LoadStarting, StartWindow, LoadEnding, CompleteWindow, ScheduleNext,
   ScheduleNone, LinkClone, Reevaluate, EndRun, Crash, Tick, ReadWindow, CancelWindow,
   PatchWindow, Answer, DeleteWindow, vars, historyVars

LEMMA StaysHandled ==
    ASSUME TypeOK, FreshInv, HandledInv, [Next]_vars,
           NEW w \in Windows, status[w] # "absent", Handled(w)
    PROVE  Handled(w)'
<1>1. CASE w \in interrupted \/ (w \in reevaluated /\ Settled(w))
  BY <1>1, HistoryGrows, SettledStep DEF Handled
<1>2. CASE ending = w
  <2>1. task = "reevaluate" => Settled(w)'
    BY <1>2, SettledStep DEF HandledInv
  <2> QED  BY <1>2, <2>1, EndingStep DEF Handled
<1> QED  BY <1>1, <1>2 DEF Handled

(* A window becomes completed by the job, or by a PATCH that read it so. *)
LEMMA CompletedStep ==
    ASSUME TypeOK, [Next]_vars, NEW w \in Windows, status'[w] = "completed"
    PROVE  \/ status[w] = "completed"
           \/ ending' = w
           \/ \E c \in Clients : Holds(c, w) /\ request[c].status = "completed"
<1>0. status \in [Windows -> WindowStatus]
  BY DEF TypeOK
<1>1. ASSUME NEW v \in Windows, StartWindow(v) \/ ScheduleNext(v) \/ DeleteWindow(v)
      PROVE  status[w] = "completed"
  BY <1>0, <1>1 DEF StartWindow, ScheduleNext, DeleteWindow
<1>2. ASSUME NEW v \in Windows, CompleteWindow(v)
      PROVE  status[w] = "completed" \/ ending' = w
  BY <1>0, <1>2 DEF CompleteWindow
<1>3. ASSUME NEW c \in Clients, CancelWindow(c)
      PROVE  status[w] = "completed"
  BY <1>0, <1>3 DEF CancelWindow
<1>4. ASSUME NEW c \in Clients, PatchWindow(c)
      PROVE  status[w] = "completed" \/ (Holds(c, w) /\ request[c].status = "completed")
  BY <1>0, <1>4 DEF PatchWindow, Answer, Holds
<1>5. CASE \/ LoadStarting \/ LoadEnding \/ ScheduleNone \/ LinkClone \/ Reevaluate
           \/ EndRun \/ Crash \/ Tick \/ UNCHANGED vars
           \/ \E c \in Clients, op \in {"cancel", "patch"}, v \in Windows : ReadWindow(c, op, v)
  BY <1>5 DEF LoadStarting, LoadEnding, ScheduleNone, LinkClone, Reevaluate, EndRun, Crash,
     Tick, ReadWindow, vars, rowVars
<1> QED  BY <1>1, <1>2, <1>3, <1>4, <1>5 DEF Next, JobStep

LEMMA HandledStep ==
    ASSUME TypeOK, FreshInv, HandledInv, [Next]_vars
    PROVE  HandledInv'
<1>1. ASSUME NEW w \in Windows, NEW c \in Clients, Holds(c, w), request[c].status = "completed"
      PROVE  Handled(w)'
  <2>1. status[w] # "absent"
    BY <1>1 DEF FreshInv, Fresh
  <2> QED  BY <1>1, <2>1, StaysHandled DEF HandledInv
<1>2. ASSUME NEW w \in Windows, status[w] = "completed"
      PROVE  Handled(w)'
  BY <1>2, StaysHandled DEF HandledInv
<1>3. ASSUME NEW w \in Windows, status'[w] = "completed"
      PROVE  Handled(w)'
  <2>1. ending' = w => Handled(w)'
    BY DEF Handled
  <2> QED  BY <1>1, <1>2, <1>3, <2>1, CompletedStep
<1>4. ASSUME NEW d \in Clients, NEW w \in Windows, Holds(d, w)', request'[d].status = "completed"
      PROVE  Handled(w)'
  <2>1. ASSUME NEW c \in Clients, CancelWindow(c) \/ PatchWindow(c)
        PROVE  Handled(w)'
    BY <1>1, <1>4, <2>1, HoldsStep
  <2>2. ASSUME NEW c \in Clients, NEW op \in {"cancel", "patch"}, NEW v \in Windows,
               ReadWindow(c, op, v)
        PROVE  Handled(w)'
    BY <1>1, <1>2, <1>4, <2>2, ReadStep
  <2>3. CASE request' = request
    BY <1>1, <1>4, <2>3 DEF Holds
  <2> QED  BY <2>1, <2>2, <2>3, RequestsStep
<1>5. ASSUME task' \in {"link", "reevaluate"}
      PROVE  Settled(ending)'
  <2>1. ASSUME NEW v \in Windows, ScheduleNext(v)
        PROVE  Settled(ending)'
    <3>1. v \in Children(ending)'
      BY <2>1 DEF ScheduleNext, Children, TypeOK
    <3> QED  BY <3>1 DEF Settled
  <2>2. CASE ScheduleNone
    <3>1. /\ ending \in Windows /\ ending' = ending
          /\ recurrence' = recurrence /\ now' = now /\ starts' = starts
      BY <2>2 DEF ScheduleNone, TypeOK, rowVars
    <3>2. /\ recurrence.until \in Nat \cup {None} /\ now \in Nat
          /\ recurrence.frequency # "none" => NextStart(ending) \in Nat
      BY <3>1, Settings, NextStartIsNat, ClockStep DEF TypeOK
    <3>3. Settled(ending)
      BY <2>2, <3>2 DEF ScheduleNone, Recurs, Settled
    <3>4. status[ending] # "absent"
      BY <3>1 DEF FreshInv, Fresh
    <3> QED  BY <3>1, <3>3, <3>4, SettledStep
  <2>3. CASE task \in {"link", "reevaluate"} /\ ending' = ending
    <3>1. ending \in Windows /\ status[ending] # "absent" /\ Settled(ending)
      BY <2>3 DEF TypeOK, FreshInv, Fresh, HandledInv
    <3> QED  BY <2>3, <3>1, SettledStep
  <2>4. \/ \E v \in Windows : ScheduleNext(v)
        \/ ScheduleNone
        \/ task \in {"link", "reevaluate"} /\ ending' = ending
    BY <1>5 DEF TypeOK, Next, JobStep, LoadStarting, StartWindow, LoadEnding, CompleteWindow,
       LinkClone, Reevaluate, EndRun, Crash, Tick, ReadWindow, CancelWindow, PatchWindow,
       Answer, DeleteWindow, vars, jobVars, taskVars
  <2> QED  BY <2>1, <2>2, <2>3, <2>4
<1> QED  BY <1>3, <1>4, <1>5 DEF HandledInv

LEMMA CloneStep ==
    ASSUME TypeOK, FreshInv, CloneInv, [Next]_vars
    PROVE  CloneInv'
<1>1. ASSUME NEW v \in Windows, ScheduleNext(v)
      PROVE  CloneInv'
  <2>1. /\ clone' = v /\ ending' = ending /\ parent'[v] = ending
        /\ Children(v) = {} /\ ending # v
    BY <1>1 DEF ScheduleNext, TypeOK, FreshInv, Fresh
  <2>2. Children(v)' = {}
    BY <2>1, ChildrenStep
  <2>3. Children(clone)' = {}
    BY <2>1, <2>2 DEF Children
  <2> QED  BY <2>1, <2>3 DEF CloneInv
<1>2. ASSUME \A v \in Windows : ~ScheduleNext(v), clone' # None
      PROVE  clone' = clone /\ ending' = ending /\ parent' = parent
  <2>1. clone' = clone /\ ending' = ending
    BY <1>2, NoneIsNone DEF TypeOK, Next, JobStep, LoadStarting, StartWindow, LoadEnding,
       CompleteWindow, ScheduleNone, LinkClone, Reevaluate, EndRun, Crash, Tick, ReadWindow,
       CancelWindow, PatchWindow, Answer, DeleteWindow, vars, jobVars, taskVars
  <2> QED  BY <1>2, <2>1, ParentStep
<1>3. CASE \A v \in Windows : ~ScheduleNext(v)
  BY <1>2, <1>3 DEF CloneInv, Children
<1> QED  BY <1>1, <1>3

(* What a cancelled window, or a request that read it so, needs to stay so. *)
LEMMA CancelStep ==
    ASSUME TypeOK, FreshInv, CancelInv, [Next]_vars
    PROVE  CancelInv'
<1> DEFINE Kept(w) ==
      /\ status[w] \in {"cancelled", "deleted"}
      /\ status[w] = "cancelled" => w \notin toStart \cup toEnd
      /\ \A c \in Clients : Holds(c, w) => request[c].status = "cancelled"
<1> SUFFICES ASSUME NEW w \in Windows \ raced', Cancelled(w)'
             PROVE  Kept(w)'
  BY DEF CancelInv
<1>0. /\ status \in [Windows -> WindowStatus]
      /\ request \in [Clients -> Requests \cup {None}]
  BY DEF TypeOK
<1>1. w \notin raced
  BY DEF Next, JobStep, LoadStarting, StartWindow, LoadEnding, CompleteWindow, ScheduleNext,
     ScheduleNone, LinkClone, Reevaluate, EndRun, Crash, Tick, ReadWindow, CancelWindow,
     PatchWindow, Answer, DeleteWindow, vars, historyVars
<1>2. Cancelled(w) => Kept(w)
  BY <1>1 DEF CancelInv
<1>3. ASSUME request' = request, status'[w] = "cancelled" => status[w] = "cancelled"
      PROVE  Cancelled(w) /\ Kept(w) /\ \A c \in Clients : Holds(c, w)' <=> Holds(c, w)
  BY <1>2, <1>3 DEF Cancelled, Holds
<1>4. CASE LoadStarting
  BY <1>3, <1>4 DEF LoadStarting, rowVars, clientVars
<1>5. ASSUME NEW v \in Windows, StartWindow(v)
      PROVE  Kept(w)'
  <2>1. request' = request /\ (status'[w] = "cancelled" => status[w] = "cancelled")
    BY <1>0, <1>5 DEF StartWindow, clientVars
  <2>2. Kept(w) /\ \A c \in Clients : Holds(c, w)' <=> Holds(c, w)
    BY <1>3, <2>1
  <2>3. status'[w] = status[w] /\ toStart' \subseteq toStart /\ toEnd' \subseteq toEnd
    BY <1>0, <1>5, <2>2 DEF StartWindow, AbortRun, Exists
  <2> QED  BY <2>1, <2>2, <2>3
<1>6. CASE LoadEnding
  BY <1>3, <1>6 DEF LoadEnding, Overdue, rowVars, clientVars
<1>7. ASSUME NEW v \in Windows, CompleteWindow(v)
      PROVE  Kept(w)'
  <2>1. request' = request /\ (status'[w] = "cancelled" => status[w] = "cancelled")
    BY <1>0, <1>7 DEF CompleteWindow, clientVars
  <2>2. Kept(w) /\ \A c \in Clients : Holds(c, w)' <=> Holds(c, w)
    BY <1>3, <2>1
  <2>3. status'[w] = status[w] /\ toStart' \subseteq toStart /\ toEnd' \subseteq toEnd
    BY <1>0, <1>7, <2>2 DEF CompleteWindow, AbortRun, Exists
  <2> QED  BY <2>1, <2>2, <2>3
<1>8. ASSUME NEW v \in Windows, ScheduleNext(v)
      PROVE  Kept(w)'
  <2>1. /\ request' = request /\ (status'[w] = "cancelled" => status[w] = "cancelled")
        /\ UNCHANGED <<toStart, toEnd>>
        /\ status[v] = "absent" /\ status' = [status EXCEPT ![v] = "scheduled"]
    BY <1>0, <1>8 DEF ScheduleNext, clientVars
  <2>2. Kept(w) /\ \A c \in Clients : Holds(c, w)' <=> Holds(c, w)
    BY <1>3, <2>1
  <2>3. status'[w] = status[w]
    BY <1>0, <2>1, <2>2
  <2> QED  BY <2>1, <2>2, <2>3
<1>9. CASE ScheduleNone \/ LinkClone \/ Reevaluate \/ EndRun \/ Crash \/ Tick \/ UNCHANGED vars
  <2>1. /\ request' = request /\ status' = status
        /\ toStart' \subseteq toStart /\ toEnd' \subseteq toEnd
    BY <1>9 DEF ScheduleNone, LinkClone, Reevaluate, EndRun, Crash, Tick, AbortRun, vars,
       rowVars, clientVars, jobVars
  <2> QED  BY <1>3, <2>1
<1>10. ASSUME NEW c \in Clients, NEW op \in {"cancel", "patch"}, NEW v \in Windows,
              ReadWindow(c, op, v)
       PROVE  Kept(w)'
  <2>1. status' = status /\ UNCHANGED <<toStart, toEnd>>
    BY <1>10 DEF ReadWindow, rowVars, jobVars
  <2>2. Cancelled(w)
    BY <1>10, <2>1, ReadStep DEF Cancelled
  <2>3. status[w] \in {"cancelled", "deleted"}
    BY <1>2, <2>2
  <2>4. ASSUME NEW d \in Clients, Holds(d, w)'
        PROVE  request'[d].status = "cancelled"
    <3>1. d = c /\ w = v => status[w] # "deleted"
      BY <1>10 DEF ReadWindow, Exists
    <3> QED  BY <1>2, <1>10, <2>2, <2>3, <2>4, <3>1, ReadStep
  <2> QED  BY <1>2, <2>1, <2>2, <2>4
<1>11. ASSUME NEW c \in Clients, CancelWindow(c)
       PROVE  Kept(w)'
  <2>1. \A d \in Clients : Holds(d, w)' => d # c /\ Holds(d, w) /\ request'[d] = request[d]
    BY <1>11, HoldsStep
  <2>2. toStart' = toStart /\ toEnd' = toEnd
    BY <1>11 DEF CancelWindow, Answer, jobVars
  <2>3. CASE status'[w] = status[w]
    <3>1. Cancelled(w)
      BY <2>1, <2>3 DEF Cancelled
    <3> QED  BY <1>2, <2>1, <2>2, <2>3, <3>1
  <2>4. CASE status'[w] # status[w]
    <3>1. request[c].window = w /\ status'[w] = "cancelled"
      BY <1>0, <1>11, <2>4 DEF CancelWindow, Exists
    <3>2. w \notin toStart \cup toEnd /\ \A d \in Clients \ {c} : ~Holds(d, w)
      BY <1>11, <3>1 DEF CancelWindow, Holds
    <3> QED  BY <2>1, <2>2, <3>1, <3>2
  <2> QED  BY <2>3, <2>4
<1>12. ASSUME NEW c \in Clients, PatchWindow(c)
       PROVE  Kept(w)'
  <2>1. \A d \in Clients : Holds(d, w)' => d # c /\ Holds(d, w) /\ request'[d] = request[d]
    BY <1>12, HoldsStep
  <2>2. toStart' = toStart /\ toEnd' = toEnd
    BY <1>12 DEF PatchWindow, Answer, jobVars
  <2>3. \/ status'[w] = status[w]
        \/ Holds(c, w) /\ status'[w] = request[c].status /\ status[w] # "deleted"
    BY <1>0, <1>12 DEF PatchWindow, Answer, Holds, Exists
  <2>4. Cancelled(w)
    BY <2>1, <2>3 DEF Cancelled
  <2> QED  BY <1>2, <2>1, <2>2, <2>3, <2>4
<1>13. ASSUME NEW v \in Windows, DeleteWindow(v)
       PROVE  Kept(w)'
  <2>1. /\ request' = request /\ (status'[w] = "cancelled" => status[w] = "cancelled")
        /\ status'[w] \in {status[w], "deleted"}
        /\ UNCHANGED <<toStart, toEnd>>
    BY <1>0, <1>13 DEF DeleteWindow, jobVars
  <2> QED  BY <1>3, <2>1
<1> QED
  BY <1>4, <1>5, <1>6, <1>7, <1>8, <1>9, <1>10, <1>11, <1>12, <1>13 DEF Next, JobStep

LEMMA WindowsInvStep ==
    ASSUME WindowsInv, [Next]_vars
    PROVE  WindowsInv'
BY TypeStep, FreshStep, PhaseStep, OccurrencesStep, HandledStep, CloneStep, CancelStep
DEF WindowsInv

LEMMA WindowsInvHolds ==
    Spec => []WindowsInv
BY WindowsInvInit, WindowsInvStep, PTL DEF Spec

-----------------------------------------------------------------------------
(* What the job and the requests keep *)

(* A window has one next occurrence: the job completes it once, and only a     *)
(* request that saves an older status over the completion makes another        *)
(* completion, and with it another occurrence, possible.                       *)
THEOREM OneNextOccurrence ==
    Spec => []OneOccurrence
<1>1. WindowsInv => OneOccurrence
  <2> SUFFICES ASSUME WindowsInv, NEW w \in Windows
               PROVE  Cardinality(Children(w)) <= 1 + undone[w]
    BY DEF OneOccurrence
  <2>1. /\ Cardinality(Children(w)) \in Nat /\ Pending(w) \in 0 .. 2 /\ undone[w] \in Nat
        /\ Cardinality(Children(w)) + Pending(w) <= 1 + undone[w]
    BY ChildrenCount DEF WindowsInv, OccurrencesInv, Pending, TypeOK
  <2> QED  BY <2>1
<1> QED  BY <1>1, WindowsInvHolds, PTL

(* handle_maintenance_ended runs to its end for every completed window, or a   *)
(* crash cut it short.                                                         *)
THEOREM CompletionsAreHandled ==
    Spec => []CompletionIsHandled
<1>1. WindowsInv => CompletionIsHandled
  <2> SUFFICES ASSUME WindowsInv, NEW w \in Windows \ interrupted,
                      status[w] = "completed", ending # w
               PROVE  w \in reevaluated /\ Settled(w)
    BY DEF CompletionIsHandled, Settled
  <2> QED  BY DEF WindowsInv, HandledInv, Handled
<1> QED  BY <1>1, WindowsInvHolds, PTL

LEMMA CloneMonitorsStep ==
    ASSUME WindowsInv, CloneKeepsMonitors, [Next]_vars
    PROVE  CloneKeepsMonitors'
<1> SUFFICES ASSUME NEW w \in Windows \ interrupted', parent'[w] # None, clone' # w,
                    status'[parent'[w]] # "deleted", Exists(w)'
             PROVE  covers'[w] = covers'[parent'[w]]
  BY DEF CloneKeepsMonitors
<1> DEFINE p == parent[w]
<1>0. TypeOK /\ FreshInv /\ CloneInv
  BY DEF WindowsInv
<1>1. ASSUME NEW v \in Windows, ScheduleNext(v)
      PROVE  covers'[w] = covers'[parent'[w]]
  <2>1. w # v /\ covers' = covers /\ clone = None
    BY <1>0, <1>1 DEF ScheduleNext, TypeOK
  <2>2. parent'[w] = p /\ p # v /\ status'[p] = status[p] /\ status'[w] = status[w]
    BY <1>0, <1>1, <2>1 DEF ScheduleNext, TypeOK, FreshInv, Fresh, Children
  <2>3. w \notin interrupted
    BY HistoryGrows
  <2> QED  BY <2>1, <2>2, <2>3, NoneIsNone DEF CloneKeepsMonitors, Exists
<1>2. ASSUME \A v \in Windows : ~ScheduleNext(v)
      PROVE  covers'[w] = covers'[parent'[w]]
  <2>1. parent'[w] = p /\ p \in Windows /\ w \in Children(p) /\ w \notin interrupted
    BY <1>0, <1>2, ParentStep, HistoryGrows DEF TypeOK, Children
  <2>2. status[w] # "absent" /\ status[p] # "absent"
    BY <1>0, <2>1 DEF FreshInv, Fresh
  <2>3. Exists(w) /\ status[p] # "deleted"
    BY <1>0, <2>1, <2>2, WindowsPersist DEF Exists
  <2>4. CASE LinkClone /\ clone = w
    <3>1. p = ending /\ ending # w
      BY <1>0, <2>1, <2>4, NoneIsNone DEF CloneInv
    <3>2. covers' = [covers EXCEPT ![w] = covers[ending]]
      BY <2>2, <2>3, <2>4, <3>1 DEF LinkClone, Exists
    <3> QED  BY <1>0, <2>1, <3>1, <3>2 DEF TypeOK
  <2>5. CASE clone # w
    <3>1. covers[w] = covers[p]
      BY <2>1, <2>3, <2>5, NoneIsNone DEF CloneKeepsMonitors
    <3>2. covers'[w] = covers[w] /\ covers'[p] = covers[p]
      <4>1. CASE covers' = covers
        BY <4>1
      <4>2. CASE LinkClone
        <5>1. p # clone
          BY <1>0, <2>1, NoneIsNone DEF CloneInv
        <5> QED  BY <1>0, <2>1, <2>5, <4>2, <5>1 DEF LinkClone, TypeOK
      <4>3. covers' = covers \/ LinkClone
        BY DEF Next, JobStep, LoadStarting, StartWindow, LoadEnding, CompleteWindow,
           ScheduleNext, ScheduleNone, Reevaluate, EndRun, Crash, Tick, ReadWindow,
           CancelWindow, PatchWindow, Answer, DeleteWindow, vars, rowVars
      <4> QED  BY <4>1, <4>2, <4>3
    <3> QED  BY <2>1, <3>1, <3>2
  <2>6. clone = w => LinkClone
    BY <1>0, <1>2, NoneIsNone DEF TypeOK, Next, JobStep, LoadStarting, StartWindow, LoadEnding, CompleteWindow,
       ScheduleNone, Reevaluate, EndRun, Crash, Tick, ReadWindow, CancelWindow, PatchWindow,
       Answer, DeleteWindow, vars, jobVars, taskVars
  <2> QED  BY <2>4, <2>5, <2>6
<1> QED  BY <1>1, <1>2

(* The next occurrence covers the monitors of the one before, whatever is      *)
(* cancelled, edited or started meanwhile, except where a crash or a deletion  *)
(* hits between the creation of the clone and the setting of its monitors.     *)
THEOREM MonitorsAreKept ==
    Spec => []CloneKeepsMonitors
<1>1. Init => CloneKeepsMonitors
  BY DEF Init, CloneKeepsMonitors
<1>2. WindowsInv /\ CloneKeepsMonitors /\ [Next]_vars => CloneKeepsMonitors'
  BY CloneMonitorsStep
<1> QED  BY <1>1, <1>2, WindowsInvHolds, PTL DEF Spec

(* No run of the job starts or completes a cancelled window that it had not    *)
(* loaded, and no PATCH that had not read it before revives it.                *)
THEOREM CancellationHolds ==
    Spec => CancelHolds
<1>1. WindowsInv /\ WindowsInv' /\ [Next]_vars
      => [\A w \in Windows \ raced :
            status[w] = "cancelled" => status'[w] \in {"cancelled", "deleted"}]_vars
  <2> SUFFICES ASSUME WindowsInv, [Next]_vars, NEW w \in Windows \ raced,
                      status[w] = "cancelled"
               PROVE  status'[w] \in {"cancelled", "deleted"}
    OBVIOUS
  <2>1. /\ status \in [Windows -> WindowStatus] /\ w \notin toStart \cup toEnd
        /\ \A c \in Clients : Holds(c, w) => request[c].status = "cancelled"
    BY DEF WindowsInv, TypeOK, CancelInv, Cancelled
  <2>2. ASSUME NEW v \in Windows,
               StartWindow(v) \/ CompleteWindow(v) \/ ScheduleNext(v) \/ DeleteWindow(v)
        PROVE  status'[w] \in {"cancelled", "deleted"}
    BY <2>1, <2>2 DEF StartWindow, CompleteWindow, ScheduleNext, DeleteWindow
  <2>3. ASSUME NEW c \in Clients, CancelWindow(c) \/ PatchWindow(c)
        PROVE  status'[w] \in {"cancelled", "deleted"}
    BY <2>1, <2>3 DEF CancelWindow, PatchWindow, Answer, Holds
  <2>4. CASE \/ LoadStarting \/ LoadEnding \/ ScheduleNone \/ LinkClone \/ Reevaluate
             \/ EndRun \/ Crash \/ Tick \/ UNCHANGED vars
             \/ \E c \in Clients, op \in {"cancel", "patch"}, v \in Windows : ReadWindow(c, op, v)
    BY <2>4 DEF LoadStarting, LoadEnding, ScheduleNone, LinkClone, Reevaluate, EndRun, Crash,
       Tick, ReadWindow, vars, rowVars
  <2> QED  BY <2>2, <2>3, <2>4 DEF Next, JobStep
<1> QED  BY <1>1, WindowsInvHolds, PTL DEF Spec, CancelHolds

(* Whatever it is called on, schedule_next_occurrence computes a start in       *)
(* rhythm.                                                                     *)
LEMMA NextInRhythm ==
    ASSUME TypeOK, NEW p \in Windows, Recurs(p)
    PROVE  InRhythm(starts[p], NextStart(p))
<1> DEFINE from == starts[p]
           to == NextStart(p)
<1>1. from \in Nat /\ Interval \in Nat /\ recurrence \in Recurrences
  BY Settings DEF TypeOK
<1>2. recurrence.until # None => to < recurrence.until
  BY DEF Recurs
<1>3. recurrence.frequency = "daily" => to - from = Interval
  BY <1>1 DEF NextStart
<1>4. ASSUME recurrence.frequency = "weekly"
      PROVE  /\ to > from
             /\ \/ Weekday(to) \in SelectedWeekdays(from)
                \/ /\ SelectedWeekdays(from) \cap (0 .. WeekLength - 1) = {}
                   /\ to - from = Interval * WeekLength
             /\ \A day \in from + 1 .. to - 1 : Weekday(day) \notin SelectedWeekdays(from)
  <2>1. to = NextWeekly(p)
    BY <1>4 DEF NextStart
  <2> QED  BY <1>1, <2>1, WeeklyFacts
<1>5. ASSUME recurrence.frequency = "monthly"
      PROVE  /\ MonthOf(to) - MonthOf(from) = Interval
             /\ \/ DayOfMonth(to) = DayOfMonth(from)
                \/ /\ DayOfMonth(to) < DayOfMonth(from)
                   /\ DayOfMonth(to) = LengthOfMonth(MonthOf(to)) - 1
  <2>1. to = AddMonths(from, Interval)
    BY <1>5 DEF NextStart
  <2> HIDE DEF from, to
  <2>2. /\ MonthOf(from) \in Nat /\ MonthOf(to) = MonthOf(from) + Interval
        /\ \/ DayOfMonth(to) = DayOfMonth(from)
           \/ /\ DayOfMonth(to) < DayOfMonth(from)
              /\ DayOfMonth(to) = LengthOfMonth(MonthOf(from) + Interval) - 1
    BY <1>1, <2>1, AddMonthsFacts
  <2> QED  BY <1>1, <2>2
<1> QED  BY <1>2, <1>3, <1>4, <1>5 DEF InRhythm

LEMMA RhythmStep ==
    ASSUME WindowsInv, KeepsRhythm, [Next]_vars
    PROVE  KeepsRhythm'
<1>0. TypeOK /\ FreshInv /\ recurrence' = recurrence
  BY ClockStep DEF WindowsInv
<1> SUFFICES ASSUME NEW w \in Windows, parent'[w] # None
             PROVE  InRhythm(starts[parent[w]], starts[w])'
  BY DEF KeepsRhythm
<1> DEFINE p == parent[w]
<1>1. ASSUME NEW from, NEW to, starts'[parent'[w]] = from, starts'[w] = to, InRhythm(from, to)
      PROVE  InRhythm(starts[parent[w]], starts[w])'
  BY <1>0, <1>1 DEF InRhythm, Interval, SelectedWeekdays
<1>2. ASSUME NEW v \in Windows, ScheduleNext(v), w = v
      PROVE  InRhythm(starts[parent[w]], starts[w])'
  <2>1. /\ ending \in Windows /\ Recurs(ending)
        /\ starts'[w] = NextStart(ending) /\ parent'[w] = ending
    BY <1>0, <1>2 DEF ScheduleNext, TypeOK
  <2>2. status[ending] # "absent"
    BY <1>0, <2>1 DEF FreshInv, Fresh
  <2>3. starts'[ending] = starts[ending]
    BY <1>0, <2>1, <2>2, WindowsPersist
  <2>4. InRhythm(starts[ending], NextStart(ending))
    BY <1>0, <2>1, NextInRhythm
  <2> QED  BY <1>1, <2>1, <2>3, <2>4
<1>3. ASSUME \A v \in Windows : ScheduleNext(v) => w # v
      PROVE  InRhythm(starts[parent[w]], starts[w])'
  <2>1. parent'[w] = p
    <3>1. CASE \A v \in Windows : ~ScheduleNext(v)
      BY <3>1, ParentStep
    <3>2. ASSUME NEW v \in Windows, ScheduleNext(v)
          PROVE  parent'[w] = p
      BY <1>0, <1>3, <3>2 DEF ScheduleNext, TypeOK
    <3> QED  BY <3>1, <3>2
  <2>2. p \in Windows /\ status[w] # "absent" /\ status[p] # "absent"
    BY <1>0, <2>1 DEF TypeOK, FreshInv, Fresh, Children
  <2>3. starts'[w] = starts[w] /\ starts'[p] = starts[p]
    BY <1>0, <2>2, WindowsPersist
  <2>4. InRhythm(starts[p], starts[w])
    BY <2>1, <2>2 DEF KeepsRhythm
  <2> QED  BY <1>1, <2>1, <2>3, <2>4
<1> QED  BY <1>2, <1>3

(* _next_recurrence_start: the next occurrence is so many days later, on the   *)
(* first selected weekday, or so many months later on the same or the last day *)
(* of the month, and never past the end of the recurrence, for every calendar, *)
(* every recurrence and every start.                                           *)
THEOREM RhythmIsKept ==
    Spec => []KeepsRhythm
<1>1. Init => KeepsRhythm
  BY DEF Init, KeepsRhythm
<1>2. WindowsInv /\ KeepsRhythm /\ [Next]_vars => KeepsRhythm'
  BY RhythmStep
<1> QED  BY <1>1, <1>2, WindowsInvHolds, PTL DEF Spec
===============================================================================
