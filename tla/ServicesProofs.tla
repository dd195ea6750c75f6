--------------------------- MODULE ServicesProofs ---------------------------
(***************************************************************************)
(* What the server's services promise holds for any number of concurrent    *)
(* calls, keys, quotas, rows and configurations: the admission of runs, the *)
(* identity of wallets, the issuance of credentials, and the list of runs.  *)
(***************************************************************************)
EXTENDS RunAdmission, WalletSessions, AccountIssuance, RunListing, FiniteSetTheorems,
        SequenceTheorems, TLAPS

---------------------------------------------------------------------------
(* Admission of runs.                                                      *)

AdmittedKeys == {k \in Keys : runs[k] # None}

\* A reservation is of today, or of yesterday when midnight has passed since, and the
\* row it is for has room.
ReservationHolds(c) ==
  call[c].at \in {"count", "insert"} =>
    /\ call[c].booked \in Days
    /\ day = call[c].booked \/ day = call[c].booked + 1
    /\ ~Full(call[c].booked)

\* So is the count of the live runs, which are still fewer than the cap of that day.
CountHolds(c) ==
  call[c].at = "insert" /\ ManifestOf[c] \in Live =>
    /\ call[c].capDay \in Days
    /\ day = call[c].capDay \/ day = call[c].capDay + 1
    /\ Cardinality(ActiveRuns) < CapFor(c, call[c].capDay)

\* A call that met a unique key finds what has it.
ViolationIsThere(c) ==
  call[c].at = "reconcile" => runs[KeyOf[c]] # None \/ KeyOf[c] \in spent

\* What a call was answered is so.
Truthful(c) ==
  /\ call[c].answer = "accepted" =>
       runs[KeyOf[c]] # None /\ runs[KeyOf[c]].manifest = ManifestOf[c]
  /\ call[c].answer = "conflict" =>
       \/ KeyOf[c] \in spent
       \/ runs[KeyOf[c]] # None /\ runs[KeyOf[c]].manifest # ManifestOf[c]

CallHolds(c) ==
  ReservationHolds(c) /\ CountHolds(c) /\ ViolationIsThere(c) /\ Truthful(c)

AdmissionInv ==
  /\ AdmissionTypeOK
  /\ IsFiniteSet(AdmittedKeys)
  /\ \A c \in Calls : CallHolds(c)
  /\ QuotaIsExact

world == <<day, runs, spent, window, cap>>

CallRecords == [at : Places, booked : Days \cup {None}, capDay : Days \cup {None}, answer : Answers]

\* The state at the start satisfies the invariant of admissions.
LEMMA AdmissionInitially == AdmissionInit => AdmissionInv
<1> SUFFICES ASSUME AdmissionInit PROVE AdmissionInv
  OBVIOUS
<1> USE AdmissionAssumption DEF AdmissionInit
<1>1. AdmissionTypeOK
  BY DEF AdmissionTypeOK, Days, Idle, Places, Answers
<1>2. IsFiniteSet(AdmittedKeys)
  <2>1. AdmittedKeys = {}
    BY DEF AdmittedKeys
  <2> QED
    BY <2>1, FS_EmptySet
<1>3. ASSUME NEW c \in Calls PROVE CallHolds(c)
  BY DEF CallHolds, ReservationHolds, CountHolds, ViolationIsThere, Truthful, Idle
<1>4. QuotaIsExact
  BY DEF QuotaIsExact, CreatedIn
<1> QED
  BY <1>1, <1>2, <1>3, <1>4 DEF AdmissionInv

\* A step of one call that leaves the rows alone keeps the invariant if its own part
\* of it holds afterwards.
LEMMA OneCallMoves ==
  ASSUME
    AdmissionInv, NEW c \in Calls, UNCHANGED world,
    NEW e \in CallRecords, call' = [call EXCEPT ![c] = e],
    lock' \in Calls \cup {None},
    \A d \in Calls \ {c} : lock' = d <=> lock = d,
    lock' = c <=> e.at \in {"reserve", "count", "insert"},
    ReservationHolds(c)', CountHolds(c)', ViolationIsThere(c)', Truthful(c)'
  PROVE  AdmissionInv'
<1> USE DEF AdmissionInv, world
<1>1. AdmissionTypeOK'
  BY DEF AdmissionTypeOK, CallRecords
<1>2. IsFiniteSet(AdmittedKeys)'
  BY DEF AdmittedKeys
<1>3. ASSUME NEW d \in Calls PROVE CallHolds(d)'
  <2>1. CASE d = c
    BY <2>1 DEF CallHolds
  <2>2. CASE d # c
    <3>1. call'[d] = call[d]
      BY <2>2 DEF AdmissionTypeOK
    <3>2. CallHolds(d)
      OBVIOUS
    <3> QED
      BY <3>1, <3>2 DEF CallHolds, ReservationHolds, CountHolds, ViolationIsThere, Truthful,
         Full, CapFor, ActiveRuns
  <2> QED
    BY <2>1, <2>2
<1>4. QuotaIsExact'
  BY DEF QuotaIsExact, CreatedIn
<1> QED
  BY <1>1, <1>2, <1>3, <1>4

\* The end of a call keeps the invariant if its answer is true.
LEMMA CallEnds ==
  ASSUME
    AdmissionInv, NEW c \in Calls, NEW answer \in Answers, AnswerCall(c, answer), UNCHANGED world,
    answer = "accepted" => runs[KeyOf[c]] # None /\ runs[KeyOf[c]].manifest = ManifestOf[c],
    answer = "conflict" =>
      \/ KeyOf[c] \in spent
      \/ runs[KeyOf[c]] # None /\ runs[KeyOf[c]].manifest # ManifestOf[c]
  PROVE  AdmissionInv'
<1> PICK e : e = Ended(answer)
  OBVIOUS
<1>1. e \in CallRecords /\ call' = [call EXCEPT ![c] = e] /\ e.at = "done" /\ e.answer = answer
  BY DEF CallRecords, Places, AnswerCall, Ended
<1>2. lock' \in Calls \cup {None} /\ lock' # c /\ \A d \in Calls \ {c} : lock' = d <=> lock = d
  BY AdmissionAssumption DEF AnswerCall, Unlocked, AdmissionInv, AdmissionTypeOK
<1>3. call'[c].at = "done" /\ call'[c].answer = answer
  BY <1>1 DEF AdmissionInv, AdmissionTypeOK
<1>4. ReservationHolds(c)' /\ CountHolds(c)' /\ ViolationIsThere(c)'
  BY <1>3 DEF ReservationHolds, CountHolds, ViolationIsThere
<1>5. Truthful(c)'
  BY <1>3 DEF Truthful, world
<1> QED
  BY <1>1, <1>2, <1>4, <1>5, OneCallMoves

\* So does the answer to a repetition.
LEMMA RepetitionIsAnswered ==
  ASSUME AdmissionInv, NEW c \in Calls, AnswerRepeat(c), UNCHANGED world, runs[KeyOf[c]] # None
  PROVE  AdmissionInv'
<1>1. CASE runs[KeyOf[c]].manifest = ManifestOf[c]
  <2>1. AnswerCall(c, "accepted")
    BY <1>1 DEF AnswerRepeat
  <2> QED
    BY <1>1, <2>1, CallEnds DEF Answers
<1>2. CASE runs[KeyOf[c]].manifest # ManifestOf[c]
  <2>1. AnswerCall(c, "conflict")
    BY <1>2 DEF AnswerRepeat
  <2> QED
    BY <1>2, <2>1, CallEnds DEF Answers
<1> QED
  BY <1>1, <1>2

\* A call that only waits, or has its turn, is in a place the invariant says nothing of.
LEMMA CallGoesOn ==
  ASSUME
    AdmissionInv, NEW c \in Calls, NEW place \in {"lock", "reserve"}, Goto(c, place),
    UNCHANGED world, lock' = (IF place = "reserve" THEN c ELSE lock), lock # c,
    place = "reserve" => lock = None
  PROVE  AdmissionInv'
<1> PICK e : e = [call[c] EXCEPT !.at = place]
  OBVIOUS
<1>1. e \in CallRecords /\ call' = [call EXCEPT ![c] = e] /\ e.at = place /\ e.answer = call[c].answer
  BY DEF CallRecords, Goto, AdmissionInv, AdmissionTypeOK, Places
<1>2. /\ lock' \in Calls \cup {None}
      /\ \A d \in Calls \ {c} : lock' = d <=> lock = d
      /\ lock' = c <=> e.at \in {"reserve", "count", "insert"}
  BY <1>1, AdmissionAssumption DEF AdmissionInv, AdmissionTypeOK
<1>3. call'[c].at = place /\ call'[c].answer = call[c].answer
  BY <1>1 DEF AdmissionInv, AdmissionTypeOK
<1>4. ReservationHolds(c)' /\ CountHolds(c)' /\ ViolationIsThere(c)'
  BY <1>3 DEF ReservationHolds, CountHolds, ViolationIsThere
<1>5. Truthful(c)'
  BY <1>3 DEF Truthful, world, AdmissionInv, CallHolds
<1> QED
  BY <1>1, <1>2, <1>4, <1>5, OneCallMoves

\* A call begins, with a repetition or on its way to the lock.
LEMMA BeginKeeps ==
  ASSUME AdmissionInv, NEW c \in Calls, Begin(c)
  PROVE  AdmissionInv'
<1>1. UNCHANGED world
  BY DEF Begin, world
<1>2. CASE runs[KeyOf[c]] # None
  BY <1>1, <1>2, RepetitionIsAnswered DEF Begin
<1>3. CASE runs[KeyOf[c]] = None
  BY <1>1, <1>3, CallGoesOn DEF Begin, At, AdmissionInv, AdmissionTypeOK
<1> QED
  BY <1>2, <1>3

\* It looks again once it has the lock.
LEMMA LockKeeps ==
  ASSUME AdmissionInv, NEW c \in Calls, Lock(c)
  PROVE  AdmissionInv'
<1>1. UNCHANGED world
  BY DEF Lock, world
<1>2. CASE runs[KeyOf[c]] # None
  BY <1>1, <1>2, RepetitionIsAnswered DEF Lock
<1>3. CASE runs[KeyOf[c]] = None
  BY <1>1, <1>3, CallGoesOn DEF Lock, At, AdmissionInv, AdmissionTypeOK
<1> QED
  BY <1>2, <1>3

\* It books the day its statement reads, if that has room.
LEMMA ReserveKeeps ==
  ASSUME AdmissionInv, NEW c \in Calls, Reserve(c)
  PROVE  AdmissionInv'
<1>1. UNCHANGED world
  BY DEF Reserve, world
<1>2. CASE Full(day)
  BY <1>1, <1>2, CallEnds DEF Reserve, Answers
<1>3. CASE ~Full(day)
  <2> DEFINE place == IF ManifestOf[c] \in Live THEN "count" ELSE "insert"
  <2> PICK e : e = [[call[c] EXCEPT !.booked = day] EXCEPT !.at = place]
    OBVIOUS
  <2>0. call[c] \in CallRecords /\ day \in Days
    BY DEF AdmissionInv, AdmissionTypeOK, CallRecords
  <2>1. call' = [call EXCEPT ![c] = e]
    BY <1>3 DEF Reserve, AdmissionInv, AdmissionTypeOK
  <2>2. e \in CallRecords /\ e.at = place /\ e.booked = day /\ e.answer = call[c].answer
    BY <2>0 DEF CallRecords, Places
  <2>3. lock = c /\ lock' = lock
    BY <1>3 DEF Reserve, At, AdmissionInv, AdmissionTypeOK
  <2>4. call'[c] = e
    BY <2>1 DEF AdmissionInv, AdmissionTypeOK
  <2>5. ReservationHolds(c)'
    BY <1>3, <1>1, <2>0, <2>2, <2>4 DEF ReservationHolds, Full, world
  <2>6. CountHolds(c)' /\ ViolationIsThere(c)'
    BY <2>2, <2>4 DEF CountHolds, ViolationIsThere
  <2>7. Truthful(c)'
    BY <1>1, <2>2, <2>4 DEF Truthful, world, AdmissionInv, CallHolds
  <2> QED
    BY <1>1, <2>1, <2>2, <2>3, <2>5, <2>6, <2>7, OneCallMoves DEF AdmissionInv, AdmissionTypeOK
<1> QED
  BY <1>2, <1>3

\* It counts the live runs against the cap of the day.
LEMMA CountKeeps ==
  ASSUME AdmissionInv, NEW c \in Calls, Count(c)
  PROVE  AdmissionInv'
<1>1. UNCHANGED world
  BY DEF Count, world
<1>2. CASE Cardinality(ActiveRuns) >= LimitOfDay(c)
  BY <1>1, <1>2, CallEnds DEF Count, Answers
<1>3. CASE ~(Cardinality(ActiveRuns) >= LimitOfDay(c))
  <2> PICK e : e = [[call[c] EXCEPT !.at = "insert"] EXCEPT !.capDay = day]
    OBVIOUS
  <2>0. call[c] \in CallRecords /\ day \in Days
    BY DEF AdmissionInv, AdmissionTypeOK, CallRecords
  <2>1. call' = [call EXCEPT ![c] = e]
    BY <1>3 DEF Count, AdmissionInv, AdmissionTypeOK
  <2>2. /\ e \in CallRecords /\ e.at = "insert" /\ e.capDay = day
        /\ e.booked = call[c].booked /\ e.answer = call[c].answer
    BY <2>0 DEF CallRecords, Places
  <2>3. lock = c /\ lock' = lock /\ call[c].at = "count"
    BY <1>3 DEF Count, At, AdmissionInv, AdmissionTypeOK
  <2>4. call'[c] = e
    BY <2>1 DEF AdmissionInv, AdmissionTypeOK
  <2>5. ReservationHolds(c)'
    BY <1>1, <2>2, <2>3, <2>4 DEF ReservationHolds, Full, world, AdmissionInv, CallHolds
  <2>6. CountHolds(c)'
    <3>1. Cardinality(ActiveRuns) < CapFor(c, day)
      <4>1. IsFiniteSet(ActiveRuns)
        BY FS_Subset DEF ActiveRuns, AdmittedKeys, AdmissionInv
      <4>2. Cardinality(ActiveRuns) \in Nat /\ CapFor(c, day) \in Nat
        BY <4>1, <2>0, FS_CardinalityType, AdmissionAssumption
        DEF CapFor, AdmissionInv, AdmissionTypeOK
      <4> QED
        BY <1>3, <4>2 DEF LimitOfDay
    <3>2. (Cardinality(ActiveRuns) < CapFor(c, day))'
      BY <1>1, <3>1 DEF world, ActiveRuns, CapFor
    <3> QED
      BY <1>1, <2>0, <2>2, <2>4, <3>2 DEF CountHolds, world
  <2>7. ViolationIsThere(c)' /\ Truthful(c)'
    BY <1>1, <2>2, <2>4 DEF Truthful, ViolationIsThere, world, AdmissionInv, CallHolds
  <2> QED
    BY <1>1, <2>1, <2>2, <2>3, <2>5, <2>6, <2>7, OneCallMoves DEF AdmissionInv, AdmissionTypeOK
<1> QED
  BY <1>2, <1>3

\* What the insertion of a run finds and leaves: room in the row it booked, and one run
\* more in the day of that row.
LEMMA InsertBooks ==
  ASSUME AdmissionInv, NEW c \in Calls, Insert(c)
  PROVE  /\ lock = c /\ KeyOf[c] \in Keys /\ runs[KeyOf[c]] = None
         /\ call[c].booked \in Days
         /\ day = call[c].booked \/ day = call[c].booked + 1
         /\ runs'[KeyOf[c]] \in Run /\ runs'[KeyOf[c]] # None
         /\ runs'[KeyOf[c]].manifest = ManifestOf[c]
         /\ runs'[KeyOf[c]].day = call[c].booked
         /\ runs'[KeyOf[c]].over = FALSE
         /\ \A k \in Keys \ {KeyOf[c]} : runs'[k] = runs[k]
         /\ AdmittedKeys' = AdmittedKeys \cup {KeyOf[c]}
<1> PICK e : e = [manifest |-> ManifestOf[c], day |-> CreatedOn(c), over |-> FALSE]
  OBVIOUS
<1>1. lock = c /\ KeyOf[c] \in Keys /\ runs[KeyOf[c]] = None
  BY AdmissionAssumption DEF Insert, At, AdmissionInv, AdmissionTypeOK
<1>2. call[c].booked \in Days /\ (day = call[c].booked \/ day = call[c].booked + 1)
  BY DEF Insert, At, AdmissionInv, CallHolds, ReservationHolds
<1>3. e \in Run /\ e.manifest = ManifestOf[c] /\ e.day = call[c].booked /\ e.over = FALSE
  BY <1>2, AdmissionAssumption DEF Run, CreatedOn
<1>4. e # None
  BY <1>3, AdmissionAssumption DEF Run, Days
<1>5. runs' = [runs EXCEPT ![KeyOf[c]] = e]
  BY DEF Insert
<1>6. runs'[KeyOf[c]] = e /\ \A k \in Keys \ {KeyOf[c]} : runs'[k] = runs[k]
  BY <1>1, <1>5 DEF AdmissionInv, AdmissionTypeOK
<1>7. AdmittedKeys' = AdmittedKeys \cup {KeyOf[c]}
  BY <1>1, <1>4, <1>6 DEF AdmittedKeys
<1> QED
  BY <1>1, <1>2, <1>3, <1>4, <1>6, <1>7

\* The counts of the days stay exact when a run is inserted.
LEMMA InsertCounts ==
  ASSUME AdmissionInv, NEW c \in Calls, Insert(c)
  PROVE  QuotaIsExact' /\ window' \in [Days -> [limit : Nat, used : Nat] \cup {None}]
<1> PICK k : k = KeyOf[c]
  OBVIOUS
<1> PICK b : b = call[c].booked
  OBVIOUS
<1>1. /\ k \in Keys /\ runs[k] = None /\ b \in Days /\ (day = b \/ day = b + 1)
      /\ runs'[k] # None /\ runs'[k].day = b
      /\ \A x \in Keys \ {k} : runs'[x] = runs[x]
  BY InsertBooks
<1>2. ~Full(b)
  BY DEF Insert, At, AdmissionInv, CallHolds, ReservationHolds
<1>3. CreatedIn(b)' = CreatedIn(b) \cup {k} /\ k \notin CreatedIn(b)
  BY <1>1 DEF CreatedIn
<1>4. ASSUME NEW d \in Days, d # b PROVE CreatedIn(d)' = CreatedIn(d)
  BY <1>1, <1>4 DEF CreatedIn
<1>5. IsFiniteSet(CreatedIn(b))
  BY FS_Subset DEF CreatedIn, AdmittedKeys, AdmissionInv
<1>6. Cardinality(CreatedIn(b)') = Cardinality(CreatedIn(b)) + 1 /\ Cardinality(CreatedIn(b)) \in Nat
  BY <1>3, <1>5, FS_AddElement, FS_CardinalityType
<1>7. window' = [d \in Days |-> Booked(c, d)] /\ day' = day
  BY DEF Insert
<1>8. \A d \in Days : window[d] \in [limit : Nat, used : Nat] \cup {None}
  BY DEF AdmissionInv, AdmissionTypeOK
<1>9. ASSUME NEW d \in Days, d # b
      PROVE  window'[d] = window[d]
  BY <1>7, <1>9 DEF Booked
<1>10. /\ window'[b] \in [limit : Nat, used : Nat]
       /\ window'[b].used = Cardinality(CreatedIn(b)) + 1
       /\ window'[b].used <= window'[b].limit
  <2>1. CASE window[b] = None
    <3>1. Cardinality(CreatedIn(b)) = 0
      <4>1. ~(b + 2 <= day)
        BY <1>1, AdmissionAssumption DEF Days, AdmissionInv, AdmissionTypeOK
      <4>2. CreatedIn(b) = {}
        BY <4>1, <1>1, <2>1 DEF QuotaIsExact, AdmissionInv
      <4> QED
        BY <4>2, FS_EmptySet
    <3>2. window'[b] = [limit |-> DayLimit[c], used |-> 1]
      BY <1>1, <1>7, <2>1 DEF Booked
    <3>3. DayLimit[c] \in Nat \ {0}
      BY AdmissionAssumption
    <3> QED
      BY <3>1, <3>2, <3>3
  <2>2. CASE window[b] # None
    <3>1. window[b] \in [limit : Nat, used : Nat]
      BY <1>1, <1>8, <2>2
    <3>2. window'[b] = [window[b] EXCEPT !.used = @ + 1]
      BY <1>1, <1>7, <2>2 DEF Booked
    <3>3. window[b].used = Cardinality(CreatedIn(b))
      BY <1>1, <2>2 DEF QuotaIsExact, AdmissionInv
    <3>4. ~(window[b].used >= window[b].limit)
      BY <1>2, <2>2 DEF Full
    <3> QED
      BY <3>1, <3>2, <3>3, <3>4
  <2> QED
    BY <2>1, <2>2
<1>11. window'[b] # None
  BY <1>10, AdmissionAssumption
<1>12. QuotaIsExact'
  <2> SUFFICES ASSUME NEW d \in Days
               PROVE  IF window'[d] = None
                      THEN d + 2 <= day \/ CreatedIn(d)' = {}
                      ELSE window'[d].used = Cardinality(CreatedIn(d)') /\ window'[d].used <= window'[d].limit
    BY <1>7 DEF QuotaIsExact
  <2>1. CASE d = b
    BY <1>6, <1>10, <1>11, <2>1
  <2>2. CASE d # b
    BY <1>4, <1>9, <2>2 DEF QuotaIsExact, AdmissionInv
  <2> QED
    BY <2>1, <2>2
<1>13. window' \in [Days -> [limit : Nat, used : Nat] \cup {None}]
  <2>1. \A d \in Days : Booked(c, d) \in [limit : Nat, used : Nat] \cup {None}
    BY <1>7, <1>8, <1>9, <1>10
  <2> QED
    BY <2>1, <1>7
<1> QED
  BY <1>12, <1>13

\* The run, its counts and the cap of its day are committed together.
LEMMA InsertKeeps ==
  ASSUME AdmissionInv, NEW c \in Calls, Insert(c)
  PROVE  AdmissionInv'
<1> PICK answer \in {"accepted", "error"} : AnswerCall(c, answer)
  BY DEF Insert
<1>0. /\ lock = c /\ KeyOf[c] \in Keys /\ runs[KeyOf[c]] = None
      /\ runs'[KeyOf[c]] \in Run /\ runs'[KeyOf[c]] # None
      /\ runs'[KeyOf[c]].manifest = ManifestOf[c]
      /\ \A k \in Keys \ {KeyOf[c]} : runs'[k] = runs[k]
      /\ AdmittedKeys' = AdmittedKeys \cup {KeyOf[c]}
  BY InsertBooks
<1>1. /\ call'[c] = Ended(answer)
      /\ \A d \in Calls \ {c} : call'[d] = call[d]
      /\ lock' = None
  BY <1>0 DEF AnswerCall, Unlocked, AdmissionInv, AdmissionTypeOK
<1>2. call'[c].at = "done" /\ call'[c].answer = answer
  BY <1>1 DEF Ended
<1>3. day' = day /\ spent' = spent
  BY DEF Insert
<1>4. AdmissionTypeOK'
  <2>1. runs' \in [Keys -> Run \cup {None}]
    BY <1>0 DEF Insert, AdmissionInv, AdmissionTypeOK
  <2>2. cap' \in [Days -> Nat \cup {None}]
    <3>1. cap' = [d \in Days |-> IF d = call[c].capDay THEN CapFor(c, d) ELSE cap[d]]
      BY DEF Insert
    <3>2. \A d \in Days : CapFor(c, d) \in Nat /\ cap[d] \in Nat \cup {None}
      BY AdmissionAssumption DEF CapFor, AdmissionInv, AdmissionTypeOK
    <3> QED
      BY <3>1, <3>2
  <2>3. call' \in [Calls -> CallRecords]
    <3>1. Ended(answer) \in CallRecords
      BY DEF Ended, CallRecords, Places, Answers
    <3> QED
      BY <3>1 DEF AnswerCall, AdmissionInv, AdmissionTypeOK, CallRecords
  <2>4. \A d \in Calls : lock' = d <=> call'[d].at \in {"reserve", "count", "insert"}
    BY <1>0, <1>1, <1>2, AdmissionAssumption DEF AdmissionInv, AdmissionTypeOK
  <2> QED
    BY <1>1, <1>3, <2>1, <2>2, <2>3, <2>4, InsertCounts
    DEF AdmissionInv, AdmissionTypeOK, CallRecords
<1>5. IsFiniteSet(AdmittedKeys)'
  BY <1>0, FS_AddElement DEF AdmissionInv
<1>6. ASSUME NEW d \in Calls PROVE CallHolds(d)'
  <2>1. CASE d = c
    BY <1>0, <1>2, <2>1
    DEF CallHolds, ReservationHolds, CountHolds, ViolationIsThere, Truthful
  <2>2. CASE d # c
    <3>1. call'[d] = call[d] /\ call[d].at \notin {"count", "insert"}
      BY <1>0, <1>1, <2>2 DEF AdmissionInv, AdmissionTypeOK
    <3>2. KeyOf[d] \in Keys /\ CallHolds(d)
      BY AdmissionAssumption DEF AdmissionInv
    <3>3. ViolationIsThere(d)' /\ Truthful(d)'
      BY <1>0, <1>3, <3>1, <3>2 DEF CallHolds, ViolationIsThere, Truthful
    <3> QED
      BY <3>1, <3>3 DEF CallHolds, ReservationHolds, CountHolds
  <2> QED
    BY <2>1, <2>2
<1> QED
  BY <1>4, <1>5, <1>6, InsertCounts DEF AdmissionInv

\* A unique key is met: the transaction is rolled back, its reason remains.
LEMMA ViolateKeeps ==
  ASSUME AdmissionInv, NEW c \in Calls, Violate(c)
  PROVE  AdmissionInv'
<1> PICK e : e = [Idle EXCEPT !.at = "reconcile"]
  OBVIOUS
<1>1. /\ e \in CallRecords /\ call' = [call EXCEPT ![c] = e]
      /\ e.at = "reconcile" /\ e.answer = "none"
  BY DEF CallRecords, Places, Answers, Violate, Idle
<1>2. UNCHANGED world
  BY DEF Violate, world
<1>3. lock' \in Calls \cup {None} /\ lock' # c /\ \A d \in Calls \ {c} : lock' = d <=> lock = d
  BY AdmissionAssumption DEF Violate, Unlocked, AdmissionInv, AdmissionTypeOK
<1>4. call'[c] = e
  BY <1>1 DEF AdmissionInv, AdmissionTypeOK
<1>5. ReservationHolds(c)' /\ CountHolds(c)' /\ Truthful(c)'
  BY <1>1, <1>4 DEF ReservationHolds, CountHolds, Truthful
<1>6. ViolationIsThere(c)'
  BY <1>2 DEF Violate, ViolationIsThere, world
<1> QED
  BY <1>1, <1>2, <1>3, <1>5, <1>6, OneCallMoves

\* Whatever it was is looked up and told.
LEMMA ReconcileKeeps ==
  ASSUME AdmissionInv, NEW c \in Calls, Reconcile(c)
  PROVE  AdmissionInv'
<1>1. UNCHANGED world
  BY DEF Reconcile, world
<1>2. CASE runs[KeyOf[c]] # None
  BY <1>1, <1>2, RepetitionIsAnswered DEF Reconcile
<1>3. CASE runs[KeyOf[c]] = None
  <2>1. KeyOf[c] \in spent
    BY <1>3 DEF Reconcile, At, AdmissionInv, CallHolds, ViolationIsThere
  <2> QED
    BY <1>1, <1>3, <2>1, CallEnds DEF Reconcile, Answers
<1> QED
  BY <1>2, <1>3

\* A failure ends a call without an effect; its repetition begins anew.
LEMMA AbortAndRepeatKeep ==
  ASSUME AdmissionInv, NEW c \in Calls, Abort(c) \/ Repeat(c)
  PROVE  AdmissionInv'
<1>1. UNCHANGED world
  BY DEF Abort, Repeat, world
<1>2. CASE Abort(c)
  BY <1>1, <1>2, CallEnds DEF Abort, Answers
<1>3. CASE Repeat(c)
  <2>1. /\ Idle \in CallRecords /\ Idle.at = "idle" /\ Idle.answer = "none"
    BY DEF Idle, CallRecords, Places, Answers
  <2>2. call' = [call EXCEPT ![c] = Idle] /\ lock' = lock /\ lock # c
    BY <1>3 DEF Repeat, At, AdmissionInv, AdmissionTypeOK
  <2>3. call'[c] = Idle
    BY <2>2 DEF AdmissionInv, AdmissionTypeOK
  <2>4. ReservationHolds(c)' /\ CountHolds(c)' /\ Truthful(c)' /\ ViolationIsThere(c)'
    BY <2>1, <2>3 DEF ReservationHolds, CountHolds, Truthful, ViolationIsThere
  <2> QED
    BY <1>1, <2>1, <2>2, <2>4, OneCallMoves DEF AdmissionInv, AdmissionTypeOK
<1> QED
  BY <1>2, <1>3

\* The end of a run leaves its manifest and its day, and one live run less.
LEMMA ConcludeKeeps ==
  ASSUME AdmissionInv, NEW k \in Keys, Conclude(k)
  PROVE  AdmissionInv' /\ ActiveRuns' \subseteq ActiveRuns
<1>1. /\ runs[k] \in Run /\ runs' = [runs EXCEPT ![k] = [runs[k] EXCEPT !.over = TRUE]]
      /\ UNCHANGED <<day, spent, window, cap, lock, call>>
  BY DEF Conclude, AdmissionInv, AdmissionTypeOK
<1> PICK e : e = [runs[k] EXCEPT !.over = TRUE]
  OBVIOUS
<1>2. e \in Run /\ e.manifest = runs[k].manifest /\ e.day = runs[k].day /\ e.over = TRUE
  BY <1>1 DEF Run
<1>3. e # None
  BY <1>2, AdmissionAssumption DEF Run, Days
<1>4. runs'[k] = e /\ \A x \in Keys \ {k} : runs'[x] = runs[x]
  BY <1>1 DEF AdmissionInv, AdmissionTypeOK
<1>5. runs[k] # None
  BY DEF Conclude
<1>6. /\ \A x \in Keys : runs'[x] # None <=> runs[x] # None
      /\ \A x \in Keys : runs[x] # None => runs'[x].manifest = runs[x].manifest /\ runs'[x].day = runs[x].day
  BY <1>2, <1>3, <1>4, <1>5
<1>7. AdmissionTypeOK'
  BY <1>1, <1>2 DEF AdmissionInv, AdmissionTypeOK
<1>8. AdmittedKeys' = AdmittedKeys
  BY <1>6 DEF AdmittedKeys
<1>9. ActiveRuns' \subseteq ActiveRuns
  BY <1>2, <1>4, <1>5 DEF ActiveRuns
<1>10. IsFiniteSet(ActiveRuns)
  BY FS_Subset DEF ActiveRuns, AdmittedKeys, AdmissionInv
<1>11. /\ Cardinality(ActiveRuns') <= Cardinality(ActiveRuns)
       /\ Cardinality(ActiveRuns') \in Nat /\ Cardinality(ActiveRuns) \in Nat
  BY <1>9, <1>10, FS_Subset, FS_CardinalityType
<1>12. ASSUME NEW c \in Calls PROVE CallHolds(c)'
  <2>1. CallHolds(c) /\ KeyOf[c] \in Keys
    BY AdmissionAssumption DEF AdmissionInv
  <2>2. ReservationHolds(c)'
    BY <1>1, <2>1 DEF CallHolds, ReservationHolds, Full
  <2>3. CountHolds(c)'
    <3>1. ASSUME call[c].at = "insert", ManifestOf[c] \in Live
          PROVE  /\ call[c].capDay \in Days
                 /\ day = call[c].capDay \/ day = call[c].capDay + 1
                 /\ Cardinality(ActiveRuns') < CapFor(c, call[c].capDay)
      <4>1. /\ call[c].capDay \in Days
            /\ day = call[c].capDay \/ day = call[c].capDay + 1
            /\ Cardinality(ActiveRuns) < CapFor(c, call[c].capDay)
        BY <2>1, <3>1 DEF CallHolds, CountHolds
      <4>2. CapFor(c, call[c].capDay) \in Nat
        BY <4>1, AdmissionAssumption DEF CapFor, AdmissionInv, AdmissionTypeOK
      <4> QED
        BY <4>1, <4>2, <1>11
    <3> QED
      BY <1>1, <3>1 DEF CountHolds, CapFor
  <2>4. ViolationIsThere(c)' /\ Truthful(c)'
    BY <1>1, <1>6, <2>1 DEF CallHolds, ViolationIsThere, Truthful
  <2> QED
    BY <2>2, <2>3, <2>4 DEF CallHolds
<1>13. QuotaIsExact'
  <2>1. \A d \in Days : CreatedIn(d)' = CreatedIn(d)
    BY <1>6 DEF CreatedIn
  <2> QED
    BY <1>1, <2>1 DEF QuotaIsExact, AdmissionInv
<1> QED
  BY <1>7, <1>8, <1>9, <1>12, <1>13 DEF AdmissionInv

\* A key that another command takes stays taken.
LEMMA CollideKeeps ==
  ASSUME AdmissionInv, NEW k \in Keys, Collide(k)
  PROVE  AdmissionInv' /\ ActiveRuns' = ActiveRuns
<1>1. UNCHANGED <<day, runs, window, cap, lock, call>> /\ spent' = spent \cup {k}
  BY DEF Collide
<1>2. AdmissionTypeOK' /\ IsFiniteSet(AdmittedKeys)' /\ QuotaIsExact' /\ ActiveRuns' = ActiveRuns
  <2>1. AdmissionTypeOK'
    BY <1>1 DEF AdmissionInv, AdmissionTypeOK
  <2>2. IsFiniteSet(AdmittedKeys)' /\ ActiveRuns' = ActiveRuns
    BY <1>1 DEF AdmissionInv, AdmittedKeys, ActiveRuns
  <2>3. QuotaIsExact'
    BY <1>1 DEF AdmissionInv, QuotaIsExact, CreatedIn
  <2> QED
    BY <2>1, <2>2, <2>3
<1>3. ASSUME NEW c \in Calls PROVE CallHolds(c)'
  <2>1. CallHolds(c)
    BY DEF AdmissionInv
  <2> QED
    BY <1>1, <2>1 DEF CallHolds, ReservationHolds, CountHolds, ViolationIsThere, Truthful, Full,
       CapFor, ActiveRuns
<1> QED
  BY <1>2, <1>3 DEF AdmissionInv

\* At midnight every open reservation is of the day that ends.
LEMMA NextDayKeeps ==
  ASSUME AdmissionInv, NextDay
  PROVE  AdmissionInv' /\ ActiveRuns' = ActiveRuns
<1>1. /\ UNCHANGED <<runs, spent, window, cap, lock, call>> /\ day' = day + 1
      /\ day \in Days /\ day' \in Days
  BY AdmissionAssumption DEF NextDay, Days, AdmissionInv, AdmissionTypeOK
<1>2. AdmissionTypeOK' /\ IsFiniteSet(AdmittedKeys)' /\ ActiveRuns' = ActiveRuns
  BY <1>1 DEF AdmissionInv, AdmissionTypeOK, AdmittedKeys, ActiveRuns
<1>3. ASSUME NEW c \in Calls PROVE CallHolds(c)'
  <2>1. CallHolds(c)
    BY DEF AdmissionInv
  <2>2. call[c].booked \in {None, day} /\ call[c].capDay \in {None, day}
    BY DEF NextDay
  <2>3. None \notin Days
    BY AdmissionAssumption DEF Days
  <2>4. ReservationHolds(c)'
    BY <1>1, <2>1, <2>2, <2>3 DEF CallHolds, ReservationHolds, Full
  <2>5. CountHolds(c)'
    BY <1>1, <2>1, <2>2, <2>3 DEF CallHolds, CountHolds, CapFor, ActiveRuns
  <2>6. ViolationIsThere(c)' /\ Truthful(c)'
    BY <1>1, <2>1 DEF CallHolds, ViolationIsThere, Truthful
  <2> QED
    BY <2>4, <2>5, <2>6 DEF CallHolds
<1>4. QuotaIsExact'
  <2> SUFFICES ASSUME NEW d \in Days
               PROVE  IF window[d] = None
                      THEN d + 2 <= day' \/ CreatedIn(d) = {}
                      ELSE window[d].used = Cardinality(CreatedIn(d)) /\ window[d].used <= window[d].limit
    BY <1>1 DEF QuotaIsExact, CreatedIn
  <2>1. d + 2 <= day => d + 2 <= day'
    BY <1>1, AdmissionAssumption DEF Days
  <2> QED
    BY <2>1 DEF QuotaIsExact, AdmissionInv
<1> QED
  BY <1>2, <1>3, <1>4 DEF AdmissionInv

\* The cleanup takes rows that no open transaction counts on.
LEMMA SweepKeeps ==
  ASSUME AdmissionInv, NEW d \in Days, Sweep(d)
  PROVE  AdmissionInv' /\ ActiveRuns' = ActiveRuns
<1>1. UNCHANGED <<day, runs, spent, lock, call>>
  BY DEF Sweep
<1>2. /\ window' \in {window, [window EXCEPT ![d] = None]}
      /\ cap' \in {cap, [cap EXCEPT ![d] = None]}
  BY DEF Sweep
<1>3. \A x \in Days : window'[x] = window[x] \/ (x = d /\ window'[x] = None)
  BY <1>2 DEF AdmissionInv, AdmissionTypeOK
<1>4. \A x \in Days \ {d} : cap'[x] = cap[x]
  BY <1>2 DEF AdmissionInv, AdmissionTypeOK
<1>5. AdmissionTypeOK' /\ IsFiniteSet(AdmittedKeys)' /\ ActiveRuns' = ActiveRuns
  BY <1>1, <1>2 DEF AdmissionInv, AdmissionTypeOK, AdmittedKeys, ActiveRuns
<1>6. ASSUME NEW c \in Calls PROVE CallHolds(c)'
  <2>1. CallHolds(c)
    BY DEF AdmissionInv
  <2>2. call[c].at \in {"count", "insert"} => call[c].capDay # d
    BY AdmissionAssumption DEF Sweep, AdmissionInv, AdmissionTypeOK
  <2>3. ReservationHolds(c)'
    BY <1>1, <1>3, <2>1 DEF CallHolds, ReservationHolds, Full
  <2>4. CountHolds(c)'
    BY <1>1, <1>4, <2>1, <2>2 DEF CallHolds, CountHolds, CapFor, ActiveRuns
  <2>5. ViolationIsThere(c)' /\ Truthful(c)'
    BY <1>1, <2>1 DEF CallHolds, ViolationIsThere, Truthful
  <2> QED
    BY <2>3, <2>4, <2>5 DEF CallHolds
<1>7. QuotaIsExact'
  <2>1. d + 2 <= day
    BY DEF Sweep
  <2>2. \A x \in Days : CreatedIn(x)' = CreatedIn(x)
    BY <1>1 DEF CreatedIn
  <2> QED
    BY <1>1, <1>3, <2>1, <2>2 DEF QuotaIsExact, AdmissionInv
<1> QED
  BY <1>5, <1>6, <1>7 DEF AdmissionInv

\* A live run is inserted within the cap that is stored with it.
LEMMA InsertWithinCap ==
  ASSUME AdmissionInv, NEW c \in Calls, Insert(c)
  PROVE  \/ ActiveRuns' \subseteq ActiveRuns
         \/ \E d \in {day, day - 1} \cap Days :
              cap'[d] # None /\ Cardinality(ActiveRuns') <= cap'[d]
<1>0. /\ KeyOf[c] \in Keys /\ runs[KeyOf[c]] = None
      /\ runs'[KeyOf[c]].manifest = ManifestOf[c] /\ runs'[KeyOf[c]] # None
      /\ runs'[KeyOf[c]].over = FALSE
      /\ \A k \in Keys \ {KeyOf[c]} : runs'[k] = runs[k]
  BY InsertBooks
<1>1. CASE ManifestOf[c] \notin Live
  <2>1. ActiveRuns' \subseteq ActiveRuns
    BY <1>0, <1>1 DEF ActiveRuns
  <2> QED
    BY <2>1
<1>2. CASE ManifestOf[c] \in Live
  <2> PICK d : d = call[c].capDay
    OBVIOUS
  <2>1. d \in Days /\ (day = d \/ day = d + 1) /\ Cardinality(ActiveRuns) < CapFor(c, d)
    BY <1>2 DEF Insert, At, AdmissionInv, CallHolds, CountHolds
  <2>2. d \in {day, day - 1} \cap Days
    BY <2>1, AdmissionAssumption DEF Days
  <2>3. cap'[d] = CapFor(c, d)
    BY <2>1 DEF Insert
  <2>4. CapFor(c, d) \in Nat
    BY <2>1, AdmissionAssumption DEF CapFor, AdmissionInv, AdmissionTypeOK
  <2>5. ActiveRuns' = ActiveRuns \cup {KeyOf[c]} /\ KeyOf[c] \notin ActiveRuns
    BY <1>0, <1>2 DEF ActiveRuns
  <2>6. IsFiniteSet(ActiveRuns)
    BY FS_Subset DEF ActiveRuns, AdmittedKeys, AdmissionInv
  <2>7. Cardinality(ActiveRuns') = Cardinality(ActiveRuns) + 1 /\ Cardinality(ActiveRuns) \in Nat
    BY <2>5, <2>6, FS_AddElement, FS_CardinalityType
  <2>8. cap'[d] # None /\ Cardinality(ActiveRuns') <= cap'[d]
    BY <2>1, <2>3, <2>4, <2>7, AdmissionAssumption
  <2> QED
    BY <2>2, <2>8
<1> QED
  BY <1>1, <1>2

\* Every step keeps the invariant, and admits live runs within a stored cap only.
LEMMA AdmissionStep ==
  ASSUME AdmissionInv, [AdmissionNext]_admissionVars
  PROVE  /\ AdmissionInv'
         /\ \/ ActiveRuns' \subseteq ActiveRuns
            \/ \E d \in {day, day - 1} \cap Days :
                 cap'[d] # None /\ Cardinality(ActiveRuns') <= cap'[d]
<1>1. ASSUME NEW c \in Calls, Insert(c)
      PROVE  /\ AdmissionInv'
             /\ \/ ActiveRuns' \subseteq ActiveRuns
                \/ \E d \in {day, day - 1} \cap Days :
                     cap'[d] # None /\ Cardinality(ActiveRuns') <= cap'[d]
  BY <1>1, InsertKeeps, InsertWithinCap
<1>2. ASSUME NEW c \in Calls, (CallStep(c) /\ ~Insert(c)) \/ Abort(c) \/ Repeat(c)
      PROVE  AdmissionInv' /\ ActiveRuns' = ActiveRuns
  <2>1. ActiveRuns' = ActiveRuns
    BY <1>2 DEF CallStep, Begin, Lock, Reserve, Count, Violate, Reconcile, Abort, Repeat, ActiveRuns
  <2> QED
    BY <1>2, <2>1, BeginKeeps, LockKeeps, ReserveKeeps, CountKeeps, ViolateKeeps,
       ReconcileKeeps, AbortAndRepeatKeep DEF CallStep
<1>3. ASSUME NEW k \in Keys, Conclude(k) \/ Collide(k)
      PROVE  AdmissionInv' /\ ActiveRuns' \subseteq ActiveRuns
  BY <1>3, ConcludeKeeps, CollideKeeps
<1>4. ASSUME NextDay \/ \E d \in Days : Sweep(d)
      PROVE  AdmissionInv' /\ ActiveRuns' \subseteq ActiveRuns
  BY <1>4, NextDayKeeps, SweepKeeps
<1>5. CASE UNCHANGED admissionVars
  <2>1. /\ AdmissionTypeOK' /\ IsFiniteSet(AdmittedKeys)' /\ QuotaIsExact'
        /\ ActiveRuns' = ActiveRuns
    <3>1. AdmissionTypeOK'
      BY <1>5 DEF admissionVars, AdmissionInv, AdmissionTypeOK
    <3>2. IsFiniteSet(AdmittedKeys)' /\ ActiveRuns' = ActiveRuns
      BY <1>5 DEF admissionVars, AdmissionInv, AdmittedKeys, ActiveRuns
    <3>3. QuotaIsExact'
      BY <1>5 DEF admissionVars, AdmissionInv, QuotaIsExact, CreatedIn
    <3> QED
      BY <3>1, <3>2, <3>3
  <2>2. ASSUME NEW c \in Calls PROVE CallHolds(c)'
    <3>1. CallHolds(c)
      BY DEF AdmissionInv
    <3> QED
      BY <1>5, <3>1 DEF admissionVars, CallHolds, ReservationHolds, CountHolds, ViolationIsThere,
         Truthful, Full, CapFor, ActiveRuns
  <2> QED
    BY <2>1, <2>2 DEF AdmissionInv
<1> QED
  BY <1>1, <1>2, <1>3, <1>4, <1>5 DEF AdmissionNext

---------------------------------------------------------------------------
(* The admission as its ledger.                                            *)

\* A call is not answered before it is done, and counts live runs only for a live one.
CallKept(c, e) ==
  /\ e.at # "done" => e.answer = "none"
  /\ e.at = "count" \/ e.capDay # None => ManifestOf[c] \in Live

CallsKept == \A c \in Calls : CallKept(c, call[c])

\* What the ledger has of the rows and the calls.
LimitOn == [d \in Days |-> IF window[d] = None THEN None ELSE window[d].limit]

AnswersTold == [c \in Calls |-> call[c].answer]

\* A call moves from where it is to where it is next, or is answered.
LEMMA CallMoves ==
  ASSUME AdmissionInv, NEW c \in Calls, CallKept(c, call[c]), CallStep(c) \/ Abort(c)
  PROVE  \E e \in CallRecords : call' = [call EXCEPT ![c] = e] /\ CallKept(c, e)
<1>0. call[c] \in CallRecords /\ day \in Days
  BY DEF AdmissionInv, AdmissionTypeOK, CallRecords
<1>1. ASSUME NEW place \in Places, Goto(c, place), call[c].at # "done", place # "count"
      PROVE  \E e \in CallRecords : call' = [call EXCEPT ![c] = e] /\ CallKept(c, e)
  <2> PICK e : e = [call[c] EXCEPT !.at = place]
    OBVIOUS
  <2>1. e \in CallRecords /\ CallKept(c, e)
    BY <1>0, <1>1 DEF CallRecords, CallKept
  <2>2. call' = [call EXCEPT ![c] = e]
    BY <1>1 DEF Goto
  <2> QED
    BY <1>1, <2>1, <2>2
<1>2. ASSUME NEW a \in Answers, AnswerCall(c, a)
      PROVE  \E e \in CallRecords : call' = [call EXCEPT ![c] = e] /\ CallKept(c, e)
  <2> PICK e : e = Ended(a)
    OBVIOUS
  <2>1. e \in CallRecords /\ CallKept(c, e)
    BY DEF CallRecords, Ended, Places, CallKept
  <2>2. call' = [call EXCEPT ![c] = e]
    BY <1>2 DEF AnswerCall
  <2> QED
    BY <1>2, <2>1, <2>2
<1>3. ASSUME AnswerRepeat(c) PROVE \E a \in Answers : AnswerCall(c, a)
  BY <1>3 DEF AnswerRepeat, Answers
<1>4. CASE Begin(c)
  BY <1>1, <1>2, <1>3, <1>4 DEF Begin, At, Places
<1>5. CASE Lock(c)
  BY <1>1, <1>2, <1>3, <1>5 DEF Lock, At, Places
<1>6. CASE Reserve(c)
  <2>1. CASE Full(day)
    BY <1>2, <1>6, <2>1 DEF Reserve, At, Answers
  <2>2. CASE ~Full(day)
    <3> DEFINE place == IF ManifestOf[c] \in Live THEN "count" ELSE "insert"
    <3> PICK e : e = [[call[c] EXCEPT !.booked = day] EXCEPT !.at = place]
      OBVIOUS
    <3>1. e \in CallRecords /\ CallKept(c, e)
      BY <1>0, <1>6 DEF CallRecords, Places, CallKept, Reserve, At
    <3>2. call' = [call EXCEPT ![c] = e]
      BY <1>6, <2>2 DEF Reserve, AdmissionInv, AdmissionTypeOK
    <3> QED
      BY <3>1, <3>2
  <2> QED
    BY <2>1, <2>2
<1>7. CASE Count(c)
  <2>1. CASE Cardinality(ActiveRuns) >= LimitOfDay(c)
    BY <1>2, <1>7, <2>1 DEF Count, At, Answers
  <2>2. CASE ~(Cardinality(ActiveRuns) >= LimitOfDay(c))
    <3> PICK e : e = [[call[c] EXCEPT !.at = "insert"] EXCEPT !.capDay = day]
      OBVIOUS
    <3>1. e \in CallRecords /\ CallKept(c, e)
      BY <1>0, <1>7 DEF CallRecords, Places, CallKept, Count, At
    <3>2. call' = [call EXCEPT ![c] = e]
      BY <1>7, <2>2 DEF Count, AdmissionInv, AdmissionTypeOK
    <3> QED
      BY <3>1, <3>2
  <2> QED
    BY <2>1, <2>2
<1>8. CASE Insert(c)
  BY <1>2, <1>8 DEF Insert, At, Answers
<1>9. CASE Violate(c)
  <2> PICK e : e = [Idle EXCEPT !.at = "reconcile"]
    OBVIOUS
  <2>1. e \in CallRecords /\ CallKept(c, e)
    BY DEF CallRecords, Idle, Places, Answers, CallKept
  <2>2. call' = [call EXCEPT ![c] = e]
    BY <1>9 DEF Violate
  <2> QED
    BY <2>1, <2>2
<1>10. CASE Reconcile(c)
  BY <1>2, <1>3, <1>10 DEF Reconcile, At, Answers
<1>11. CASE Abort(c)
  BY <1>2, <1>11 DEF Abort, Answers
<1> QED
  BY <1>4, <1>5, <1>6, <1>7, <1>8, <1>9, <1>10, <1>11 DEF CallStep

\* So an open call has no answer after any step.
LEMMA OpenStaysUnanswered ==
  ASSUME AdmissionInv, CallsKept, [AdmissionNext]_admissionVars
  PROVE  CallsKept'
<1>1. ASSUME NEW c \in Calls, CallStep(c) \/ Abort(c) PROVE CallsKept'
  <2>1. PICK e \in CallRecords : call' = [call EXCEPT ![c] = e] /\ CallKept(c, e)
    BY <1>1, CallMoves DEF CallsKept
  <2>2. call'[c] = e /\ \A b \in Calls \ {c} : call'[b] = call[b]
    BY <2>1 DEF AdmissionInv, AdmissionTypeOK
  <2> QED
    BY <2>1, <2>2 DEF CallsKept, CallKept
<1>2. ASSUME NEW c \in Calls, Repeat(c) PROVE CallsKept'
  <2>1. call'[c] = Idle /\ \A b \in Calls \ {c} : call'[b] = call[b]
    BY <1>2 DEF Repeat, AdmissionInv, AdmissionTypeOK
  <2>2. CallKept(c, Idle)
    BY DEF CallKept, Idle
  <2> QED
    BY <2>1, <2>2 DEF CallsKept, CallKept
<1>3. ASSUME UNCHANGED call PROVE CallsKept'
  BY <1>3 DEF CallsKept, CallKept
<1> QED
  BY <1>1, <1>2, <1>3 DEF AdmissionNext, Conclude, Collide, NextDay, Sweep, admissionVars

\* What a call is answered is told of it alone.
LEMMA OneIsTold ==
  ASSUME AdmissionInv, NEW c \in Calls, NEW e \in CallRecords, call' = [call EXCEPT ![c] = e]
  PROVE  AnswersTold' = [AnswersTold EXCEPT ![c] = e.answer] /\ AnswersTold[c] = call[c].answer
BY DEF AnswersTold, AdmissionInv, AdmissionTypeOK

\* An open call that is answered, and changes no row, is told what the ledger allows.
LEMMA AnswerIsTold ==
  ASSUME AdmissionInv, CallsKept, NEW c \in Calls, call[c].at # "done", NEW a \in Answers,
         AnswerCall(c, a)
  PROVE  Ledger!Answer(c, a)
<1> PICK e : e = Ended(a)
  OBVIOUS
<1>1. call' = [call EXCEPT ![c] = e] /\ e.answer = a /\ e \in CallRecords
  BY DEF AnswerCall, Ended, CallRecords, Places
<1>2. call[c].answer = "none"
  BY DEF CallsKept, CallKept
<1>3. AnswersTold' = [AnswersTold EXCEPT ![c] = a] /\ AnswersTold[c] = "none"
  BY <1>1, <1>2, OneIsTold
<1> QED
  BY <1>3 DEF Ledger!Answer, AnswersTold

\* The ledger counts as the admission does.
LEMMA SameCount == \A S : Ledger!Cardinality(S) = Cardinality(S)
BY DEF Ledger!Cardinality, Cardinality

\* Of a step that leaves the rows alone.
LEMMA RowsRest ==
  ASSUME UNCHANGED world
  PROVE  UNCHANGED <<day, runs, spent, LimitOn, cap>>
BY DEF world, LimitOn

LEMMA RepetitionIsTold ==
  ASSUME AdmissionInv, CallsKept, NEW c \in Calls, call[c].at # "done",
         runs[KeyOf[c]] # None, AnswerRepeat(c), UNCHANGED world
  PROVE  Ledger!Tell(c)
<1>1. UNCHANGED <<day, runs, spent, LimitOn, cap>>
  BY RowsRest
<1>2. CASE runs[KeyOf[c]].manifest = ManifestOf[c]
  <2>1. Ledger!Answer(c, "accepted")
    BY <1>2, AnswerIsTold DEF AnswerRepeat, Answers
  <2> QED
    BY <1>1, <1>2, <2>1 DEF Ledger!Tell, Ledger!Taken, LimitOn
<1>3. CASE runs[KeyOf[c]].manifest # ManifestOf[c]
  <2>1. Ledger!Answer(c, "conflict")
    BY <1>3, AnswerIsTold DEF AnswerRepeat, Answers
  <2> QED
    BY <1>1, <1>3, <2>1 DEF Ledger!Tell, Ledger!Taken, LimitOn
<1> QED
  BY <1>2, <1>3

\* A call that is only on its way.
LEMMA CallIsUnderWay ==
  ASSUME AdmissionInv, NEW c \in Calls, NEW e \in CallRecords, call' = [call EXCEPT ![c] = e],
         e.answer = call[c].answer, UNCHANGED world
  PROVE  UNCHANGED Ledger!ledgerVars
<1>1. AnswersTold' = AnswersTold
  BY OneIsTold DEF AnswersTold, AdmissionInv, AdmissionTypeOK
<1> QED
  BY <1>1, RowsRest DEF Ledger!ledgerVars, LimitOn, AnswersTold

\* A row that is full has as many runs as its limit.
LEMMA FullIsFull ==
  ASSUME AdmissionInv, NEW d \in Days
  PROVE  /\ Full(d) => LimitOn[d] # None /\ Cardinality(CreatedIn(d)) >= LimitOn[d]
         /\ ~Full(d) /\ ~(d + 2 <= day) =>
              \A c \in Calls : Cardinality(CreatedIn(d)) < (IF LimitOn[d] = None THEN DayLimit[c] ELSE LimitOn[d])
<1>1. LimitOn[d] = IF window[d] = None THEN None ELSE window[d].limit
  BY DEF LimitOn
<1>2. CASE window[d] = None
  <2>1. ~(d + 2 <= day) => CreatedIn(d) = {}
    BY <1>2 DEF AdmissionInv, QuotaIsExact
  <2>2. \A c \in Calls : DayLimit[c] \in Nat \ {0}
    BY AdmissionAssumption
  <2>3. LimitOn[d] = None /\ ~Full(d)
    BY <1>1, <1>2 DEF Full
  <2>4. ~(d + 2 <= day) => Cardinality(CreatedIn(d)) = 0
    BY <2>1, FS_EmptySet
  <2> QED
    BY <2>2, <2>3, <2>4
<1>3. CASE window[d] # None
  <2>1. window[d] \in [limit : Nat, used : Nat]
    BY <1>3 DEF AdmissionInv, AdmissionTypeOK
  <2>2. window[d].used = Cardinality(CreatedIn(d))
    BY <1>3 DEF AdmissionInv, QuotaIsExact
  <2>3. window[d].limit # None
    BY <2>1, AdmissionAssumption
  <2> QED
    BY <1>1, <1>3, <2>1, <2>2, <2>3 DEF Full
<1> QED
  BY <1>2, <1>3

\* The insertion of a run is its admission.
LEMMA InsertAdmits ==
  ASSUME AdmissionInv, CallsKept, NEW c \in Calls, Insert(c)
  PROVE  Ledger!Admit(c)
<1> PICK b : b = call[c].booked
  OBVIOUS
<1>1. /\ KeyOf[c] \in Keys /\ runs[KeyOf[c]] = None /\ b \in Days
      /\ (day = b \/ day = b + 1) /\ ~(b + 2 <= day)
  <2>1. KeyOf[c] \in Keys /\ runs[KeyOf[c]] = None /\ b \in Days /\ (day = b \/ day = b + 1)
    BY InsertBooks
  <2> QED
    BY <2>1, AdmissionAssumption DEF Days, AdmissionInv, AdmissionTypeOK
<1>2. b \in Ledger!Recent
  BY <1>1, AdmissionAssumption DEF Ledger!Recent, Ledger!Days, Days, AdmissionInv, AdmissionTypeOK
<1>3. Cardinality(CreatedIn(b)) < (IF LimitOn[b] = None THEN DayLimit[c] ELSE LimitOn[b])
  BY <1>1, FullIsFull DEF Insert, At, AdmissionInv, CallHolds, ReservationHolds
<1>4. LimitOn' = [LimitOn EXCEPT ![b] = IF LimitOn[b] = None THEN DayLimit[c] ELSE LimitOn[b]]
  <2>1. window' = [d \in Days |-> Booked(c, d)]
    BY DEF Insert
  <2>2. \A d \in Days \ {b} : window'[d] = window[d]
    BY <2>1 DEF Booked
  <2>3. LimitOn'[b] = IF LimitOn[b] = None THEN DayLimit[c] ELSE LimitOn[b]
    <3>1. CASE window[b] = None
      <4>1. window'[b] = [limit |-> DayLimit[c], used |-> 1]
        BY <1>1, <2>1, <3>1 DEF Booked
      <4>2. window'[b] # None
        BY <4>1, AdmissionAssumption
      <4> QED
        BY <1>1, <3>1, <4>1, <4>2 DEF LimitOn
    <3>2. CASE window[b] # None
      <4>1. window[b] \in [limit : Nat, used : Nat]
        BY <1>1, <3>2 DEF AdmissionInv, AdmissionTypeOK
      <4>2. window'[b] = [window[b] EXCEPT !.used = @ + 1]
        BY <1>1, <2>1, <3>2 DEF Booked
      <4>3. window'[b] \in [limit : Nat, used : Nat] /\ window'[b].limit = window[b].limit
        BY <4>1, <4>2
      <4>4. window'[b] # None /\ window[b].limit # None
        BY <4>1, <4>3, AdmissionAssumption
      <4> QED
        BY <1>1, <3>2, <4>3, <4>4 DEF LimitOn
    <3> QED
      BY <3>1, <3>2
  <2>4. \A d \in Days \ {b} : LimitOn'[d] = LimitOn[d]
    BY <2>2 DEF LimitOn
  <2> QED
    BY <1>1, <2>3, <2>4 DEF LimitOn
<1>5. Ledger!Charge(c, b)
  BY SameCount, <1>1, <1>3, <1>4 DEF Ledger!Charge, Ledger!Taken, Ledger!CreatedIn, Ledger!LimitFor,
     CreatedIn, LimitOn, Insert, CreatedOn
<1>6. Ledger!WithinCap(c)
  <2> PICK f : f = call[c].capDay
    OBVIOUS
  <2>0. f \in Days \cup {None} /\ (f # None => ManifestOf[c] \in Live)
    BY DEF AdmissionInv, AdmissionTypeOK, CallsKept, CallKept
  <2>1. cap' = [d \in Days |-> IF d = f THEN CapFor(c, d) ELSE cap[d]]
    BY DEF Insert
  <2>2. cap \in [Days -> Nat \cup {None}]
    BY DEF AdmissionInv, AdmissionTypeOK
  <2>3. CASE ManifestOf[c] \notin Live
    <3>1. f \notin Days
      BY <2>0, <2>3, AdmissionAssumption DEF Days
    <3>2. cap' = cap
      BY <2>1, <2>2, <3>1
    <3> QED
      BY <2>3, <3>2 DEF Ledger!WithinCap
  <2>4. CASE ManifestOf[c] \in Live
    <3>1. f \in Days /\ (day = f \/ day = f + 1) /\ Cardinality(ActiveRuns) < CapFor(c, f)
      BY <2>4 DEF Insert, At, AdmissionInv, CallHolds, CountHolds
    <3>2. f \in Ledger!Recent
      BY <3>1, AdmissionAssumption DEF Ledger!Recent, Ledger!Days, Days, AdmissionInv, AdmissionTypeOK
    <3>3. cap' = [cap EXCEPT ![f] = CapFor(c, f)]
      BY <2>1, <2>2, <3>1
    <3>4. Ledger!Cardinality(Ledger!ActiveRuns) < Ledger!CapFor(c, f) /\ Ledger!CapFor(c, f) = CapFor(c, f)
      BY <3>1, SameCount DEF Ledger!ActiveRuns, Ledger!CapFor, ActiveRuns, CapFor
    <3> QED
      BY <2>4, <3>2, <3>3, <3>4 DEF Ledger!WithinCap
  <2> QED
    BY <2>3, <2>4
<1>7. PICK a \in {"accepted", "error"} : AnswerCall(c, a)
  BY DEF Insert
<1>8. Ledger!Answer(c, a)
  BY <1>7, AnswerIsTold DEF Insert, At, Answers
<1> QED
  BY <1>2, <1>5, <1>6, <1>8 DEF Ledger!Admit, Insert

\* Any other step of a call tells it something, or nothing yet.
LEMMA CallTells ==
  ASSUME AdmissionInv, CallsKept, NEW c \in Calls, (CallStep(c) /\ ~Insert(c)) \/ Abort(c)
  PROVE  Ledger!Tell(c) \/ UNCHANGED Ledger!ledgerVars
<1>0. UNCHANGED world /\ UNCHANGED <<day, runs, spent, LimitOn, cap>>
  <2>1. UNCHANGED world
    BY DEF CallStep, Begin, Lock, Reserve, Count, Violate, Reconcile, Abort, world
  <2> QED
    BY <2>1, RowsRest
<1>1. call[c] \in CallRecords /\ day \in Days
  BY DEF AdmissionInv, AdmissionTypeOK, CallRecords
<1>2. ASSUME NEW place \in Places, Goto(c, place) PROVE UNCHANGED Ledger!ledgerVars
  <2> PICK e : e = [call[c] EXCEPT !.at = place]
    OBVIOUS
  <2>1. e \in CallRecords /\ e.answer = call[c].answer /\ call' = [call EXCEPT ![c] = e]
    BY <1>1, <1>2 DEF CallRecords, Goto
  <2> QED
    BY <1>0, <2>1, CallIsUnderWay
<1>3. CASE Begin(c)
  <2>1. CASE runs[KeyOf[c]] # None
    BY <1>0, <1>3, <2>1, RepetitionIsTold DEF Begin, At
  <2>2. CASE runs[KeyOf[c]] = None
    BY <1>2, <1>3, <2>2 DEF Begin, Places
  <2> QED
    BY <2>1, <2>2
<1>4. CASE Lock(c)
  <2>1. CASE runs[KeyOf[c]] # None
    BY <1>0, <1>4, <2>1, RepetitionIsTold DEF Lock, At
  <2>2. CASE runs[KeyOf[c]] = None
    BY <1>2, <1>4, <2>2 DEF Lock, Places
  <2> QED
    BY <2>1, <2>2
<1>5. CASE Reserve(c)
  <2>1. CASE Full(day)
    <3>1. Ledger!Answer(c, "daily")
      BY <1>5, <2>1, AnswerIsTold DEF Reserve, At, Answers
    <3>2. LimitOn[day] # None /\ Ledger!Cardinality(Ledger!CreatedIn(day)) >= LimitOn[day]
      BY <1>1, <2>1, FullIsFull, SameCount DEF Ledger!CreatedIn, CreatedIn
    <3> QED
      BY <1>0, <3>1, <3>2 DEF Ledger!Tell, LimitOn
  <2>2. CASE ~Full(day)
    <3> DEFINE place == IF ManifestOf[c] \in Live THEN "count" ELSE "insert"
    <3> PICK e : e = [[call[c] EXCEPT !.booked = day] EXCEPT !.at = place]
      OBVIOUS
    <3>1. e \in CallRecords /\ e.answer = call[c].answer
      BY <1>1 DEF CallRecords, Places
    <3>2. call' = [call EXCEPT ![c] = e]
      BY <1>5, <2>2 DEF Reserve, AdmissionInv, AdmissionTypeOK
    <3> QED
      BY <1>0, <3>1, <3>2, CallIsUnderWay
  <2> QED
    BY <2>1, <2>2
<1>6. CASE Count(c)
  <2>1. CASE Cardinality(ActiveRuns) >= LimitOfDay(c)
    <3>1. Ledger!Answer(c, "active")
      BY <1>6, <2>1, AnswerIsTold DEF Count, At, Answers
    <3>2. ManifestOf[c] \in Live
      BY <1>6 DEF Count, At, CallsKept, CallKept
    <3>3. Ledger!Cardinality(Ledger!ActiveRuns) >= Ledger!CapFor(c, day)
      BY <2>1, SameCount DEF Ledger!ActiveRuns, Ledger!CapFor, ActiveRuns, CapFor, LimitOfDay
    <3> QED
      BY <1>0, <3>1, <3>2, <3>3 DEF Ledger!Tell, LimitOn
  <2>2. CASE ~(Cardinality(ActiveRuns) >= LimitOfDay(c))
    <3> PICK e : e = [[call[c] EXCEPT !.at = "insert"] EXCEPT !.capDay = day]
      OBVIOUS
    <3>1. e \in CallRecords /\ e.answer = call[c].answer
      BY <1>1 DEF CallRecords, Places
    <3>2. call' = [call EXCEPT ![c] = e]
      BY <1>6, <2>2 DEF Count, AdmissionInv, AdmissionTypeOK
    <3> QED
      BY <1>0, <3>1, <3>2, CallIsUnderWay
  <2> QED
    BY <2>1, <2>2
<1>7. CASE Violate(c)
  <2> PICK e : e = [Idle EXCEPT !.at = "reconcile"]
    OBVIOUS
  <2>1. e \in CallRecords /\ e.answer = "none"
    BY DEF CallRecords, Idle, Places, Answers
  <2>2. call' = [call EXCEPT ![c] = e] /\ call[c].answer = "none"
    BY <1>7 DEF Violate, At, CallsKept, CallKept
  <2> QED
    BY <1>0, <2>1, <2>2, CallIsUnderWay
<1>8. CASE Reconcile(c)
  <2>1. CASE runs[KeyOf[c]] # None
    BY <1>0, <1>8, <2>1, RepetitionIsTold DEF Reconcile, At
  <2>2. CASE runs[KeyOf[c]] = None
    <3>1. KeyOf[c] \in spent
      BY <1>8, <2>2 DEF Reconcile, At, AdmissionInv, CallHolds, ViolationIsThere
    <3>2. Ledger!Answer(c, "conflict")
      BY <1>8, <2>2, AnswerIsTold DEF Reconcile, At, Answers
    <3> QED
      BY <1>0, <3>1, <3>2 DEF Ledger!Tell, LimitOn
  <2> QED
    BY <2>1, <2>2
<1>9. CASE Abort(c)
  <2>1. Ledger!Answer(c, "error")
    BY <1>9, AnswerIsTold DEF Abort, Answers
  <2> QED
    BY <1>0, <2>1 DEF Ledger!Tell, LimitOn
<1> QED
  BY <1>3, <1>4, <1>5, <1>6, <1>7, <1>8, <1>9 DEF CallStep

\* Every step of the admission is one of the ledger, or none.
LEMMA AdmissionIsLedgerStep ==
  ASSUME AdmissionInv, CallsKept, [AdmissionNext]_admissionVars
  PROVE  [Ledger!LedgerNext]_(Ledger!ledgerVars)
<1> SUFFICES \/ \E c \in Calls : Ledger!Admit(c) \/ Ledger!Tell(c) \/ Ledger!AskAgain(c)
             \/ \E k \in Keys : Ledger!Finish(k) \/ Ledger!Spend(k)
             \/ Ledger!Tomorrow
             \/ \E d \in Days : Ledger!Forget(d)
             \/ UNCHANGED Ledger!ledgerVars
  BY DEF Ledger!LedgerNext, Ledger!Days, Days
<1>1. ASSUME NEW c \in Calls, Insert(c) PROVE Ledger!Admit(c)
  BY <1>1, InsertAdmits
<1>2. ASSUME NEW c \in Calls, (CallStep(c) /\ ~Insert(c)) \/ Abort(c)
      PROVE  Ledger!Tell(c) \/ UNCHANGED Ledger!ledgerVars
  BY <1>2, CallTells
<1>3. ASSUME NEW c \in Calls, Repeat(c) PROVE Ledger!AskAgain(c)
  <2>1. Idle \in CallRecords /\ Idle.answer = "none"
    BY DEF Idle, CallRecords, Places, Answers
  <2>2. UNCHANGED world /\ call' = [call EXCEPT ![c] = Idle] /\ call[c].answer \in {"error", "daily", "active"}
    BY <1>3 DEF Repeat, world
  <2>3. AnswersTold' = [AnswersTold EXCEPT ![c] = "none"] /\ AnswersTold[c] \in {"error", "daily", "active"}
    BY <2>1, <2>2, OneIsTold
  <2>4. UNCHANGED <<day, runs, spent, LimitOn, cap>>
    BY <2>2, RowsRest
  <2> QED
    BY <2>3, <2>4 DEF Ledger!AskAgain, AnswersTold, LimitOn
<1>4. ASSUME NEW k \in Keys, Conclude(k) PROVE Ledger!Finish(k)
  BY <1>4 DEF Conclude, Ledger!Finish
<1>5. ASSUME NEW k \in Keys, Collide(k) PROVE Ledger!Spend(k)
  BY <1>5 DEF Collide, Ledger!Spend
<1>6. ASSUME NextDay PROVE Ledger!Tomorrow
  BY <1>6 DEF NextDay, Ledger!Tomorrow
<1>7. ASSUME NEW d \in Days, Sweep(d) PROVE Ledger!Forget(d)
  <2>1. UNCHANGED <<day, runs, spent, call>> /\ d + 2 <= day
    BY <1>7 DEF Sweep
  <2>2. CASE window' = [window EXCEPT ![d] = None] /\ UNCHANGED cap
    <3>1. LimitOn' = [LimitOn EXCEPT ![d] = None]
      BY <2>2 DEF LimitOn, AdmissionInv, AdmissionTypeOK
    <3> QED
      BY <2>1, <2>2, <3>1 DEF Ledger!Forget, LimitOn
  <2>3. CASE cap' = [cap EXCEPT ![d] = None] /\ UNCHANGED window
    BY <2>1, <2>3 DEF Ledger!Forget
  <2> QED
    BY <1>7, <2>2, <2>3 DEF Sweep
<1>8. CASE UNCHANGED admissionVars
  BY <1>8 DEF admissionVars, Ledger!ledgerVars
<1> QED
  BY <1>1, <1>2, <1>3, <1>4, <1>5, <1>6, <1>7, <1>8 DEF AdmissionNext

\* createRun (production-service.ts) is linearizable: with its statements, its locks and its
\* counted rows it does what a ledger does that counts the runs themselves and answers each
\* call in one step, for any number of calls, keys, days and differently configured processes.
THEOREM AdmissionImplementsLedger == AdmissionSpec => ImplementsLedger
<1>1. AdmissionInit => AdmissionInv /\ CallsKept
  BY AdmissionInitially DEF AdmissionInit, CallsKept, CallKept, Idle
<1>2. AdmissionInit => Ledger!LedgerInit
  <2> SUFFICES ASSUME AdmissionInit PROVE Ledger!LedgerInit
    OBVIOUS
  <2>1. LimitOn = [d \in Days |-> None] /\ AnswersTold = [c \in Calls |-> "none"]
    BY DEF AdmissionInit, LimitOn, AnswersTold, Idle
  <2> QED
    BY <2>1 DEF AdmissionInit, Ledger!LedgerInit, Ledger!Days, Days, LimitOn, AnswersTold
<1>3. AdmissionInv /\ [AdmissionNext]_admissionVars => AdmissionInv'
  BY AdmissionStep
<1>4. AdmissionInv /\ CallsKept /\ [AdmissionNext]_admissionVars => CallsKept'
  BY OpenStaysUnanswered
<1>5. AdmissionInv /\ CallsKept /\ [AdmissionNext]_admissionVars => [Ledger!LedgerNext]_(Ledger!ledgerVars)
  BY AdmissionIsLedgerStep
<1> QED
  BY <1>1, <1>2, <1>3, <1>4, <1>5, PTL DEF AdmissionSpec, ImplementsLedger, Ledger!LedgerSpec

\* createRun (production-service.ts) keeps its promise for any number of calls, keys and
\* differently configured processes: exact daily quotas, answers that tell the intent,
\* live runs within the cap stored for their day, and calls that take effect at once.
THEOREM AdmissionKeepsItsPromise == AdmissionSpec => AdmissionPromise
<1>1. AdmissionInv => QuotaIsExact /\ AnswersTellTheIntent
  BY DEF AdmissionInv, CallHolds, Truthful, AnswersTellTheIntent
<1>2. AdmissionInv /\ [AdmissionNext]_admissionVars =>
        [\/ ActiveRuns' \subseteq ActiveRuns
         \/ \E d \in {day, day - 1} \cap Days :
              cap'[d] # None /\ Cardinality(ActiveRuns') <= cap'[d]]_admissionVars
  BY AdmissionStep
<1>3. AdmissionInv /\ [AdmissionNext]_admissionVars => AdmissionInv'
  BY AdmissionStep
<1>4. AdmissionSpec => []QuotaIsExact /\ []AnswersTellTheIntent /\ AdmittedWithinCap
  BY <1>1, <1>2, <1>3, AdmissionInitially, PTL DEF AdmissionSpec, AdmittedWithinCap
<1> QED
  BY <1>4, AdmissionImplementsLedger DEF AdmissionPromise

---------------------------------------------------------------------------
(* Wallet sessions: challenges and their quotas.                           *)

LimitOf(s) == IF s = Global THEN GlobalLimit ELSE AddressLimit

RequestRecords == [at : RequestPlaces, minute : Minutes \cup {None}]

RequestTypes ==
  /\ minute \in Minutes
  /\ used \in [Minutes \X Subjects -> Nat]
  /\ held \in [Minutes \X Subjects -> Requests \cup {None}]
  /\ challenge \in [Requests -> Challenge]
  /\ request \in [Requests -> RequestRecords]

\* A request knows its minute from the clock on, and issues its challenge last.
RequestKnowsItsMinute(r) ==
  /\ request[r].at \in {"address", "global", "insert"} => request[r].minute \in Minutes
  /\ request[r].at \in {"idle", "clock", "address", "global", "insert"} =>
       challenge[r].status = "none"

\* It holds the rows of its minute that it has passed, and no other.
HasPassed(r, m, s) ==
  /\ m = request[r].minute
  /\ \/ request[r].at \in {"global", "insert"} /\ s = AddressOf[r]
     \/ request[r].at = "insert" /\ s = Global

RowsHeld(r) ==
  \A m \in Minutes, s \in Subjects : held[<<m, s>>] = r <=> HasPassed(r, m, s)

\* No row counts more than its limit, and one that is held has room.
RowsHaveRoom ==
  \A m \in Minutes, s \in Subjects :
    /\ used[<<m, s>>] <= LimitOf(s)
    /\ held[<<m, s>>] # None => used[<<m, s>>] < LimitOf(s)

\* A challenge is issued when it opens; rows that are kept count the challenges.
ChallengesCounted ==
  /\ \A r \in Requests : challenge[r].status = "none" => challenge[r].issued = None
  /\ \A m \in Minutes, s \in Subjects :
       /\ IsFiniteSet(IssuedIn(m, s))
       /\ ~Old(m + 1) => Cardinality(IssuedIn(m, s)) = used[<<m, s>>]

RequestsInv ==
  /\ RequestTypes
  /\ \A r \in Requests : RequestKnowsItsMinute(r) /\ RowsHeld(r)
  /\ RowsHaveRoom
  /\ ChallengesCounted

\* The state at the start satisfies the invariant of requests.
LEMMA RequestsInitially == WalletInit => RequestsInv
<1> SUFFICES ASSUME WalletInit PROVE RequestsInv
  OBVIOUS
<1> USE WalletAssumption DEF WalletInit
<1>1. RequestTypes
  BY DEF RequestTypes, RequestRecords, RequestPlaces, Challenge, Minutes
<1>2. ASSUME NEW r \in Requests PROVE RequestKnowsItsMinute(r) /\ RowsHeld(r)
  BY DEF RequestKnowsItsMinute, RowsHeld, HasPassed
<1>3. RowsHaveRoom
  BY DEF RowsHaveRoom, LimitOf
<1>4. ChallengesCounted
  <2>1. \A m \in Minutes : None # m
    BY DEF Minutes
  <2>2. ASSUME NEW m \in Minutes, NEW s \in Subjects
        PROVE  IssuedIn(m, s) = {} /\ used[<<m, s>>] = 0
    BY <2>1 DEF IssuedIn
  <2> QED
    BY <2>2, FS_EmptySet DEF ChallengesCounted
<1> QED
  BY <1>1, <1>2, <1>3, <1>4 DEF RequestsInv

\* What rows are like after a request has let go of its own.
LEMMA RowsReleased ==
  ASSUME RequestTypes, NEW r \in Requests, ReleaseRows(r)
  PROVE  /\ held' \in [Minutes \X Subjects -> Requests \cup {None}]
         /\ \A m \in Minutes, s \in Subjects :
              held'[<<m, s>>] = (IF held[<<m, s>>] = r THEN None ELSE held[<<m, s>>])
BY DEF RequestTypes, ReleaseRows

\* A step of one request that issues nothing keeps the invariant if its own part of it
\* holds afterwards, and it leaves the rows of others.
LEMMA OneRequestMoves ==
  ASSUME
    RequestsInv, NEW r \in Requests, UNCHANGED <<minute, used, challenge>>,
    NEW e \in RequestRecords, request' = [request EXCEPT ![r] = e],
    held' \in [Minutes \X Subjects -> Requests \cup {None}],
    \A o \in Requests \ {r} : \A m \in Minutes, s \in Subjects :
      held'[<<m, s>>] = o <=> held[<<m, s>>] = o,
    RequestKnowsItsMinute(r)', RowsHeld(r)', RowsHaveRoom'
  PROVE  RequestsInv'
<1>1. RequestTypes'
  BY DEF RequestsInv, RequestTypes
<1>2. ASSUME NEW o \in Requests PROVE RequestKnowsItsMinute(o)' /\ RowsHeld(o)'
  <2>1. CASE o = r
    BY <2>1
  <2>2. CASE o # r
    <3>1. request'[o] = request[o]
      BY <2>2 DEF RequestsInv, RequestTypes
    <3>2. RequestKnowsItsMinute(o) /\ RowsHeld(o)
      BY DEF RequestsInv
    <3>3. RequestKnowsItsMinute(o)'
      BY <3>1, <3>2 DEF RequestKnowsItsMinute
    <3>4. RowsHeld(o)'
      <4>1. ASSUME NEW m \in Minutes, NEW s \in Subjects
            PROVE  held'[<<m, s>>] = o <=> HasPassed(o, m, s)'
        <5>1. held[<<m, s>>] = o <=> HasPassed(o, m, s)
          BY <3>2 DEF RowsHeld
        <5>2. held'[<<m, s>>] = o <=> held[<<m, s>>] = o
          BY <2>2
        <5> QED
          BY <3>1, <5>1, <5>2 DEF HasPassed
      <4> QED
        BY <4>1 DEF RowsHeld
    <3> QED
      BY <3>3, <3>4
  <2> QED
    BY <2>1, <2>2
<1>3. ChallengesCounted'
  BY DEF RequestsInv, ChallengesCounted, IssuedIn, Old
<1> QED
  BY <1>1, <1>2, <1>3 DEF RequestsInv

\* A request that ends without a challenge lets go of its rows.
LEMMA RequestEnds ==
  ASSUME RequestsInv, NEW r \in Requests, UNCHANGED <<minute, used, challenge>>,
         ReleaseRows(r), RequestGoes(r, "done")
  PROVE  RequestsInv'
<1> PICK e : e = [request[r] EXCEPT !.at = "done"]
  OBVIOUS
<1>1. /\ e \in RequestRecords /\ request' = [request EXCEPT ![r] = e]
      /\ request'[r].at = "done" /\ request'[r].minute = request[r].minute
  BY DEF RequestGoes, RequestRecords, RequestPlaces, RequestsInv, RequestTypes
<1>2. /\ held' \in [Minutes \X Subjects -> Requests \cup {None}]
      /\ \A m \in Minutes, s \in Subjects :
           held'[<<m, s>>] = (IF held[<<m, s>>] = r THEN None ELSE held[<<m, s>>])
  BY RowsReleased DEF RequestsInv
<1>3. \A o \in Requests \ {r} : \A m \in Minutes, s \in Subjects :
        held'[<<m, s>>] = o <=> held[<<m, s>>] = o
  BY <1>2, WalletAssumption
<1>4. RequestKnowsItsMinute(r)'
  BY <1>1 DEF RequestKnowsItsMinute
<1>5. RowsHeld(r)'
  BY <1>1, <1>2, WalletAssumption DEF RowsHeld, HasPassed
<1>6. RowsHaveRoom'
  BY <1>2 DEF RowsHaveRoom, RequestsInv
<1> QED
  BY <1>1, <1>2, <1>3, <1>4, <1>5, <1>6, OneRequestMoves

\* A request has a connection and a minute before it has a row.
LEMMA ConnectAndReadClockKeep ==
  ASSUME RequestsInv, NEW r \in Requests, Connect(r) \/ ReadClock(r)
  PROVE  RequestsInv'
<1>1. PICK e \in RequestRecords :
        /\ request' = [request EXCEPT ![r] = e]
        /\ e.at = "clock" \/ (e.at = "address" /\ e.minute \in Minutes)
  <2>1. CASE Connect(r)
    <3>1. [request[r] EXCEPT !.at = "clock"] \in RequestRecords
      BY DEF RequestsInv, RequestTypes, RequestRecords, RequestPlaces
    <3> QED
      BY <2>1, <3>1 DEF Connect, RequestGoes, RequestRecords, RequestsInv, RequestTypes
  <2>2. CASE ReadClock(r)
    <3>1. [at |-> "address", minute |-> minute] \in RequestRecords /\ minute \in Minutes
      BY DEF RequestsInv, RequestTypes, RequestRecords, RequestPlaces
    <3> QED
      BY <2>2, <3>1 DEF ReadClock
  <2> QED
    BY <2>1, <2>2
<1>2. UNCHANGED <<minute, used, challenge, held>>
  BY DEF Connect, ReadClock
<1>3. request[r].at \in {"idle", "clock"} /\ request'[r] = e
  BY <1>1 DEF Connect, ReadClock, RequestAt, RequestsInv, RequestTypes
<1>4. RequestKnowsItsMinute(r)'
  BY <1>1, <1>2, <1>3 DEF RequestKnowsItsMinute, RequestsInv
<1>5. RowsHeld(r)'
  <2>1. ASSUME NEW m \in Minutes, NEW s \in Subjects
        PROVE  held'[<<m, s>>] = r <=> HasPassed(r, m, s)'
    <3>1. held[<<m, s>>] = r <=> HasPassed(r, m, s)
      BY DEF RowsHeld, RequestsInv
    <3> QED
      BY <1>1, <1>2, <1>3, <3>1 DEF HasPassed
  <2> QED
    BY <2>1 DEF RowsHeld
<1>6. RowsHaveRoom' /\ held' \in [Minutes \X Subjects -> Requests \cup {None}]
  BY <1>2 DEF RowsHaveRoom, RequestsInv, RequestTypes
<1> QED
  BY <1>1, <1>2, <1>4, <1>5, <1>6, OneRequestMoves

\* It takes a row that has room and that nobody else has, or ends.
LEMMA ReserveChallengeKeeps ==
  ASSUME RequestsInv, NEW r \in Requests, ReserveChallenge(r)
  PROVE  RequestsInv'
<1> PICK m : m = request[r].minute
  OBVIOUS
<1> PICK s : s = SubjectAt(r)
  OBVIOUS
<1> PICK place : place = NextPlace(r)
  OBVIOUS
<1>0. UNCHANGED <<minute, used, challenge>> /\ request[r].at \in {"address", "global"}
  BY DEF ReserveChallenge
<1>1. m \in Minutes /\ s \in Subjects
  BY <1>0, WalletAssumption DEF RequestsInv, RequestKnowsItsMinute, SubjectAt, Subjects
<1>2. CASE ~(used[<<m, s>>] < LimitAt(r))
  BY <1>0, <1>2, RequestEnds DEF ReserveChallenge
<1>3. CASE used[<<m, s>>] < LimitAt(r)
  <2> PICK e : e = [request[r] EXCEPT !.at = place]
    OBVIOUS
  <2>1. /\ e \in RequestRecords /\ request' = [request EXCEPT ![r] = e]
        /\ request'[r].at = place /\ request'[r].minute = m
    BY <1>3 DEF ReserveChallenge, RequestGoes, NextPlace, RequestRecords, RequestPlaces,
       RequestsInv, RequestTypes
  <2>2. held' = [held EXCEPT ![<<m, s>>] = r] /\ held[<<m, s>>] \in {None, r}
    BY <1>3 DEF ReserveChallenge
  <2>3. held' \in [Minutes \X Subjects -> Requests \cup {None}]
    BY <2>2 DEF RequestsInv, RequestTypes
  <2>4. \A x \in Minutes, y \in Subjects :
          held'[<<x, y>>] = (IF x = m /\ y = s THEN r ELSE held[<<x, y>>])
    BY <2>2 DEF RequestsInv, RequestTypes
  <2>5. \A o \in Requests \ {r} : \A x \in Minutes, y \in Subjects :
          held'[<<x, y>>] = o <=> held[<<x, y>>] = o
    <3>1. ASSUME NEW o \in Requests \ {r}, NEW x \in Minutes, NEW y \in Subjects
          PROVE  held'[<<x, y>>] = o <=> held[<<x, y>>] = o
      <4>1. o # r /\ o # None
        BY WalletAssumption
      <4>2. held'[<<x, y>>] = (IF x = m /\ y = s THEN r ELSE held[<<x, y>>])
        BY <2>4
      <4>3. CASE x = m /\ y = s
        BY <2>2, <4>1, <4>2, <4>3
      <4>4. CASE ~(x = m /\ y = s)
        BY <4>2, <4>4
      <4> QED
        BY <4>3, <4>4
    <3> QED
      BY <3>1
  <2>6. RequestKnowsItsMinute(r)'
    BY <1>0, <1>1, <2>1 DEF RequestKnowsItsMinute, RequestsInv
  <2>7. RowsHeld(r)'
    <3>1. ASSUME NEW x \in Minutes, NEW y \in Subjects
          PROVE  held'[<<x, y>>] = r <=> HasPassed(r, x, y)'
      <4>1. held[<<x, y>>] = r <=> HasPassed(r, x, y)
        BY DEF RowsHeld, RequestsInv
      <4>2. held'[<<x, y>>] = (IF x = m /\ y = s THEN r ELSE held[<<x, y>>])
        BY <2>4
      <4>3. AddressOf[r] # Global
        BY WalletAssumption
      <4> QED
        BY <1>0, <2>1, <4>1, <4>2, <4>3 DEF HasPassed, NextPlace, SubjectAt, RequestAt
    <3> QED
      BY <3>1 DEF RowsHeld
  <2>8. RowsHaveRoom'
    <3>1. LimitAt(r) = LimitOf(s)
      BY <1>0, WalletAssumption DEF LimitAt, LimitOf, SubjectAt
    <3> QED
      BY <1>0, <1>3, <2>4, <3>1 DEF RowsHaveRoom, RequestsInv
  <2> QED
    BY <1>0, <2>1, <2>3, <2>5, <2>6, <2>7, <2>8, OneRequestMoves
<1> QED
  BY <1>2, <1>3

\* What the insertion of a challenge finds: its request has the rows of its address and
\* of all, and no other row.
LEMMA InsertFinds ==
  ASSUME RequestsInv, NEW r \in Requests, InsertChallenge(r)
  PROVE  /\ request[r].minute \in Minutes
         /\ challenge[r].status = "none" /\ challenge[r].issued = None
         /\ challenge' = [challenge EXCEPT ![r] = [status |-> "open", issued |-> request[r].minute]]
         /\ challenge'[r].status = "open" /\ challenge'[r].issued = request[r].minute
         /\ \A o \in Requests \ {r} : challenge'[o] = challenge[o]
         /\ \A m \in Minutes, s \in Subjects :
              held[<<m, s>>] = r <=> m = request[r].minute /\ s \in {AddressOf[r], Global}
<1>1. request[r].minute \in Minutes /\ challenge[r].status = "none"
  BY DEF InsertChallenge, RequestAt, RequestsInv, RequestKnowsItsMinute
<1>2. challenge[r].issued = None
  BY <1>1 DEF RequestsInv, ChallengesCounted
<1>3. challenge' = [challenge EXCEPT ![r] = [status |-> "open", issued |-> request[r].minute]]
  BY DEF InsertChallenge, IssueTime
<1>4. ASSUME NEW m \in Minutes, NEW s \in Subjects
      PROVE  held[<<m, s>>] = r <=> m = request[r].minute /\ s \in {AddressOf[r], Global}
  <2>1. held[<<m, s>>] = r <=> HasPassed(r, m, s)
    BY DEF RowsHeld, RequestsInv
  <2> QED
    BY <2>1 DEF HasPassed, InsertChallenge, RequestAt
<1>5. /\ challenge'[r].status = "open" /\ challenge'[r].issued = request[r].minute
      /\ \A o \in Requests \ {r} : challenge'[o] = challenge[o]
  BY <1>3 DEF RequestsInv, RequestTypes
<1> QED
  BY <1>1, <1>2, <1>3, <1>4, <1>5

\* Its two rows count one more, and its challenge is one more of its minute.
LEMMA InsertIsCounted ==
  ASSUME RequestsInv, NEW r \in Requests, InsertChallenge(r)
  PROVE  ChallengesCounted' /\ RowsHaveRoom' /\ used' \in [Minutes \X Subjects -> Nat]
<1>0. /\ request[r].minute \in Minutes
      /\ challenge[r].status = "none" /\ challenge[r].issued = None
      /\ challenge'[r].status = "open" /\ challenge'[r].issued = request[r].minute
      /\ \A o \in Requests \ {r} : challenge'[o] = challenge[o]
      /\ \A m \in Minutes, s \in Subjects :
           held[<<m, s>>] = r <=> m = request[r].minute /\ s \in {AddressOf[r], Global}
  BY InsertFinds
<1>1. /\ used' = [q \in DOMAIN used |-> IF held[q] = r THEN used[q] + 1 ELSE used[q]]
      /\ minute' = minute
  BY DEF InsertChallenge
<1>2. /\ used' \in [Minutes \X Subjects -> Nat]
      /\ \A m \in Minutes, s \in Subjects :
           used'[<<m, s>>] = (IF held[<<m, s>>] = r THEN used[<<m, s>>] + 1 ELSE used[<<m, s>>])
  BY <1>1 DEF RequestsInv, RequestTypes
<1>3. ASSUME NEW m \in Minutes, NEW s \in Subjects
      PROVE  /\ IsFiniteSet(IssuedIn(m, s))'
             /\ ~Old(m + 1)' => Cardinality(IssuedIn(m, s))' = used'[<<m, s>>]
  <2>1. IsFiniteSet(IssuedIn(m, s)) /\ (~Old(m + 1) => Cardinality(IssuedIn(m, s)) = used[<<m, s>>])
    BY DEF RequestsInv, ChallengesCounted
  <2>2. None # m
    BY WalletAssumption DEF Minutes
  <2>3. Old(m + 1)' <=> Old(m + 1)
    BY <1>1 DEF Old
  <2>4. CASE held[<<m, s>>] = r
    <3>1. IssuedIn(m, s)' = IssuedIn(m, s) \cup {r} /\ r \notin IssuedIn(m, s)
      BY <1>0, <2>2, <2>4 DEF IssuedIn
    <3>2. /\ IsFiniteSet(IssuedIn(m, s)')
          /\ Cardinality(IssuedIn(m, s)') = Cardinality(IssuedIn(m, s)) + 1
      BY <2>1, <3>1, FS_AddElement
    <3> QED
      BY <1>2, <2>1, <2>3, <2>4, <3>2
  <2>5. CASE held[<<m, s>>] # r
    <3>1. IssuedIn(m, s)' = IssuedIn(m, s)
      BY <1>0, <2>2, <2>5 DEF IssuedIn
    <3> QED
      BY <1>2, <2>1, <2>3, <2>5, <3>1
  <2> QED
    BY <2>4, <2>5
<1>4. ASSUME NEW o \in Requests, challenge'[o].status = "none"
      PROVE  challenge'[o].issued = None
  BY <1>0, <1>4 DEF RequestsInv, ChallengesCounted
<1>5. ASSUME NEW m \in Minutes, NEW s \in Subjects
      PROVE  /\ used'[<<m, s>>] <= LimitOf(s)
             /\ held'[<<m, s>>] # None => used'[<<m, s>>] < LimitOf(s)
  <2>1. /\ used[<<m, s>>] <= LimitOf(s)
        /\ held[<<m, s>>] # None => used[<<m, s>>] < LimitOf(s)
    BY DEF RequestsInv, RowsHaveRoom
  <2>2. held'[<<m, s>>] = (IF held[<<m, s>>] = r THEN None ELSE held[<<m, s>>])
    BY RowsReleased DEF InsertChallenge, RequestsInv
  <2>3. used[<<m, s>>] \in Nat /\ LimitOf(s) \in Nat
    BY WalletAssumption DEF LimitOf, RequestsInv, RequestTypes
  <2>4. used'[<<m, s>>] = (IF held[<<m, s>>] = r THEN used[<<m, s>>] + 1 ELSE used[<<m, s>>])
    BY <1>2
  <2>5. r # None
    BY WalletAssumption
  <2> QED
    BY <2>1, <2>2, <2>3, <2>4, <2>5
<1> QED
  BY <1>2, <1>3, <1>4, <1>5 DEF ChallengesCounted, RowsHaveRoom

\* The challenge and the counts of its rows are committed together.
LEMMA InsertChallengeKeeps ==
  ASSUME RequestsInv, NEW r \in Requests, InsertChallenge(r)
  PROVE  RequestsInv'
<1>0. /\ request[r].minute \in Minutes
      /\ challenge' = [challenge EXCEPT ![r] = [status |-> "open", issued |-> request[r].minute]]
      /\ \A o \in Requests \ {r} : challenge'[o] = challenge[o]
  BY InsertFinds
<1>1. /\ held' \in [Minutes \X Subjects -> Requests \cup {None}]
      /\ \A m \in Minutes, s \in Subjects :
           held'[<<m, s>>] = (IF held[<<m, s>>] = r THEN None ELSE held[<<m, s>>])
  BY RowsReleased DEF RequestsInv, InsertChallenge
<1>2. /\ request' \in [Requests -> RequestRecords]
      /\ request'[r].at = "cleanup" /\ \A o \in Requests \ {r} : request'[o] = request[o]
  BY DEF InsertChallenge, RequestGoes, RequestRecords, RequestPlaces, RequestsInv, RequestTypes
<1>3. RequestTypes'
  <2>1. challenge' \in [Requests -> Challenge]
    BY <1>0 DEF RequestsInv, RequestTypes, Challenge
  <2>2. minute' \in Minutes
    BY DEF InsertChallenge, RequestsInv, RequestTypes
  <2> QED
    BY <1>1, <1>2, <2>1, <2>2, InsertIsCounted DEF RequestTypes
<1>4. ASSUME NEW o \in Requests PROVE RequestKnowsItsMinute(o)' /\ RowsHeld(o)'
  <2>1. RequestKnowsItsMinute(o) /\ RowsHeld(o)
    BY DEF RequestsInv
  <2>2. RequestKnowsItsMinute(o)'
    BY <1>0, <1>2, <2>1 DEF RequestKnowsItsMinute
  <2>3. ASSUME NEW m \in Minutes, NEW s \in Subjects
        PROVE  held'[<<m, s>>] = o <=> HasPassed(o, m, s)'
    <3>1. held[<<m, s>>] = o <=> HasPassed(o, m, s)
      BY <2>1 DEF RowsHeld
    <3>2. held'[<<m, s>>] = (IF held[<<m, s>>] = r THEN None ELSE held[<<m, s>>])
      BY <1>1
    <3>3. o # None
      BY WalletAssumption
    <3> QED
      BY <1>2, <3>1, <3>2, <3>3 DEF HasPassed
  <2> QED
    BY <2>2, <2>3 DEF RowsHeld
<1> QED
  BY <1>3, <1>4, InsertIsCounted DEF RequestsInv

\* Challenges that are neither opened nor closed for good leave the count as it is.
LEMMA CountsUndisturbed ==
  ASSUME
    RequestsInv, minute' \in Minutes, minute <= minute',
    challenge' \in [Requests -> Challenge],
    \A o \in Requests :
      /\ challenge'[o].issued = challenge[o].issued
      /\ challenge'[o].status = "none" <=> challenge[o].status = "none",
    \A m \in Minutes, s \in Subjects : Old(m + 1)' \/ used'[<<m, s>>] = used[<<m, s>>]
  PROVE  ChallengesCounted'
<1>1. ASSUME NEW m \in Minutes, NEW s \in Subjects
      PROVE  /\ IsFiniteSet(IssuedIn(m, s))'
             /\ ~Old(m + 1)' => Cardinality(IssuedIn(m, s))' = used'[<<m, s>>]
  <2>1. IssuedIn(m, s)' = IssuedIn(m, s)
    BY DEF IssuedIn
  <2>2. IsFiniteSet(IssuedIn(m, s)) /\ (~Old(m + 1) => Cardinality(IssuedIn(m, s)) = used[<<m, s>>])
    BY DEF RequestsInv, ChallengesCounted
  <2>3. Old(m + 1) => Old(m + 1)'
    BY WalletAssumption DEF Old, Minutes, RequestsInv, RequestTypes
  <2> QED
    BY <2>1, <2>2, <2>3
<1>2. \A o \in Requests : challenge'[o].status = "none" => challenge'[o].issued = None
  BY DEF RequestsInv, ChallengesCounted
<1> QED
  BY <1>1, <1>2 DEF ChallengesCounted

\* Rows that are long over are deleted when nobody has them, and expired challenges.
LEMMA CleanupKeeps ==
  ASSUME RequestsInv, NEW r \in Requests, Cleanup(r)
  PROVE  /\ RequestsInv'
         /\ \A o \in Requests : challenge'[o].status \in {challenge[o].status, "swept"}
<1>0. /\ minute' = minute /\ held' = held /\ request[r].at = "cleanup"
      /\ RequestGoes(r, "done")
  BY DEF Cleanup, RequestAt
<1>1. /\ request' \in [Requests -> RequestRecords]
      /\ request'[r].at = "done" /\ \A o \in Requests \ {r} : request'[o] = request[o]
  BY <1>0 DEF RequestGoes, RequestRecords, RequestPlaces, RequestsInv, RequestTypes
<1>2. ASSUME NEW o \in Requests
      PROVE  /\ challenge'[o] \in Challenge
             /\ challenge'[o].issued = challenge[o].issued
             /\ challenge'[o].status \in {challenge[o].status, "swept"}
             /\ challenge'[o].status = "none" <=> challenge[o].status = "none"
  <2>1. challenge[o] \in Challenge /\ (challenge[o].status = "none" => challenge[o].issued = None)
    BY DEF RequestsInv, RequestTypes, ChallengesCounted
  <2>2. challenge'[o] = challenge[o] \/ challenge'[o] = Swept(challenge[o])
    BY DEF Cleanup
  <2>3. CASE challenge'[o] = challenge[o]
    BY <2>1, <2>3
  <2>4. CASE /\ challenge'[o] = [challenge[o] EXCEPT !.status = "swept"]
             /\ challenge[o].issued # None
    BY <2>1, <2>4 DEF Challenge
  <2> QED
    BY <2>2, <2>3, <2>4 DEF Swept
<1>3. challenge' \in [Requests -> Challenge]
  <2>1. \A o \in Requests : challenge'[o] \in Challenge
    BY <1>2
  <2>2. challenge' = [x \in Requests |-> Swept(challenge[x])] \/ challenge' = challenge
    BY DEF Cleanup
  <2> QED
    BY <2>1, <2>2 DEF RequestsInv, RequestTypes
<1>4. ASSUME NEW m \in Minutes, NEW s \in Subjects
      PROVE  \/ used'[<<m, s>>] = used[<<m, s>>]
             \/ used'[<<m, s>>] = 0 /\ Old(m + 1) /\ held[<<m, s>>] = None
  BY DEF Cleanup, RequestsInv, RequestTypes
<1>5. used' \in [Minutes \X Subjects -> Nat]
  BY DEF Cleanup, RequestsInv, RequestTypes
<1>6. RequestTypes'
  BY <1>0, <1>1, <1>3, <1>5 DEF RequestsInv, RequestTypes
<1>7. ASSUME NEW o \in Requests PROVE RequestKnowsItsMinute(o)' /\ RowsHeld(o)'
  <2>1. RequestKnowsItsMinute(o) /\ RowsHeld(o)
    BY DEF RequestsInv
  <2>2. RequestKnowsItsMinute(o)'
    BY <1>1, <1>2, <2>1 DEF RequestKnowsItsMinute
  <2>3. ASSUME NEW m \in Minutes, NEW s \in Subjects
        PROVE  held'[<<m, s>>] = o <=> HasPassed(o, m, s)'
    <3>1. held[<<m, s>>] = o <=> HasPassed(o, m, s)
      BY <2>1 DEF RowsHeld
    <3> QED
      BY <1>0, <1>1, <3>1 DEF HasPassed
  <2> QED
    BY <2>2, <2>3 DEF RowsHeld
<1>8. RowsHaveRoom'
  <2>1. ASSUME NEW m \in Minutes, NEW s \in Subjects
        PROVE  /\ used'[<<m, s>>] <= LimitOf(s)
               /\ held[<<m, s>>] # None => used'[<<m, s>>] < LimitOf(s)
    <3>1. /\ used[<<m, s>>] <= LimitOf(s)
          /\ held[<<m, s>>] # None => used[<<m, s>>] < LimitOf(s)
      BY DEF RequestsInv, RowsHaveRoom
    <3>2. LimitOf(s) \in Nat
      BY WalletAssumption DEF LimitOf
    <3> QED
      BY <1>4, <3>1, <3>2
  <2> QED
    BY <1>0, <2>1 DEF RowsHaveRoom
<1>9. ChallengesCounted'
  <2>1. minute' \in Minutes /\ minute <= minute'
    BY <1>0, WalletAssumption DEF RequestsInv, RequestTypes, Minutes
  <2>2. \A m \in Minutes, s \in Subjects : Old(m + 1)' \/ used'[<<m, s>>] = used[<<m, s>>]
    BY <1>0, <1>4 DEF Old
  <2> QED
    BY <1>2, <1>3, <2>1, <2>2, CountsUndisturbed
<1> QED
  BY <1>2, <1>6, <1>7, <1>8, <1>9 DEF RequestsInv

\* Neither the clock nor a login, which at most consumes an open challenge, disturbs
\* what the requests have.
LEMMA RequestsUndisturbed ==
  ASSUME
    RequestsInv, UNCHANGED requestVars, minute' \in Minutes, minute <= minute',
    challenge' \in [Requests -> Challenge],
    \A o \in Requests :
      /\ challenge'[o].issued = challenge[o].issued
      /\ challenge'[o].status = "none" <=> challenge[o].status = "none"
  PROVE  RequestsInv'
<1> USE DEF requestVars
<1>1. RequestTypes'
  BY DEF RequestsInv, RequestTypes
<1>2. ASSUME NEW o \in Requests PROVE RequestKnowsItsMinute(o)' /\ RowsHeld(o)'
  <2>1. RequestKnowsItsMinute(o) /\ RowsHeld(o)
    BY DEF RequestsInv
  <2>2. RequestKnowsItsMinute(o)'
    BY <2>1 DEF RequestKnowsItsMinute
  <2>3. RowsHeld(o)'
    BY <2>1 DEF RowsHeld, HasPassed
  <2> QED
    BY <2>2, <2>3
<1>3. RowsHaveRoom'
  BY DEF RequestsInv, RowsHaveRoom
<1>4. ChallengesCounted'
  BY CountsUndisturbed
<1> QED
  BY <1>1, <1>2, <1>3, <1>4 DEF RequestsInv

---------------------------------------------------------------------------
(* Wallet sessions: logins.                                                *)

LoginOutcomes == {"none", "session", "unavailable", "invalid", "conflict", "error"}

LoginRecords == [at : LoginPlaces, project : Logins \cup {None}, outcome : LoginOutcomes]

LoginTypes ==
  /\ login \in [Logins -> LoginRecords]
  /\ addressLock \in [Addresses -> Logins \cup {None}]
  /\ identity \in [Addresses -> Logins \cup {None}]
  /\ sessions \subseteq Session

Used == {"consumed", "swept"}

\* A login that consumed its challenge: it is on its way, or it has a session.
Took(l) ==
  \/ login[l].at \in {"verify", "connect", "lock", "lookup", "token"}
  \/ \E s \in sessions : s.login = l

\* The challenge of such a login is used up, and no other login's.
TakenOnce ==
  /\ \A l \in Logins : Took(l) => challenge[ChallengeOf[l]].status \in Used
  /\ \A l, m \in Logins : Took(l) /\ Took(m) /\ ChallengeOf[l] = ChallengeOf[m] => l = m

\* Past the verification a login has signed; one that has not used its challenge up.
SignedOrSpent(l) ==
  /\ login[l].at \in {"connect", "lock", "lookup", "token"} => l \in Signed
  /\ login[l].outcome = "invalid" => challenge[ChallengeOf[l]].status \in Used

\* Between the lookup and the commit a login has its address for itself, so the identity
\* it found, or found missing, is still so.
AddressIsItsOwn(l) ==
  /\ login[l].at \in {"lookup", "token"} => addressLock[OfAddress(l)] = l
  /\ login[l].at = "token" =>
       /\ login[l].project \in Logins
       /\ identity[OfAddress(l)] \in {None, login[l].project}
  /\ login[l].outcome # "conflict"

\* Who has an address locked is within its transaction.
LockIsUsed(a) ==
  addressLock[a] # None =>
    login[addressLock[a]].at \in {"lookup", "token"} /\ OfAddress(addressLock[a]) = a

SessionsAgree ==
  \A s \in sessions : s.login \in Signed /\ identity[OfAddress(s.login)] = s.project

LoginsInv ==
  /\ LoginTypes
  /\ TakenOnce
  /\ SessionsAgree
  /\ \A l \in Logins : SignedOrSpent(l) /\ AddressIsItsOwn(l)
  /\ \A a \in Addresses : LockIsUsed(a)

\* The state at the start satisfies the invariant of logins.
LEMMA LoginsInitially == WalletInit => LoginsInv
<1> SUFFICES ASSUME WalletInit PROVE LoginsInv
  OBVIOUS
<1> USE WalletAssumption DEF WalletInit
<1>1. LoginTypes
  BY DEF LoginTypes, LoginRecords, LoginPlaces, LoginOutcomes
<1>2. TakenOnce /\ SessionsAgree
  BY DEF TakenOnce, SessionsAgree, Took
<1>3. \A l \in Logins : SignedOrSpent(l) /\ AddressIsItsOwn(l)
  BY DEF SignedOrSpent, AddressIsItsOwn
<1>4. \A a \in Addresses : LockIsUsed(a)
  BY DEF LockIsUsed
<1> QED
  BY <1>1, <1>2, <1>3, <1>4 DEF LoginsInv

\* A request never disturbs a login: a challenge that is used up stays so.
LEMMA LoginsUndisturbed ==
  ASSUME
    LoginsInv, UNCHANGED loginVars,
    \A r \in Requests : challenge[r].status \in Used => challenge'[r].status \in Used
  PROVE  LoginsInv'
<1> USE DEF loginVars
<1>0. \A l \in Logins : ChallengeOf[l] \in Requests
  BY WalletAssumption
<1>1. LoginTypes' /\ SessionsAgree'
  BY DEF LoginsInv, LoginTypes, SessionsAgree, OfAddress
<1>2. TakenOnce'
  <2>1. \A l \in Logins : Took(l)' <=> Took(l)
    BY DEF Took
  <2> QED
    BY <1>0, <2>1 DEF LoginsInv, TakenOnce
<1>3. \A l \in Logins : SignedOrSpent(l)' /\ AddressIsItsOwn(l)'
  BY <1>0 DEF LoginsInv, SignedOrSpent, AddressIsItsOwn, OfAddress
<1>4. \A a \in Addresses : LockIsUsed(a)'
  BY DEF LoginsInv, LockIsUsed, OfAddress
<1> QED
  BY <1>1, <1>2, <1>3, <1>4 DEF LoginsInv

\* A login that goes on without a lock, and leaves the others alone.
LEMMA OneLoginMoves ==
  ASSUME
    LoginsInv, NEW l \in Logins, UNCHANGED <<addressLock, identity, sessions>>,
    NEW place \in {"verify", "connect", "lock"}, LoginGoes(l, place),
    login[l].at \notin {"lookup", "token"},
    \A r \in Requests : challenge[r].status \in Used => challenge'[r].status \in Used,
    challenge'[ChallengeOf[l]].status \in Used,
    \A m \in Logins : Took(m) /\ ChallengeOf[l] = ChallengeOf[m] => l = m,
    place # "verify" => l \in Signed
  PROVE  LoginsInv'
<1>0. /\ \A m \in Logins : ChallengeOf[m] \in Requests /\ OfAddress(m) \in Addresses
      /\ None \notin Logins
  BY WalletAssumption DEF OfAddress
<1>1. /\ login' \in [Logins -> LoginRecords]
      /\ login'[l].at = place /\ login'[l].outcome = login[l].outcome
      /\ \A m \in Logins \ {l} : login'[m] = login[m]
  BY DEF LoginGoes, LoginsInv, LoginTypes, LoginRecords, LoginPlaces
<1>2. LoginTypes' /\ SessionsAgree'
  BY <1>1 DEF LoginsInv, LoginTypes, SessionsAgree, OfAddress
<1>3. TakenOnce'
  <2>1. \A m \in Logins \ {l} : Took(m)' <=> Took(m)
    BY <1>1 DEF Took
  <2>2. \A m \in Logins : Took(m)' => challenge'[ChallengeOf[m]].status \in Used
    BY <1>0, <2>1 DEF LoginsInv, TakenOnce
  <2>3. \A m, n \in Logins : Took(m)' /\ Took(n)' /\ ChallengeOf[m] = ChallengeOf[n] => m = n
    <3>1. ASSUME NEW m \in Logins, NEW n \in Logins, Took(m)', Took(n)', ChallengeOf[m] = ChallengeOf[n],
                 m # n
          PROVE  FALSE
      <4>1. CASE m = l
        BY <2>1, <3>1, <4>1
      <4>2. CASE n = l
        BY <2>1, <3>1, <4>2
      <4>3. CASE m # l /\ n # l
        BY <2>1, <3>1, <4>3 DEF LoginsInv, TakenOnce
      <4> QED
        BY <4>1, <4>2, <4>3
    <3> QED
      BY <3>1
  <2> QED
    BY <2>2, <2>3 DEF TakenOnce
<1>4. ASSUME NEW m \in Logins PROVE SignedOrSpent(m)' /\ AddressIsItsOwn(m)'
  <2>1. SignedOrSpent(m) /\ AddressIsItsOwn(m) /\ ChallengeOf[m] \in Requests
    BY <1>0 DEF LoginsInv
  <2>2. CASE m = l
    BY <1>1, <2>1, <2>2 DEF SignedOrSpent, AddressIsItsOwn
  <2>3. CASE m # l
    BY <1>1, <2>1, <2>3 DEF SignedOrSpent, AddressIsItsOwn, OfAddress
  <2> QED
    BY <2>2, <2>3
<1>5. ASSUME NEW a \in Addresses PROVE LockIsUsed(a)'
  <2>1. LockIsUsed(a) /\ addressLock[a] \in Logins \cup {None}
    BY DEF LoginsInv, LoginTypes
  <2> QED
    BY <1>1, <2>1 DEF LockIsUsed, OfAddress
<1> QED
  BY <1>2, <1>3, <1>4, <1>5 DEF LoginsInv

\* A login that ends without a session lets go of its address.
LEMMA LoginGivesUp ==
  ASSUME
    LoginsInv, NEW l \in Logins, UNCHANGED <<challenge, identity, sessions>>,
    NEW outcome \in {"unavailable", "invalid", "error"}, LoginEnds(l, outcome),
    outcome = "invalid" => Took(l)
  PROVE  LoginsInv'
<1>0. /\ \A m \in Logins : ChallengeOf[m] \in Requests /\ OfAddress(m) \in Addresses
      /\ None \notin Logins
  BY WalletAssumption DEF OfAddress
<1> PICK e : e = [at |-> "done", project |-> None, outcome |-> outcome]
  OBVIOUS
<1>1. /\ e \in LoginRecords /\ login' = [login EXCEPT ![l] = e]
      /\ e.at = "done" /\ e.outcome = outcome
  BY DEF LoginEnds, LoginRecords, LoginPlaces, LoginOutcomes
<1>2. login'[l] = e /\ \A m \in Logins \ {l} : login'[m] = login[m]
  BY <1>1 DEF LoginsInv, LoginTypes
<1>3. \A a \in Addresses : addressLock'[a] = (IF addressLock[a] = l THEN None ELSE addressLock[a])
  BY DEF LoginEnds
<1>4. LoginTypes' /\ SessionsAgree'
  <2>1. addressLock' \in [Addresses -> Logins \cup {None}]
    BY DEF LoginEnds, LoginsInv, LoginTypes
  <2> QED
    BY <1>1, <2>1 DEF LoginsInv, LoginTypes, SessionsAgree, OfAddress
<1>5. TakenOnce'
  <2>1. \A m \in Logins : Took(m)' => Took(m)
    BY <1>1, <1>2 DEF Took
  <2> QED
    BY <2>1 DEF LoginsInv, TakenOnce
<1>6. ASSUME NEW m \in Logins PROVE SignedOrSpent(m)' /\ AddressIsItsOwn(m)'
  <2>1. SignedOrSpent(m) /\ AddressIsItsOwn(m) /\ OfAddress(m) \in Addresses
    BY <1>0 DEF LoginsInv
  <2>2. CASE m = l
    <3>1. outcome = "invalid" => challenge[ChallengeOf[l]].status \in Used
      BY DEF LoginsInv, TakenOnce
    <3> QED
      BY <1>1, <1>2, <2>2, <3>1 DEF SignedOrSpent, AddressIsItsOwn
  <2>3. CASE m # l
    BY <1>2, <1>3, <2>1, <2>3 DEF SignedOrSpent, AddressIsItsOwn, OfAddress
  <2> QED
    BY <2>2, <2>3
<1>7. ASSUME NEW a \in Addresses PROVE LockIsUsed(a)'
  <2>1. LockIsUsed(a) /\ addressLock[a] \in Logins \cup {None}
    BY DEF LoginsInv, LoginTypes
  <2> QED
    BY <1>2, <1>3, <2>1 DEF LockIsUsed, OfAddress
<1> QED
  BY <1>4, <1>5, <1>6, <1>7 DEF LoginsInv

\* An open challenge is nobody's yet, and is used up before its signature is seen.
LEMMA ConsumeKeeps ==
  ASSUME RequestsInv, LoginsInv, NEW l \in Logins, Consume(l)
  PROVE  /\ LoginsInv'
         /\ challenge' \in [Requests -> Challenge]
         /\ \A o \in Requests :
              /\ challenge'[o].issued = challenge[o].issued
              /\ challenge'[o].status = "none" <=> challenge[o].status = "none"
<1> PICK r : r = ChallengeOf[l]
  OBVIOUS
<1>0. r \in Requests /\ UNCHANGED <<identity, sessions>> /\ login[l].at = "idle"
  BY WalletAssumption DEF Consume, LoginAt
<1>1. CASE Consumable(challenge[r])
  <2>1. /\ challenge' = [challenge EXCEPT ![r].status = "consumed"]
        /\ LoginGoes(l, "verify") /\ UNCHANGED addressLock /\ challenge[r].status = "open"
    BY <1>1 DEF Consume, Consumable
  <2>2. challenge[r] \in Challenge
    BY <1>0 DEF RequestsInv, RequestTypes
  <2> PICK e : e = [challenge[r] EXCEPT !.status = "consumed"]
    OBVIOUS
  <2>3. e \in Challenge /\ e.status = "consumed" /\ e.issued = challenge[r].issued
    BY <2>2 DEF Challenge
  <2>4. challenge' = [challenge EXCEPT ![r] = e]
    BY <2>1
  <2>5. challenge'[r] = e /\ \A o \in Requests \ {r} : challenge'[o] = challenge[o]
    BY <1>0, <2>4 DEF RequestsInv, RequestTypes
  <2>6. challenge' \in [Requests -> Challenge]
    BY <2>3, <2>4 DEF RequestsInv, RequestTypes
  <2>7. \A o \in Requests : challenge[o].status \in Used => challenge'[o].status \in Used
    BY <2>3, <2>5 DEF Used
  <2>8. \A m \in Logins : ~(Took(m) /\ r = ChallengeOf[m])
    BY <2>1 DEF LoginsInv, TakenOnce, Used
  <2>9. LoginsInv'
    <3>1. challenge'[ChallengeOf[l]].status \in Used
      BY <2>3, <2>5 DEF Used
    <3>2. login[l].at \notin {"lookup", "token"} /\ UNCHANGED <<addressLock, identity, sessions>>
      BY <1>0, <2>1
    <3>3. \A m \in Logins : Took(m) /\ ChallengeOf[l] = ChallengeOf[m] => l = m
      BY <2>8
    <3> QED
      BY <2>1, <2>7, <3>1, <3>2, <3>3, OneLoginMoves
  <2> QED
    BY <2>1, <2>3, <2>5, <2>6, <2>9
<1>2. CASE ~Consumable(challenge[r])
  <2>1. LoginEnds(l, "unavailable") /\ challenge' = challenge
    BY <1>2 DEF Consume
  <2> QED
    BY <1>0, <2>1, LoginGivesUp DEF RequestsInv, RequestTypes
<1> QED
  BY <1>1, <1>2

\* A login that has its challenge goes on to its address if it has signed.
LEMMA VerifyAndConnectKeep ==
  ASSUME LoginsInv, NEW l \in Logins, Verify(l) \/ ConnectLogin(l)
  PROVE  LoginsInv'
<1>0. /\ UNCHANGED <<challenge, identity, sessions>>
      /\ login[l].at \in {"verify", "connect"} /\ Took(l)
  BY DEF Verify, ConnectLogin, LoginAt, Took
<1>1. /\ challenge'[ChallengeOf[l]].status \in Used
      /\ \A m \in Logins : Took(m) /\ ChallengeOf[l] = ChallengeOf[m] => l = m
  BY <1>0 DEF LoginsInv, TakenOnce
<1>2. CASE \E place \in {"connect", "lock"} : LoginGoes(l, place) /\ UNCHANGED addressLock /\ l \in Signed
  BY <1>0, <1>1, <1>2, OneLoginMoves
<1>3. CASE LoginEnds(l, "invalid")
  BY <1>0, <1>3, LoginGivesUp
<1>4. CASE Verify(l)
  BY <1>2, <1>3, <1>4 DEF Verify
<1>5. CASE ConnectLogin(l)
  <2>1. l \in Signed
    BY <1>5 DEF ConnectLogin, LoginAt, LoginsInv, SignedOrSpent
  <2> QED
    BY <1>2, <1>5, <2>1 DEF ConnectLogin
<1> QED
  BY <1>4, <1>5

\* It takes the lock of its address when nobody has it.
LEMMA LockAddressKeeps ==
  ASSUME LoginsInv, NEW l \in Logins, LockAddress(l)
  PROVE  LoginsInv'
<1>0. /\ \A m \in Logins : ChallengeOf[m] \in Requests /\ OfAddress(m) \in Addresses
      /\ None \notin Logins
  BY WalletAssumption DEF OfAddress
<1> PICK a : a = OfAddress(l)
  OBVIOUS
<1>1. /\ UNCHANGED <<challenge, identity, sessions>> /\ a \in Addresses
      /\ login[l].at = "lock" /\ addressLock[a] = None
      /\ addressLock' = [addressLock EXCEPT ![a] = l] /\ LoginGoes(l, "lookup")
  BY <1>0 DEF LockAddress, LoginAt, AddressFree
<1>2. /\ login' \in [Logins -> LoginRecords]
      /\ login'[l].at = "lookup" /\ login'[l].outcome = login[l].outcome
      /\ \A m \in Logins \ {l} : login'[m] = login[m]
  BY <1>1 DEF LoginGoes, LoginsInv, LoginTypes, LoginRecords, LoginPlaces
<1>3. /\ addressLock' \in [Addresses -> Logins \cup {None}]
      /\ addressLock'[a] = l /\ \A b \in Addresses \ {a} : addressLock'[b] = addressLock[b]
  BY <1>1 DEF LoginsInv, LoginTypes
<1>4. LoginTypes' /\ SessionsAgree'
  BY <1>1, <1>2, <1>3 DEF LoginsInv, LoginTypes, SessionsAgree, OfAddress
<1>5. TakenOnce'
  <2>1. \A m \in Logins : Took(m)' <=> Took(m)
    BY <1>1, <1>2 DEF Took
  <2> QED
    BY <1>1, <2>1 DEF LoginsInv, TakenOnce
<1>6. ASSUME NEW m \in Logins PROVE SignedOrSpent(m)' /\ AddressIsItsOwn(m)'
  <2>1. SignedOrSpent(m) /\ AddressIsItsOwn(m) /\ OfAddress(m) \in Addresses
    BY <1>0 DEF LoginsInv
  <2>2. CASE m = l
    BY <1>1, <1>2, <1>3, <2>1, <2>2 DEF SignedOrSpent, AddressIsItsOwn, OfAddress
  <2>3. CASE m # l
    <3>1. login[m].at \in {"lookup", "token"} => OfAddress(m) # a
      BY <1>0, <1>1, <2>1 DEF AddressIsItsOwn
    <3>2. SignedOrSpent(m)'
      BY <1>1, <1>2, <2>1, <2>3 DEF SignedOrSpent
    <3>3. AddressIsItsOwn(m)'
      BY <1>1, <1>2, <1>3, <2>1, <2>3, <3>1 DEF AddressIsItsOwn, OfAddress
    <3> QED
      BY <3>2, <3>3
  <2> QED
    BY <2>2, <2>3
<1>7. ASSUME NEW b \in Addresses PROVE LockIsUsed(b)'
  <2>1. LockIsUsed(b) /\ addressLock[b] \in Logins \cup {None}
    BY DEF LoginsInv, LoginTypes
  <2>2. CASE b = a
    BY <1>2, <1>3, <2>2 DEF LockIsUsed, OfAddress
  <2>3. CASE b # a
    BY <1>1, <1>2, <1>3, <2>1, <2>3 DEF LockIsUsed, OfAddress
  <2> QED
    BY <2>2, <2>3
<1> QED
  BY <1>4, <1>5, <1>6, <1>7 DEF LoginsInv

\* It finds the project of its address, or names the one it will create.
LEMMA LookUpKeeps ==
  ASSUME LoginsInv, NEW l \in Logins, LookUp(l)
  PROVE  LoginsInv'
<1>0. /\ \A m \in Logins : ChallengeOf[m] \in Requests /\ OfAddress(m) \in Addresses
      /\ None \notin Logins
  BY WalletAssumption DEF OfAddress
<1> PICK a : a = OfAddress(l)
  OBVIOUS
<1> PICK project : project = IF identity[a] = None THEN l ELSE identity[a]
  OBVIOUS
<1> PICK e : e = [[login[l] EXCEPT !.at = "token"] EXCEPT !.project = project]
  OBVIOUS
<1>1. /\ UNCHANGED <<challenge, identity, sessions, addressLock>> /\ a \in Addresses
      /\ login[l].at = "lookup"
  BY <1>0 DEF LookUp, LoginAt
<1>2. project \in Logins /\ identity[a] \in {None, project}
  BY <1>1 DEF LoginsInv, LoginTypes
<1>3. login[l] \in LoginRecords
  BY DEF LoginsInv, LoginTypes
<1>4. e \in LoginRecords /\ e.at = "token" /\ e.project = project /\ e.outcome = login[l].outcome
  BY <1>2, <1>3 DEF LoginRecords, LoginPlaces
<1>5. login' = [login EXCEPT ![l] = e]
  BY DEF LookUp, LoginsInv, LoginTypes
<1>6. /\ login' \in [Logins -> LoginRecords]
      /\ login'[l] = e /\ \A m \in Logins \ {l} : login'[m] = login[m]
  BY <1>4, <1>5 DEF LoginsInv, LoginTypes
<1>7. LoginTypes' /\ SessionsAgree'
  BY <1>1, <1>6 DEF LoginsInv, LoginTypes, SessionsAgree, OfAddress
<1>8. TakenOnce'
  <2>1. \A m \in Logins : Took(m)' <=> Took(m)
    BY <1>1, <1>4, <1>6 DEF Took
  <2> QED
    BY <1>1, <2>1 DEF LoginsInv, TakenOnce
<1>9. ASSUME NEW m \in Logins PROVE SignedOrSpent(m)' /\ AddressIsItsOwn(m)'
  <2>1. SignedOrSpent(m) /\ AddressIsItsOwn(m) /\ OfAddress(m) \in Addresses
    BY <1>0 DEF LoginsInv
  <2>2. CASE m = l
    BY <1>1, <1>2, <1>4, <1>6, <2>1, <2>2 DEF SignedOrSpent, AddressIsItsOwn, OfAddress
  <2>3. CASE m # l
    BY <1>1, <1>6, <2>1, <2>3 DEF SignedOrSpent, AddressIsItsOwn, OfAddress
  <2> QED
    BY <2>2, <2>3
<1>10. ASSUME NEW b \in Addresses PROVE LockIsUsed(b)'
  <2>1. LockIsUsed(b) /\ addressLock[b] \in Logins \cup {None}
    BY DEF LoginsInv, LoginTypes
  <2> QED
    BY <1>1, <1>4, <1>6, <2>1 DEF LockIsUsed, OfAddress
<1> QED
  BY <1>7, <1>8, <1>9, <1>10 DEF LoginsInv

\* Its identity is still missing, or the one it found: the session is of that project.
LEMMA CommitSessionKeeps ==
  ASSUME LoginsInv, NEW l \in Logins, CommitSession(l)
  PROVE  LoginsInv'
<1>0. /\ \A m \in Logins : ChallengeOf[m] \in Requests /\ OfAddress(m) \in Addresses
      /\ None \notin Logins
  BY WalletAssumption DEF OfAddress
<1> PICK a : a = OfAddress(l)
  OBVIOUS
<1> PICK project : project = login[l].project
  OBVIOUS
<1>1. login[l].at = "token" /\ UNCHANGED challenge /\ a \in Addresses
  BY <1>0 DEF CommitSession, LoginAt
<1>2. /\ addressLock[a] = l /\ project \in Logins /\ identity[a] \in {None, project}
      /\ l \in Signed /\ SignedOrSpent(l)
  BY <1>1 DEF LoginsInv, AddressIsItsOwn, SignedOrSpent
<1>3. PICK outcome \in {"session", "error"} :
        /\ identity' = [identity EXCEPT ![a] = project]
        /\ sessions' = sessions \cup {[login |-> l, project |-> project]}
        /\ LoginEnds(l, outcome)
  BY <1>2 DEF CommitSession
<1> PICK e : e = [at |-> "done", project |-> None, outcome |-> outcome]
  OBVIOUS
<1>4. /\ e \in LoginRecords /\ login' = [login EXCEPT ![l] = e]
      /\ e.at = "done" /\ e.outcome = outcome
  BY <1>3 DEF LoginEnds, LoginRecords, LoginPlaces, LoginOutcomes
<1>5. /\ login' \in [Logins -> LoginRecords]
      /\ login'[l] = e /\ \A m \in Logins \ {l} : login'[m] = login[m]
  BY <1>4 DEF LoginsInv, LoginTypes
<1>6. /\ addressLock' \in [Addresses -> Logins \cup {None}]
      /\ \A b \in Addresses : addressLock'[b] = (IF addressLock[b] = l THEN None ELSE addressLock[b])
  BY <1>3 DEF LoginEnds, LoginsInv, LoginTypes
<1>7. /\ identity' \in [Addresses -> Logins \cup {None}]
      /\ identity'[a] = project /\ \A b \in Addresses \ {a} : identity'[b] = identity[b]
  BY <1>1, <1>2, <1>3 DEF LoginsInv, LoginTypes
<1>8. LoginTypes'
  <2>1. sessions' \subseteq Session
    BY <1>2, <1>3 DEF LoginsInv, LoginTypes, Session
  <2> QED
    BY <1>5, <1>6, <1>7, <2>1 DEF LoginTypes
<1>9. SessionsAgree'
  <2>1. ASSUME NEW s \in sessions PROVE s.login \in Signed /\ identity'[OfAddress(s.login)] = s.project
    <3>1. s.login \in Logins /\ s.project \in Logins
      BY DEF LoginsInv, LoginTypes, Session
    <3>2. s.login \in Signed /\ identity[OfAddress(s.login)] = s.project
      BY DEF LoginsInv, SessionsAgree
    <3> QED
      BY <1>0, <1>2, <1>7, <3>1, <3>2
  <2> QED
    BY <1>2, <1>3, <1>7, <2>1 DEF SessionsAgree, OfAddress
<1>10. TakenOnce'
  <2>1. Took(l)
    BY <1>1 DEF Took
  <2>2. \A m \in Logins : Took(m)' => Took(m)
    BY <1>3, <1>5, <2>1 DEF Took
  <2> QED
    BY <1>1, <2>2 DEF LoginsInv, TakenOnce
<1>11. ASSUME NEW m \in Logins PROVE SignedOrSpent(m)' /\ AddressIsItsOwn(m)'
  <2>1. SignedOrSpent(m) /\ AddressIsItsOwn(m) /\ OfAddress(m) \in Addresses
    BY <1>0 DEF LoginsInv
  <2>2. CASE m = l
    BY <1>4, <1>5, <2>2 DEF SignedOrSpent, AddressIsItsOwn
  <2>3. CASE m # l
    <3>1. login[m].at \in {"lookup", "token"} => OfAddress(m) # a
      BY <1>2, <2>1, <2>3 DEF AddressIsItsOwn
    <3>2. SignedOrSpent(m)'
      BY <1>1, <1>5, <2>1, <2>3 DEF SignedOrSpent
    <3>3. AddressIsItsOwn(m)'
      BY <1>5, <1>6, <1>7, <2>1, <2>3, <3>1 DEF AddressIsItsOwn, OfAddress
    <3> QED
      BY <3>2, <3>3
  <2> QED
    BY <2>2, <2>3
<1>12. ASSUME NEW b \in Addresses PROVE LockIsUsed(b)'
  <2>1. LockIsUsed(b) /\ addressLock[b] \in Logins \cup {None}
    BY DEF LoginsInv, LoginTypes
  <2> QED
    BY <1>5, <1>6, <2>1 DEF LockIsUsed, OfAddress
<1> QED
  BY <1>8, <1>9, <1>10, <1>11, <1>12 DEF LoginsInv

WalletInv == RequestsInv /\ LoginsInv

\* Every step of requests, logins and the clock keeps the invariant.
LEMMA WalletStep ==
  ASSUME WalletInv, [WalletNext]_walletVars
  PROVE  WalletInv'
<1> USE DEF WalletInv
<1>0. minute <= minute
  BY WalletAssumption DEF RequestsInv, RequestTypes, Minutes
<1>1. ASSUME NEW r \in Requests, RequestStep(r) \/ AbortRequest(r)
      PROVE  WalletInv'
  <2>1. UNCHANGED loginVars
    BY <1>1 DEF RequestStep, Connect, ReadClock, ReserveChallenge, InsertChallenge, Cleanup, AbortRequest
  <2>2. CASE Connect(r) \/ ReadClock(r) \/ ReserveChallenge(r) \/ AbortRequest(r)
    <3>1. challenge' = challenge
      BY <2>2 DEF Connect, ReadClock, ReserveChallenge, AbortRequest
    <3>2. RequestsInv'
      <4>1. CASE AbortRequest(r)
        BY <4>1, RequestEnds DEF AbortRequest
      <4> QED
        BY <2>2, <4>1, ConnectAndReadClockKeep, ReserveChallengeKeeps
    <3>3. LoginsInv'
      BY <2>1, <3>1, LoginsUndisturbed
    <3> QED
      BY <3>2, <3>3
  <2>3. CASE InsertChallenge(r)
    <3>1. \A o \in Requests : challenge[o].status \in Used => challenge'[o].status \in Used
      BY <2>3, InsertFinds DEF Used
    <3> QED
      BY <2>1, <2>3, <3>1, InsertChallengeKeeps, LoginsUndisturbed
  <2>4. CASE Cleanup(r)
    <3>1. \A o \in Requests : challenge[o].status \in Used => challenge'[o].status \in Used
      BY <2>4, CleanupKeeps DEF Used
    <3> QED
      BY <2>1, <2>4, <3>1, CleanupKeeps, LoginsUndisturbed
  <2> QED
    BY <1>1, <2>2, <2>3, <2>4 DEF RequestStep
<1>2. ASSUME NEW l \in Logins, LoginStep(l) \/ AbortLogin(l)
      PROVE  WalletInv'
  <2>1. UNCHANGED requestVars /\ minute' = minute /\ minute' \in Minutes
    BY <1>2 DEF LoginStep, Consume, Verify, ConnectLogin, LockAddress, LookUp, CommitSession,
       AbortLogin, RequestsInv, RequestTypes
  <2>2. CASE Consume(l)
    BY <1>0, <2>1, <2>2, ConsumeKeeps, RequestsUndisturbed
  <2>3. CASE Verify(l) \/ ConnectLogin(l) \/ LockAddress(l) \/ LookUp(l) \/ CommitSession(l) \/ AbortLogin(l)
    <3>1. challenge' = challenge
      BY <2>3 DEF Verify, ConnectLogin, LockAddress, LookUp, CommitSession, AbortLogin
    <3>2. challenge' \in [Requests -> Challenge]
      BY <3>1 DEF RequestsInv, RequestTypes
    <3>3. RequestsInv'
      BY <1>0, <2>1, <3>1, <3>2, RequestsUndisturbed
    <3>4. LoginsInv'
      <4>1. CASE AbortLogin(l)
        BY <4>1, LoginGivesUp DEF AbortLogin
      <4> QED
        BY <2>3, <4>1, VerifyAndConnectKeep, LockAddressKeeps, LookUpKeeps, CommitSessionKeeps
    <3> QED
      BY <3>3, <3>4
  <2> QED
    BY <1>2, <2>2, <2>3 DEF LoginStep
<1>3. CASE NextMinute \/ UNCHANGED walletVars
  <2>1. UNCHANGED requestVars /\ UNCHANGED loginVars /\ challenge' = challenge
    BY <1>3 DEF NextMinute, walletVars, requestVars, loginVars
  <2>2. minute' \in Minutes /\ minute <= minute'
    BY <1>3, WalletAssumption DEF NextMinute, walletVars, Minutes, RequestsInv, RequestTypes
  <2>3. challenge' \in [Requests -> Challenge]
    BY <2>1 DEF RequestsInv, RequestTypes
  <2> QED
    BY <2>1, <2>2, <2>3, RequestsUndisturbed, LoginsUndisturbed
<1> QED
  BY <1>1, <1>2, <1>3 DEF WalletNext

\* What the invariant says of sessions and of the counts of challenges.
LEMMA WalletInvMeans == WalletInv => WalletPromise
<1> SUFFICES ASSUME WalletInv PROVE WalletPromise
  OBVIOUS
<1> USE DEF WalletInv
<1>1. OneSessionPerChallenge
  <2>1. ASSUME NEW s \in sessions
        PROVE  /\ s.login \in Logins /\ Took(s.login) /\ s \in Session
               /\ s.login \in Signed /\ challenge[ChallengeOf[s.login]].status # "open"
               /\ identity[OfAddress(s.login)] = s.project
    BY DEF LoginsInv, LoginTypes, Session, Took, TakenOnce, SessionsAgree, Used
  <2>2. ASSUME NEW s \in sessions, NEW t \in sessions, ChallengeOf[s.login] = ChallengeOf[t.login]
        PROVE  s = t
    <3>1. s.login = t.login
      BY <2>1, <2>2 DEF LoginsInv, TakenOnce
    <3>2. s.project = t.project /\ s \in Session /\ t \in Session
      BY <2>1, <3>1
    <3> QED
      BY <3>1, <3>2 DEF Session
  <2>3. \A l \in Logins : login[l].outcome = "invalid" => challenge[ChallengeOf[l]].status # "open"
    BY DEF LoginsInv, SignedOrSpent, Used
  <2> QED
    BY <2>1, <2>2, <2>3 DEF OneSessionPerChallenge
<1>2. OneProjectPerAddress
  BY DEF OneProjectPerAddress, LoginsInv, SessionsAgree, AddressIsItsOwn
<1>3. QuotasBoundChallenges
  BY DEF QuotasBoundChallenges, RequestsInv, RowsHaveRoom, ChallengesCounted, LimitOf
<1> QED
  BY <1>1, <1>2, <1>3 DEF WalletPromise

\* The wallet identity service (wallet-session-service.ts) keeps its promise for any
\* number of requests, logins, addresses and connections, and any quotas: one session
\* per signed challenge, one project per address, no more challenges than the quotas.
THEOREM WalletKeepsItsPromise == WalletSpec => []WalletPromise
<1>1. WalletInit => WalletInv
  BY RequestsInitially, LoginsInitially DEF WalletInv
<1> QED
  BY <1>1, WalletStep, WalletInvMeans, PTL DEF WalletSpec

---------------------------------------------------------------------------
(* Issuance of credentials.                                                *)

\* Who inserts a token is the only one, and its key is still free; who met the index
\* finds the row that is in its way.
InsertHolds(i) ==
  /\ issuance[i] = "inserted" => inserting[IssueKeyOf[i]] = i /\ KeyRow(i) = None
  /\ issuance[i] = "violated" => KeyRow(i) # None

IssuanceInv ==
  /\ IssuanceTypeOK
  /\ \A i \in Issues : InsertHolds(i)
  /\ OneSecretPerKey
  /\ AnswersNameTheRow

\* The state at the start satisfies the invariant of issuance.
LEMMA IssuanceInitially == IssuanceInit => IssuanceInv
BY IssuanceAssumption
DEF IssuanceInit, IssuanceInv, IssuanceTypeOK, InsertHolds, OneSecretPerKey, AnswersNameTheRow,
    IssuePlaces, Tellings

\* A call that is told what is so ends as the invariant has it.
LEMMA TellingKeeps ==
  ASSUME
    IssuanceInv, NEW i \in Issues, NEW telling \in {"already", "conflict", "no account"},
    Tells(i, telling), UNCHANGED <<row, inserting, revoked, browser>>,
    told[i] # "secret",
    telling = "already" => KeyRow(i) # None /\ IntentOf[KeyRow(i)] = IntentOf[i],
    telling = "conflict" => KeyRow(i) # None /\ IntentOf[KeyRow(i)] # IntentOf[i]
  PROVE  IssuanceInv'
<1>1. PICK t \in {telling, "failure"} : told' = [told EXCEPT ![i] = t]
  BY DEF Tells
<1>2. issuance' = [issuance EXCEPT ![i] = "done"]
  BY DEF Tells, Moves
<1>3. IssuanceTypeOK'
  BY <1>1, <1>2 DEF IssuanceInv, IssuanceTypeOK, IssuePlaces, Tellings
<1>4. \A j \in Issues : InsertHolds(j)'
  BY <1>2 DEF IssuanceInv, IssuanceTypeOK, InsertHolds, KeyRow
<1>5. OneSecretPerKey' /\ AnswersNameTheRow'
  BY <1>1 DEF IssuanceInv, IssuanceTypeOK, OneSecretPerKey, AnswersNameTheRow, KeyRow
<1> QED
  BY <1>3, <1>4, <1>5 DEF IssuanceInv

\* Every step of the issuance keeps the invariant, and the rows that are there.
LEMMA IssuanceStep ==
  ASSUME IssuanceInv, [IssuanceNext]_issuanceVars
  PROVE  IssuanceInv' /\ \A k \in IssueKeys : row[k] # None => row'[k] = row[k]
<1>0. \A i \in Issues : IssueKeyOf[i] \in IssueKeys /\ i # None
  BY IssuanceAssumption
<1>1. ASSUME NEW i \in Issues, FindIssuance(i)
      PROVE  IssuanceInv' /\ row' = row
  <2>1. told[i] = "nothing" /\ UNCHANGED <<row, inserting, revoked, browser>>
    BY <1>1 DEF FindIssuance, IssuanceInv, IssuanceTypeOK
  <2>2. CASE KeyRow(i) # None
    BY <1>1, <2>1, <2>2, TellingKeeps DEF FindIssuance, IssuanceOutcome
  <2>3. CASE KeyRow(i) = None /\ i \in Orphans
    BY <1>1, <2>1, <2>3, TellingKeeps DEF FindIssuance
  <2>4. CASE KeyRow(i) = None /\ i \notin Orphans
    <3>1. issuance' = [issuance EXCEPT ![i] = "unissued"] /\ told' = told
      BY <1>1, <2>4 DEF FindIssuance, Moves
    <3>2. IssuanceTypeOK'
      BY <2>1, <3>1 DEF IssuanceInv, IssuanceTypeOK, IssuePlaces
    <3>3. \A j \in Issues : InsertHolds(j)'
      BY <2>1, <3>1 DEF IssuanceInv, IssuanceTypeOK, InsertHolds, KeyRow
    <3>4. OneSecretPerKey' /\ AnswersNameTheRow'
      BY <2>1, <3>1 DEF IssuanceInv, OneSecretPerKey, AnswersNameTheRow, KeyRow
    <3> QED
      BY <2>1, <3>2, <3>3, <3>4 DEF IssuanceInv
  <2> QED
    BY <2>1, <2>2, <2>3, <2>4
<1>2. ASSUME NEW i \in Issues, InsertToken(i)
      PROVE  IssuanceInv' /\ row' = row
  <2>1. /\ issuance[i] = "unissued" /\ inserting[IssueKeyOf[i]] = None
        /\ UNCHANGED <<row, told, revoked, browser>>
    BY <1>2 DEF InsertToken
  <2>2. CASE KeyRow(i) # None
    <3>1. issuance' = [issuance EXCEPT ![i] = "violated"] /\ inserting' = inserting
      BY <1>2, <2>2 DEF InsertToken, UniqueIndexRefuses, Moves
    <3> QED
      BY <2>1, <2>2, <3>1 DEF IssuanceInv, IssuanceTypeOK, InsertHolds, KeyRow, OneSecretPerKey,
         AnswersNameTheRow, IssuePlaces
  <2>3. CASE KeyRow(i) = None
    <3>1. /\ issuance' = [issuance EXCEPT ![i] = "inserted"]
          /\ inserting' = [inserting EXCEPT ![IssueKeyOf[i]] = i]
      BY <1>2, <2>3 DEF InsertToken, UniqueIndexRefuses, Moves
    <3>2. IssuanceTypeOK'
      BY <1>0, <2>1, <3>1 DEF IssuanceInv, IssuanceTypeOK, IssuePlaces
    <3>3. ASSUME NEW j \in Issues PROVE InsertHolds(j)'
      BY <1>0, <2>1, <2>3, <3>1 DEF IssuanceInv, IssuanceTypeOK, InsertHolds, KeyRow
    <3>4. OneSecretPerKey' /\ AnswersNameTheRow'
      BY <2>1 DEF IssuanceInv, OneSecretPerKey, AnswersNameTheRow, KeyRow
    <3> QED
      BY <2>1, <3>2, <3>3, <3>4 DEF IssuanceInv
  <2> QED
    BY <2>2, <2>3
<1>3. ASSUME NEW i \in Issues, FindAfterViolation(i)
      PROVE  IssuanceInv' /\ row' = row
  <2>1. /\ told[i] = "nothing" /\ UNCHANGED <<row, inserting, revoked, browser>>
        /\ KeyRow(i) # None
    BY <1>3 DEF FindAfterViolation, IssuanceInv, IssuanceTypeOK, InsertHolds
  <2> QED
    BY <1>3, <2>1, TellingKeeps DEF FindAfterViolation, IssuanceOutcome
<1>4. ASSUME NEW i \in Issues, CommitIssuance(i)
      PROVE  IssuanceInv' /\ \A k \in IssueKeys : row[k] # None => row'[k] = row[k]
  <2>1. /\ issuance[i] = "inserted" /\ told[i] = "nothing"
        /\ inserting[IssueKeyOf[i]] = i /\ row[IssueKeyOf[i]] = None
    BY <1>4 DEF CommitIssuance, IssuanceInv, IssuanceTypeOK, InsertHolds, KeyRow
  <2>2. PICK t \in {"secret", "failure"} : told' = [told EXCEPT ![i] = t]
    BY <1>4 DEF CommitIssuance, Tells
  <2>3. /\ issuance' = [issuance EXCEPT ![i] = "done"]
        /\ row' = [row EXCEPT ![IssueKeyOf[i]] = i]
        /\ inserting' = [inserting EXCEPT ![IssueKeyOf[i]] = None]
        /\ UNCHANGED <<revoked, browser>>
    BY <1>4 DEF CommitIssuance, Tells, Moves
  <2>4. /\ row'[IssueKeyOf[i]] = i /\ \A k \in IssueKeys \ {IssueKeyOf[i]} : row'[k] = row[k]
        /\ \A k \in IssueKeys \ {IssueKeyOf[i]} : inserting'[k] = inserting[k]
    BY <1>0, <2>3 DEF IssuanceInv, IssuanceTypeOK
  <2>5. IssuanceTypeOK'
    BY <1>0, <2>2, <2>3 DEF IssuanceInv, IssuanceTypeOK, IssuePlaces, Tellings
  <2>6. ASSUME NEW j \in Issues PROVE InsertHolds(j)'
    <3>1. InsertHolds(j) /\ IssueKeyOf[j] \in IssueKeys
      BY <1>0 DEF IssuanceInv
    <3>2. CASE j = i
      BY <2>3, <3>2 DEF InsertHolds, IssuanceInv, IssuanceTypeOK
    <3>3. CASE j # i
      <4>1. issuance'[j] = issuance[j]
        BY <2>3, <3>3 DEF IssuanceInv, IssuanceTypeOK
      <4> QED
        BY <1>0, <2>1, <2>4, <3>1, <3>3, <4>1 DEF InsertHolds, KeyRow
    <3> QED
      BY <3>2, <3>3
  <2>7. ASSUME NEW j \in Issues
        PROVE  /\ told'[j] = "secret" => KeyRow(j)' = j
               /\ told'[j] = "already" => KeyRow(j)' # None /\ IntentOf[KeyRow(j)'] = IntentOf[j]
               /\ told'[j] = "conflict" => KeyRow(j)' # None /\ IntentOf[KeyRow(j)'] # IntentOf[j]
    <3>1. /\ told[j] = "secret" => KeyRow(j) = j
          /\ told[j] = "already" => KeyRow(j) # None /\ IntentOf[KeyRow(j)] = IntentOf[j]
          /\ told[j] = "conflict" => KeyRow(j) # None /\ IntentOf[KeyRow(j)] # IntentOf[j]
          /\ IssueKeyOf[j] \in IssueKeys /\ j # None
      BY <1>0 DEF IssuanceInv, OneSecretPerKey, AnswersNameTheRow
    <3>2. CASE j = i
      BY <2>2, <2>4, <3>2 DEF KeyRow, IssuanceInv, IssuanceTypeOK
    <3>3. CASE j # i
      <4>1. told'[j] = told[j]
        BY <2>2, <3>3 DEF IssuanceInv, IssuanceTypeOK
      <4> QED
        BY <2>1, <2>4, <3>1, <4>1 DEF KeyRow
    <3> QED
      BY <3>2, <3>3
  <2> QED
    BY <2>1, <2>4, <2>5, <2>6, <2>7 DEF IssuanceInv, OneSecretPerKey, AnswersNameTheRow, KeyRow
<1>5. ASSUME NEW i \in Issues, FailIssuance(i)
      PROVE  IssuanceInv' /\ row' = row
  <2>1. /\ told[i] = "nothing" /\ UNCHANGED <<row, revoked, browser>>
        /\ issuance' = [issuance EXCEPT ![i] = "done"] /\ told' = [told EXCEPT ![i] = "failure"]
        /\ inserting' = [k \in IssueKeys |-> IF inserting[k] = i THEN None ELSE inserting[k]]
    BY <1>5 DEF FailIssuance, Moves, IssuanceInv, IssuanceTypeOK
  <2>2. IssuanceTypeOK'
    BY <2>1 DEF IssuanceInv, IssuanceTypeOK, IssuePlaces, Tellings
  <2>3. ASSUME NEW j \in Issues PROVE InsertHolds(j)'
    BY <1>0, <2>1 DEF IssuanceInv, IssuanceTypeOK, InsertHolds, KeyRow
  <2>4. OneSecretPerKey' /\ AnswersNameTheRow'
    BY <2>1 DEF IssuanceInv, IssuanceTypeOK, OneSecretPerKey, AnswersNameTheRow, KeyRow
  <2> QED
    BY <2>1, <2>2, <2>3, <2>4 DEF IssuanceInv
<1>6. CASE \/ \E k \in IssueKeys : RevokeIssued(k)
           \/ RevokeCurrentWalletSession
           \/ UNCHANGED issuanceVars
  <2>1. /\ UNCHANGED <<row, inserting, issuance, told>>
        /\ revoked' \subseteq IssueKeys /\ browser' \in {"live", "revoked"}
    BY <1>6 DEF RevokeIssued, RevokeCurrentWalletSession, issuanceVars, IssuanceInv, IssuanceTypeOK
  <2> QED
    BY <2>1 DEF IssuanceInv, IssuanceTypeOK, InsertHolds, KeyRow, OneSecretPerKey, AnswersNameTheRow
<1> QED
  BY <1>1, <1>2, <1>3, <1>4, <1>5, <1>6 DEF IssuanceNext, IssueStep

\* createAccountToken (account-token-service.ts) keeps its promise for any number of
\* calls and keys: one secret per key, true answers, and keys that stay taken.
THEOREM IssuanceKeepsItsPromise == IssuanceSpec => IssuancePromise
<1>1. IssuanceInv => OneSecretPerKey /\ AnswersNameTheRow
  BY DEF IssuanceInv
<1>2. IssuanceInv /\ [IssuanceNext]_issuanceVars =>
        [\A k \in IssueKeys : row[k] # None => row'[k] = row[k]]_issuanceVars
  BY IssuanceStep
<1>3. IssuanceInv /\ [IssuanceNext]_issuanceVars => IssuanceInv'
  BY IssuanceStep
<1> QED
  BY <1>1, <1>2, <1>3, IssuanceInitially, PTL DEF IssuanceSpec, IssuancePromise, KeysStayTaken

---------------------------------------------------------------------------
(* The list of runs.                                                       *)

AnyRow == [run : Nat, at : Nat]

Falling(rows) == \A i, j \in DOMAIN rows : i < j => Before(rows[i], rows[j])

\* The order of the rows is strict and total.
LEMMA RowsAreOrdered ==
  ASSUME NEW a \in AnyRow, NEW b \in AnyRow, NEW c \in AnyRow
  PROVE  /\ ~Before(a, a)
         /\ Before(a, b) /\ Before(b, c) => Before(a, c)
         /\ a = b \/ Before(a, b) \/ Before(b, a)
  BY DEF AnyRow, Before

\* Fewer rows come before a row that comes before another.
LEMMA PlacesDiffer ==
  ASSUME NEW S \in SUBSET AnyRow, IsFiniteSet(S), NEW a \in S, NEW b \in S, Before(a, b)
  PROVE  Cardinality({x \in S : Before(x, a)}) < Cardinality({x \in S : Before(x, b)})
<1>1. PICK A : A = {x \in S : Before(x, a)}
  OBVIOUS
<1>2. PICK B : B = {x \in S : Before(x, b)}
  OBVIOUS
<1>3. A \subseteq S /\ B \subseteq S /\ a \notin A /\ A \cup {a} \subseteq B
  BY <1>1, <1>2, RowsAreOrdered
<1>4. IsFiniteSet(A) /\ IsFiniteSet(B)
  BY <1>3, FS_Subset
<1>5. Cardinality(A \cup {a}) = Cardinality(A) + 1
  BY <1>3, <1>4, FS_AddElement
<1>6. Cardinality(A \cup {a}) <= Cardinality(B)
  BY <1>3, <1>4, FS_Subset
<1>7. Cardinality(A) \in Nat /\ Cardinality(B) \in Nat
  BY <1>4, FS_CardinalityType
<1> QED
  BY <1>1, <1>2, <1>5, <1>6, <1>7

\* Every row has one place, and every place one row.
LEMMA InOrderSorts ==
  ASSUME NEW S \in SUBSET AnyRow, IsFiniteSet(S)
  PROVE  /\ Cardinality(S) \in Nat
         /\ InOrder(S) \in [1 .. Cardinality(S) -> S]
         /\ Falling(InOrder(S))
         /\ \A line \in S : \E i \in 1 .. Cardinality(S) : InOrder(S)[i] = line
<1> DEFINE place == [line \in S |-> Cardinality({x \in S : Before(x, line)}) + 1]
<1>1. PICK n : n = Cardinality(S)
  OBVIOUS
<1>2. n \in Nat
  BY <1>1, FS_CardinalityType
<1>3. ASSUME NEW line \in S PROVE Cardinality({x \in S : Before(x, line)}) \in 0 .. n - 1
  <2>1. PICK B : B = {x \in S : Before(x, line)}
    OBVIOUS
  <2>2. B \subseteq S \ {line}
    BY <2>1, RowsAreOrdered
  <2>3. IsFiniteSet(S \ {line}) /\ Cardinality(S \ {line}) = n - 1
    BY <1>1, FS_RemoveElement
  <2>4. IsFiniteSet(B) /\ Cardinality(B) <= n - 1
    BY <2>2, <2>3, FS_Subset
  <2>5. Cardinality(B) \in Nat
    BY <2>4, FS_CardinalityType
  <2> QED
    BY <1>2, <2>1, <2>4, <2>5
<1>4. place \in [S -> 1 .. n]
  <2>1. \A line \in S : Cardinality({x \in S : Before(x, line)}) + 1 \in 1 .. n
    BY <1>2, <1>3
  <2> QED
    BY <2>1
<1>5. \A a, b \in S : Before(a, b) => place[a] < place[b]
  <2>1. SUFFICES ASSUME NEW a \in S, NEW b \in S, Before(a, b) PROVE place[a] < place[b]
    OBVIOUS
  <2>2. Cardinality({x \in S : Before(x, a)}) < Cardinality({x \in S : Before(x, b)})
    BY <2>1, PlacesDiffer
  <2>3. Cardinality({x \in S : Before(x, a)}) \in Nat /\ Cardinality({x \in S : Before(x, b)}) \in Nat
    BY <1>2, <1>3
  <2> QED
    BY <2>2, <2>3
<1>6. \A a, b \in S : place[a] = place[b] => a = b
  <2>1. SUFFICES ASSUME NEW a \in S, NEW b \in S, place[a] = place[b], a # b PROVE FALSE
    OBVIOUS
  <2>2. Before(a, b) \/ Before(b, a)
    BY <2>1, RowsAreOrdered
  <2>3. place[a] \in Nat /\ place[b] \in Nat
    BY <1>2, <1>4
  <2> HIDE DEF place
  <2> QED
    BY <1>5, <2>1, <2>2, <2>3
<1>7. place \in Injection(S, 1 .. n)
  BY <1>4, <1>6 DEF Injection, IsInjective
<1>8. IsFiniteSet(1 .. n) /\ Cardinality(1 .. n) = n
  <2>1. 1 \in Int /\ n \in Int
    BY <1>2
  <2>2. IsFiniteSet(1 .. n) /\ Cardinality(1 .. n) = IF 1 > n THEN 0 ELSE n - 1 + 1
    BY <2>1, FS_Interval, Zenon
  <2> QED
    BY <1>2, <2>2
<1>9. place \in Surjection(S, 1 .. n)
  BY <1>1, <1>7, <1>8, FS_Injection
<1>10. \A i \in 1 .. n : \E line \in S : place[line] = i
  BY <1>9 DEF Surjection
<1>11. ASSUME NEW i \in 1 .. n
       PROVE  InOrder(S)[i] \in S /\ place[InOrder(S)[i]] = i
  <2>1. PICK line \in S : place[line] = i
    BY <1>10
  <2>2. Cardinality({x \in S : Before(x, line)}) = i - 1
    BY <1>3, <2>1
  <2>3. InOrder(S)[i] = CHOOSE r \in S : Cardinality({x \in S : Before(x, r)}) = i - 1
    BY <1>1 DEF InOrder
  <2>4. InOrder(S)[i] \in S /\ Cardinality({x \in S : Before(x, InOrder(S)[i])}) = i - 1
    BY <2>2, <2>3, Zenon
  <2> QED
    BY <1>2, <2>4
<1>12. InOrder(S) \in [1 .. n -> S]
  <2> DEFINE first(i) == CHOOSE y \in S : Cardinality({x \in S : Before(x, y)}) = i - 1
  <2>1. InOrder(S) = [i \in 1 .. n |-> first(i)]
    BY <1>1, Zenon DEF InOrder
  <2>2. PICK f : f = InOrder(S)
    OBVIOUS
  <2> HIDE DEF first
  <2>3. f = [i \in 1 .. n |-> first(i)] /\ \A i \in 1 .. n : f[i] \in S
    BY <1>11, <2>1, <2>2
  <2>4. f \in [1 .. n -> S]
    BY <2>3
  <2> QED
    BY <2>2, <2>4
<1> HIDE DEF place
<1>13. Falling(InOrder(S))
  <2>1. SUFFICES ASSUME NEW i \in 1 .. n, NEW j \in 1 .. n, i < j
                 PROVE  Before(InOrder(S)[i], InOrder(S)[j])
    BY <1>12 DEF Falling
  <2>2. PICK a \in S : a = InOrder(S)[i] /\ place[a] = i
    BY <1>11
  <2>3. PICK b \in S : b = InOrder(S)[j] /\ place[b] = j
    BY <1>11
  <2>4. a # b /\ ~Before(b, a)
    BY <1>2, <1>5, <2>1, <2>2, <2>3
  <2>5. a \in AnyRow /\ b \in AnyRow
    OBVIOUS
  <2> QED
    BY <2>2, <2>3, <2>4, <2>5, RowsAreOrdered
<1>14. ASSUME NEW line \in S PROVE \E i \in 1 .. n : InOrder(S)[i] = line
  <2>1. place[line] \in 1 .. n
    BY <1>4
  <2> QED
    BY <1>6, <1>11, <2>1
<1> QED
  BY <1>1, <1>2, <1>12, <1>13, <1>14

\* What a cursor loses is within its second.
LEMMA CursorsLoseTheFraction ==
  ASSUME NEW t \in Ticks
  PROVE  /\ Printed(t) \in Ticks /\ Printed(t) <= t
         /\ \A u \in Nat : Printed(t) <= u /\ u <= t => Printed(u) = Printed(t)
<1>1. SecondLength \in Nat \ {0} /\ LastTick \in Nat
  BY ListingAssumption
<1>2. t \in Nat /\ t <= LastTick
  BY <1>1 DEF Ticks
<1>3. PICK k : k = t \div SecondLength
  OBVIOUS
<1>4. k \in Nat /\ k * SecondLength <= t /\ t < (k + 1) * SecondLength
  BY <1>1, <1>2, <1>3
<1>5. k * SecondLength \in Nat /\ Printed(t) = k * SecondLength
  BY <1>1, <1>3, <1>4 DEF Printed
<1>6. ASSUME NEW u \in Nat, k * SecondLength <= u, u <= t
      PROVE  Printed(u) = k * SecondLength
  <2>1. u < (k + 1) * SecondLength
    BY <1>1, <1>2, <1>4, <1>6
  <2>2. u \div SecondLength = k
    BY <1>1, <1>4, <1>6, <2>1
  <2> QED
    BY <2>2 DEF Printed
<1> QED
  BY <1>1, <1>2, <1>4, <1>5, <1>6 DEF Ticks

LEMMA CursorsAreRows ==
  ASSUME NEW line \in Row
  PROVE  CursorAt(line) \in Row /\ CursorAt(line) # None
<1>1. Printed(line.at) \in Ticks
  BY CursorsLoseTheFraction DEF Row
<1>2. CursorAt(line) \in Row
  BY <1>1 DEF CursorAt, Row
<1>3. CursorAt(line) \in AnyRow
  <2>1. Runs \subseteq Nat /\ Ticks \subseteq Nat
    BY ListingAssumption DEF Ticks
  <2>2. line.run \in Nat /\ Printed(line.at) \in Nat
    BY <1>1, <2>1 DEF Row
  <2> QED
    BY <2>2, Zenon DEF CursorAt, AnyRow
<1> QED
  BY <1>2, <1>3, ListingAssumption DEF AnyRow

RowsOf(project, cursor) ==
  {RowOf(r) : r \in {x \in Runs : ProjectOf[x] = project /\ After(RowOf(x), cursor)}}

LastOf(rows) == rows[Len(rows)]

LEMMA RowsAreFinite ==
  ASSUME updated \in [Runs -> Ticks], NEW project, NEW cursor
  PROVE  /\ IsFiniteSet(RowsOf(project, cursor))
         /\ RowsOf(project, cursor) \subseteq Row /\ Row \subseteq AnyRow
<1>1. PICK R : R = {x \in Runs : ProjectOf[x] = project /\ After(RowOf(x), cursor)}
  OBVIOUS
<1>2. PICK S : S = RowsOf(project, cursor)
  OBVIOUS
<1>3. PICK f : f = [r \in R |-> RowOf(r)]
  OBVIOUS
<1>4. IsFiniteSet(R)
  <2>1. R \subseteq Runs
    BY <1>1
  <2> QED
    BY <2>1, FS_Subset, ListingAssumption
<1>5. f \in Surjection(R, S)
  BY <1>1, <1>2, <1>3 DEF Surjection, RowsOf
<1>6. IsFiniteSet(S)
  BY <1>4, <1>5, FS_Surjection
<1>7. S \subseteq Row
  <2>1. SUFFICES ASSUME NEW line \in S PROVE line \in Row
    OBVIOUS
  <2>2. PICK r \in Runs : line = RowOf(r)
    BY <1>2 DEF RowsOf
  <2> QED
    BY <2>2 DEF RowOf, Row
<1>8. Row \subseteq AnyRow
  <2>1. Runs \subseteq Nat /\ Ticks \subseteq Nat
    BY ListingAssumption DEF Ticks
  <2>2. SUFFICES ASSUME NEW line \in Row PROVE line \in AnyRow
    OBVIOUS
  <2>3. line = [run |-> line.run, at |-> line.at] /\ line.run \in Nat /\ line.at \in Nat
    BY <2>1 DEF Row
  <2> QED
    BY <2>3 DEF AnyRow
<1> QED
  BY <1>2, <1>6, <1>7, <1>8

\* A page is the first rows after the cursor, and the next cursor is its last row's.
LEMMA PagesAreInOrder ==
  ASSUME updated \in [Runs -> Ticks], NEW q, NEW page, page = RunsPage(q)
  PROVE  /\ page.rows \in Seq(Row) /\ Falling(page.rows)
         /\ \A i \in DOMAIN page.rows : After(page.rows[i], q.cursor)
         /\ page.cursor # None =>
              page.rows # <<>> /\ page.cursor = CursorAt(LastOf(page.rows))
         /\ \A r \in Runs :
              ProjectOf[r] = SessionOf[q.session] /\ After(RowOf(r), q.cursor) =>
                \/ \E i \in DOMAIN page.rows : page.rows[i] = RowOf(r)
                \/ page.cursor # None /\ Before(LastOf(page.rows), RowOf(r))
<1>1. PICK S : S = RowsOf(SessionOf[q.session], q.cursor)
  OBVIOUS
<1>2. PICK n : n = Cardinality(S)
  OBVIOUS
<1>3. PICK all : all = InOrder(S)
  OBVIOUS
<1>4. S \subseteq Row /\ S \in SUBSET AnyRow /\ IsFiniteSet(S)
  BY <1>1, RowsAreFinite
<1>5. /\ n \in Nat /\ all \in [1 .. n -> S] /\ Falling(all)
      /\ \A line \in S : \E i \in 1 .. n : all[i] = line
  BY <1>2, <1>3, <1>4, InOrderSorts
<1>6. all = Listed(SessionOf[q.session], q.cursor)
  BY <1>1, <1>3 DEF Listed, RowsOf
<1>7. all \in Seq(Row) /\ Len(all) = n /\ DOMAIN all = 1 .. n
  <2>1. all \in [1 .. n -> Row]
    BY <1>4, <1>5
  <2> QED
    BY <1>5, <2>1
<1>8. PageLimit \in Nat \ {0}
  BY ListingAssumption
<1>9. PICK k : k = IF n > PageLimit THEN PageLimit ELSE n
  OBVIOUS
<1>10. Min({PageLimit, Len(all)}) = k
  BY <1>5, <1>7, <1>8, <1>9 DEF Min
<1>11. page.rows = SubSeq(all, 1, k) /\ page.cursor = NextCursor(all)
  BY <1>6, <1>10 DEF RunsPage
<1>12. /\ page.rows \in Seq(Row) /\ Len(page.rows) = k /\ DOMAIN page.rows = 1 .. k
       /\ \A i \in 1 .. k : page.rows[i] = all[i]
  <2>1. k \in Nat /\ k <= n
    BY <1>5, <1>8, <1>9
  <2>2. k \in 1 - 1 .. Len(all)
    BY <1>7, <2>1
  <2>3. /\ SubSeq(all, 1, k) \in Seq(Row) /\ Len(SubSeq(all, 1, k)) = k
        /\ \A i \in 1 .. k : SubSeq(all, 1, k)[i] = all[i]
    BY <1>5, <1>7, <2>1
  <2> QED
    BY <1>11, <2>1, <2>3
<1>13. Falling(page.rows)
  BY <1>5, <1>7, <1>8, <1>9, <1>12 DEF Falling
<1>14. \A i \in 1 .. n : all[i] \in S
  BY <1>5
<1>15. \A line \in S : After(line, q.cursor)
  BY <1>1 DEF RowsOf
<1>16. \A i \in DOMAIN page.rows : After(page.rows[i], q.cursor)
  BY <1>5, <1>8, <1>9, <1>12, <1>14, <1>15
<1>17. page.cursor # None => n > PageLimit /\ k = PageLimit /\ page.cursor = CursorAt(all[PageLimit])
  BY <1>7, <1>9, <1>11 DEF NextCursor
<1>18. page.cursor # None => page.rows # <<>> /\ page.cursor = CursorAt(LastOf(page.rows))
  BY <1>8, <1>12, <1>17 DEF LastOf
<1>19. ASSUME NEW r \in Runs, ProjectOf[r] = SessionOf[q.session], After(RowOf(r), q.cursor)
       PROVE  \/ \E i \in DOMAIN page.rows : page.rows[i] = RowOf(r)
              \/ page.cursor # None /\ Before(LastOf(page.rows), RowOf(r))
  <2>1. RowOf(r) \in S
    BY <1>1, <1>19 DEF RowsOf
  <2>2. PICK i \in 1 .. n : all[i] = RowOf(r)
    BY <1>5, <2>1
  <2>3. CASE i <= k
    <3>1. k \in Nat
      BY <1>5, <1>8, <1>9
    <3>2. i \in 1 .. k
      BY <1>5, <2>3, <3>1
    <3>3. i \in DOMAIN page.rows /\ page.rows[i] = RowOf(r)
      BY <1>12, <2>2, <3>2
    <3> QED
      BY <3>3
  <2>4. CASE i > k
    <3>1. k = PageLimit /\ n > PageLimit /\ k \in 1 .. n /\ k < i
      BY <1>5, <1>8, <1>9, <2>4
    <3>2. page.cursor = CursorAt(all[PageLimit])
      BY <1>7, <1>11, <3>1 DEF NextCursor
    <3>3. Before(all[k], all[i])
      BY <1>5, <1>7, <3>1 DEF Falling
    <3>4. LastOf(page.rows) = all[k]
      BY <1>12, <3>1 DEF LastOf
    <3>5. CursorAt(all[PageLimit]) # None
      BY <1>4, <1>5, <3>1, CursorsAreRows
    <3> QED
      BY <2>2, <3>2, <3>3, <3>4, <3>5
  <2> QED
    BY <1>5, <1>8, <1>9, <2>3, <2>4
<1> QED
  BY <1>12, <1>13, <1>16, <1>18, <1>19

ViewRecords ==
  [state : {"ready", "loading", "loading-more", "error"}, rows : Seq(Row),
   cursor : Row \cup {None}, mixed : BOOLEAN]

\* A list of one session falls, and the cursor is its last row's.
ViewKept ==
  ~view.mixed =>
    /\ Falling(view.rows)
    /\ view.cursor # None => view.rows # <<>> /\ view.cursor = CursorAt(LastOf(view.rows))

\* A request that is not stray continues what is shown.
AskedKept ==
  \A q \in asked :
    /\ q.more <=> q.cursor # None
    /\ q.more /\ ~q.stray => ~view.mixed /\ q.session = session /\ q.cursor = view.cursor

\* A run is shown, or is to come, or the cursor has lost it within a second.
Accounted(r) ==
  \/ \E i \in DOMAIN view.rows : view.rows[i].run = r
  \/ view.cursor # None /\ Before(view.cursor, RowOf(r))
  \/ \E i \in DOMAIN view.rows :
       Printed(view.rows[i].at) = Printed(updated[r]) /\ Before(view.rows[i], RowOf(r))

AllAccounted ==
  session # None /\ ~view.mixed =>
    \A r \in untouched : ProjectOf[r] = SessionOf[session] => Accounted(r)

ListingInv ==
  ListingTypeOK /\ view \in ViewRecords /\ ViewKept /\ AskedKept /\ AllAccounted

LEMMA ListingInvImplies ==
  ASSUME ListingInv
  PROVE  ListingPromise
<1>1. \A i \in DOMAIN view.rows : view.rows[i] \in AnyRow
  <2>1. Row \subseteq AnyRow
    BY RowsAreFinite DEF ListingInv, ListingTypeOK
  <2> QED
    BY <2>1 DEF ListingInv, ViewRecords
<1>2. RepeatsWentBack
  BY <1>1 DEF ListingInv, ViewKept, Falling, RepeatsWentBack, Before, AnyRow
<1>3. MissedShareTheSecond
  BY DEF ListingInv, AllAccounted, Accounted, MissedShareTheSecond, Complete, Missed
<1> QED
  BY <1>2, <1>3 DEF ListingPromise

LEMMA ListingInitInv ==
  ASSUME ListingInit
  PROVE  ListingInv
<1> USE ListingAssumption DEF ListingInit
<1>1. ListingTypeOK
  BY DEF ListingTypeOK, Ticks
<1>2. view \in ViewRecords
  BY DEF ViewRecords
<1>3. ViewKept /\ AskedKept /\ AllAccounted
  BY DEF ViewKept, AskedKept, AllAccounted, Falling
<1> QED
  BY <1>1, <1>2, <1>3 DEF ListingInv

\* The clock and a transaction that begins change nothing that is shown.
LEMMA RowsAreWritten ==
  ASSUME ListingInv, Tick \/ \E r \in Runs : BeginUpdate(r)
  PROVE  ListingInv'
<1>1. UNCHANGED <<updated, session, view, asked, untouched>>
  BY DEF Tick, BeginUpdate
<1>2. now' \in Ticks /\ open' \subseteq Runs \X Ticks
  BY ListingAssumption DEF Tick, BeginUpdate, ListingInv, ListingTypeOK, Ticks
<1>3. ListingTypeOK'
  BY <1>1, <1>2 DEF ListingInv, ListingTypeOK
<1> QED
  BY <1>1, <1>3 DEF ListingInv, ViewKept, AskedKept, AllAccounted, Accounted, RowOf

\* A run that is written is untouched no more.
LEMMA RowsAreCommitted ==
  ASSUME ListingInv, NEW t \in open, CommitUpdate(t)
  PROVE  ListingInv'
<1>1. UNCHANGED <<now, session, view, asked>>
  BY DEF CommitUpdate
<1>2. t[1] \in Runs /\ t[2] \in Ticks
  BY DEF ListingInv, ListingTypeOK
<1>3. updated' \in [Runs -> Ticks] /\ \A r \in untouched' : r \in untouched /\ updated'[r] = updated[r]
  BY <1>2 DEF CommitUpdate, ListingInv, ListingTypeOK
<1>4. ListingTypeOK'
  BY <1>1, <1>3 DEF CommitUpdate, ListingInv, ListingTypeOK
<1>5. AllAccounted'
  BY <1>1, <1>3 DEF ListingInv, AllAccounted, Accounted, RowOf
<1> QED
  BY <1>1, <1>4, <1>5 DEF ListingInv, ViewKept, AskedKept

\* What is overtaken is of its type, and stray if it was to continue something.
LEMMA OvertakenRequests ==
  ASSUME NEW S \in SUBSET Request, NEW o \in Overtaken(S)
  PROVE  /\ o \in Request /\ o.stray = o.more
         /\ \E q \in S : o.session = q.session /\ o.cursor = q.cursor /\ o.more = q.more
<1>1. PICK q \in S : o = [q EXCEPT !.stray = q.more]
  BY DEF Overtaken
<1> QED
  BY <1>1 DEF Request

LEMMA NewCalls ==
  ASSUME FreeCalls # {}
  PROVE  NewCall \in 1 .. MaxPageCalls
  BY DEF FreeCalls, NewCall

\* The type invariant after a step that changes the view and the requests.
LEMMA ListingStaysTyped ==
  ASSUME ListingInv, UNCHANGED <<now, updated, open>>, session' \in Sessions \cup {None},
         view' \in ViewRecords, untouched' \subseteq Runs, asked' \subseteq Request,
         \A q \in asked' : ~q.more => q.session = session' /\ ~q.stray
  PROVE  ListingTypeOK'
<1>1. /\ view'.state \in {"ready", "loading", "loading-more", "error"} /\ view'.rows \in Seq(Row)
      /\ view'.cursor \in Row \cup {None} /\ view'.mixed \in BOOLEAN
  BY DEF ViewRecords
<1> QED
  BY <1>1 DEF ListingInv, ListingTypeOK

LEMMA SessionsAreShown ==
  ASSUME ListingInv, NEW s \in Sessions \cup {None}, ShowSession(s)
  PROVE  ListingInv'
<1>1. UNCHANGED <<now, updated, open>> /\ session' = s /\ untouched' = Runs
  BY DEF ShowSession
<1>2. ASSUME NEW o \in CancelFirst
      PROVE  o \in Request /\ o.stray /\ o.more /\ o.cursor # None
  <2>1. {x \in asked : x.more} \in SUBSET Request
    BY DEF ListingInv, ListingTypeOK
  <2>2. /\ o \in Request /\ o.stray = o.more
        /\ \E q \in {x \in asked : x.more} : o.cursor = q.cursor /\ o.more = q.more
    BY <2>1, OvertakenRequests DEF CancelFirst
  <2> QED
    BY <2>2 DEF ListingInv, AskedKept
<1>3. CASE s = None
  <2>1. view' = [state |-> "ready", rows |-> <<>>, cursor |-> None, mixed |-> FALSE]
        /\ asked' = CancelFirst
    BY <1>3 DEF ShowSession
  <2>2. view' \in ViewRecords
    BY <2>1 DEF ViewRecords
  <2>3. ListingTypeOK'
    BY <1>1, <1>2, <1>3, <2>1 DEF ListingInv, ListingTypeOK
  <2>4. ViewKept' /\ AskedKept' /\ AllAccounted'
    BY <1>1, <1>2, <1>3, <2>1 DEF ViewKept, AskedKept, AllAccounted, Falling
  <2> QED
    BY <2>2, <2>3, <2>4 DEF ListingInv
<1>4. CASE s # None
  <2>1. PICK new : new = [call |-> NewCall, session |-> s, cursor |-> None, more |-> FALSE, stray |-> FALSE]
    OBVIOUS
  <2>2. /\ view' = [[view EXCEPT !.state = "loading"] EXCEPT !.mixed = TRUE]
        /\ asked' = CancelFirst \cup {new} /\ FreeCalls # {}
    BY <1>4, <2>1 DEF ShowSession
  <2>3. new \in Request
    BY <1>4, <2>1, <2>2, NewCalls DEF Request
  <2>4. view' \in ViewRecords /\ view'.mixed
    BY <2>2 DEF ListingInv, ViewRecords
  <2>5. ListingTypeOK'
    <3>1. asked' \subseteq Request /\ \A q \in asked' : ~q.more => q.session = s /\ ~q.stray
      <4>1. ~new.more /\ new.session = s /\ ~new.stray
        BY <2>1
      <4>2. CancelFirst \subseteq Request
        BY <1>2
      <4>3. asked' \subseteq Request
        BY <2>2, <2>3, <4>2, Zenon
      <4> QED
        BY <1>2, <2>2, <4>1, <4>3, Zenon
    <3> QED
      BY <1>1, <2>4, <3>1, ListingStaysTyped
  <2>6. ViewKept' /\ AskedKept' /\ AllAccounted'
    BY <1>2, <2>1, <2>2, <2>4 DEF ViewKept, AskedKept, AllAccounted
  <2> QED
    BY <2>4, <2>5, <2>6 DEF ListingInv
<1> QED
  BY <1>3, <1>4

LEMMA MoreIsAsked ==
  ASSUME ListingInv, LoadMore
  PROVE  ListingInv'
<1>1. PICK new : new = [call |-> NewCall, session |-> session, cursor |-> view.cursor,
                        more |-> TRUE, stray |-> view.mixed]
  OBVIOUS
<1>2. /\ view' = [view EXCEPT !.state = "loading-more"] /\ asked' = asked \cup {new}
      /\ UNCHANGED <<now, updated, open, session, untouched>>
      /\ session # None /\ FreeCalls # {} /\ view.cursor # None
  BY <1>1 DEF LoadMore
<1>3. /\ view' \in ViewRecords
      /\ view'.rows = view.rows /\ view'.cursor = view.cursor /\ view'.mixed = view.mixed
  BY <1>2 DEF ListingInv, ViewRecords
<1>4. new \in Request
  BY <1>1, <1>2, NewCalls DEF ListingInv, ListingTypeOK, ViewRecords, Request
<1>5. ListingTypeOK'
  <2>1. asked' \subseteq Request /\ \A q \in asked' : ~q.more => q.session = session /\ ~q.stray
    <3>1. new.more
      BY <1>1
    <3>2. asked \subseteq Request /\ \A q \in asked : ~q.more => q.session = session /\ ~q.stray
      BY DEF ListingInv, ListingTypeOK
    <3> QED
      BY <1>2, <1>4, <3>1, <3>2, Zenon
  <2> QED
    BY <1>2, <1>3, <2>1, ListingStaysTyped DEF ListingInv, ListingTypeOK
<1>6. AskedKept'
  BY <1>1, <1>2, <1>3 DEF ListingInv, AskedKept
<1>7. ViewKept' /\ AllAccounted'
  BY <1>2, <1>3 DEF ListingInv, ViewKept, AllAccounted, Accounted, RowOf
<1> QED
  BY <1>3, <1>5, <1>6, <1>7 DEF ListingInv

LEMMA RequestsFail ==
  ASSUME ListingInv, NEW q \in asked, ListingFails(q)
  PROVE  ListingInv'
<1>1. /\ view' = [view EXCEPT !.state = "error"] /\ asked' = asked \ {q}
      /\ UNCHANGED <<now, updated, open, session, untouched>>
  BY DEF ListingFails
<1>2. /\ view' \in ViewRecords
      /\ view'.rows = view.rows /\ view'.cursor = view.cursor /\ view'.mixed = view.mixed
  BY <1>1 DEF ListingInv, ViewRecords
<1>3. ListingTypeOK'
  BY <1>1, <1>2 DEF ListingInv, ListingTypeOK, ViewRecords
<1>4. AskedKept'
  BY <1>1, <1>2 DEF ListingInv, AskedKept
<1>5. ViewKept' /\ AllAccounted'
  BY <1>1, <1>2 DEF ListingInv, ViewKept, AllAccounted, Accounted, RowOf
<1> QED
  BY <1>2, <1>3, <1>4, <1>5 DEF ListingInv

\* What comes after the cursor comes after the row it was made of; what comes after the row
\* alone shares its second.
LEMMA CursorsAndRows ==
  ASSUME NEW a \in Row, NEW b \in Row, Row \subseteq AnyRow
  PROVE  /\ Before(CursorAt(a), b) => Before(a, b)
         /\ Before(a, b) /\ ~Before(CursorAt(a), b) => Printed(a.at) = Printed(b.at)
<1>1. a.at \in Ticks /\ a.at \in Nat /\ b.at \in Nat /\ a.run \in Nat /\ b.run \in Nat
  BY DEF Row, AnyRow
<1>2. Printed(a.at) \in Nat /\ Printed(a.at) <= a.at
  BY <1>1, CursorsLoseTheFraction, ListingAssumption DEF Ticks
<1>3. CursorAt(a).run = a.run /\ CursorAt(a).at = Printed(a.at)
  BY DEF CursorAt
<1>4. Before(CursorAt(a), b) => Before(a, b)
  BY <1>1, <1>2, <1>3 DEF Before
<1>5. ASSUME Before(a, b), ~Before(CursorAt(a), b)
      PROVE  Printed(a.at) = Printed(b.at)
  <2>1. Printed(a.at) <= b.at /\ b.at <= a.at
    BY <1>1, <1>2, <1>3, <1>5 DEF Before
  <2> QED
    BY <1>1, <2>1, CursorsLoseTheFraction
<1> QED
  BY <1>4, <1>5

\* A run that is on a page, or comes after its last row, is accounted for.
LEMMA PagesAccount ==
  ASSUME updated \in [Runs -> Ticks], NEW q, NEW page, page = RunsPage(q),
         NEW r \in Runs, ProjectOf[r] = SessionOf[q.session], After(RowOf(r), q.cursor)
  PROVE  \/ \E i \in DOMAIN page.rows : page.rows[i].run = r
         \/ page.cursor # None /\ Before(page.cursor, RowOf(r))
         \/ \E i \in DOMAIN page.rows :
              Printed(page.rows[i].at) = Printed(updated[r]) /\ Before(page.rows[i], RowOf(r))
<1>1. /\ page.rows \in Seq(Row)
      /\ page.cursor # None => page.rows # <<>> /\ page.cursor = CursorAt(LastOf(page.rows))
      /\ \/ \E i \in DOMAIN page.rows : page.rows[i] = RowOf(r)
         \/ page.cursor # None /\ Before(LastOf(page.rows), RowOf(r))
  BY PagesAreInOrder
<1>2. CASE \E i \in DOMAIN page.rows : page.rows[i] = RowOf(r)
  BY <1>2 DEF RowOf
<1>3. CASE page.cursor # None /\ Before(LastOf(page.rows), RowOf(r))
  <2>1. Len(page.rows) \in DOMAIN page.rows /\ LastOf(page.rows) \in Row
    BY <1>1, <1>3 DEF LastOf
  <2>2. RowOf(r) \in Row /\ RowOf(r).at = updated[r]
    BY DEF RowOf, Row
  <2>3. Row \subseteq AnyRow
    BY RowsAreFinite
  <2>4. Before(page.cursor, RowOf(r)) \/ Printed(LastOf(page.rows).at) = Printed(updated[r])
    BY <1>1, <1>3, <2>1, <2>2, <2>3, CursorsAndRows
  <2> QED
    BY <1>3, <2>1, <2>4 DEF LastOf
<1> QED
  BY <1>1, <1>2, <1>3

\* Where the rows of a page are that continues others.
LEMMA PagesConcatenate ==
  ASSUME NEW old \in Seq(Row), NEW new \in Seq(Row)
  PROVE  /\ Len(old \o new) = Len(old) + Len(new)
         /\ \A i \in DOMAIN old : i \in DOMAIN (old \o new) /\ (old \o new)[i] = old[i]
         /\ \A i \in DOMAIN new : /\ Len(old) + i \in DOMAIN (old \o new)
                                  /\ (old \o new)[Len(old) + i] = new[i]
<1>1. /\ old \o new \in Seq(Row) /\ DOMAIN (old \o new) = 1 .. Len(old) + Len(new)
      /\ Len(old \o new) = Len(old) + Len(new)
      /\ \A i \in DOMAIN (old \o new) :
           (old \o new)[i] = IF i <= Len(old) THEN old[i] ELSE new[i - Len(old)]
  BY ConcatProperties
<1>2. Len(old) \in Nat /\ Len(new) \in Nat /\ DOMAIN old = 1 .. Len(old) /\ DOMAIN new = 1 .. Len(new)
  OBVIOUS
<1>3. ASSUME NEW i \in DOMAIN old
      PROVE  i \in DOMAIN (old \o new) /\ (old \o new)[i] = old[i]
  BY <1>1, <1>2
<1>4. ASSUME NEW i \in DOMAIN new
      PROVE  Len(old) + i \in DOMAIN (old \o new) /\ (old \o new)[Len(old) + i] = new[i]
  BY <1>1, <1>2
<1> QED
  BY <1>1, <1>3, <1>4

\* A page that continues what is shown keeps it falling.
LEMMA PagesContinue ==
  ASSUME NEW old \in Seq(Row), NEW new \in Seq(Row), Falling(old), Falling(new), old # <<>>,
         \A i \in DOMAIN new : Before(CursorAt(LastOf(old)), new[i]), Row \subseteq AnyRow
  PROVE  Falling(old \o new)
<1>1. /\ old \o new \in Seq(Row) /\ DOMAIN (old \o new) = 1 .. Len(old) + Len(new)
      /\ \A i \in DOMAIN (old \o new) :
           (old \o new)[i] = IF i <= Len(old) THEN old[i] ELSE new[i - Len(old)]
  BY ConcatProperties
<1>2. Len(old) \in Nat \ {0} /\ Len(new) \in Nat /\ DOMAIN old = 1 .. Len(old) /\ DOMAIN new = 1 .. Len(new)
  OBVIOUS
<1>3. LastOf(old) \in Row /\ Len(old) \in DOMAIN old
  BY <1>2 DEF LastOf
<1>4. ASSUME NEW i \in DOMAIN old, NEW j \in DOMAIN new
      PROVE  Before(old[i], new[j])
  <2>1. Before(LastOf(old), new[j])
    BY <1>3, CursorsAndRows
  <2>2. i = Len(old) \/ Before(old[i], LastOf(old))
    BY <1>2, <1>3 DEF Falling, LastOf
  <2>3. old[i] \in AnyRow /\ LastOf(old) \in AnyRow /\ new[j] \in AnyRow
    BY <1>3
  <2> QED
    BY <2>1, <2>2, <2>3, RowsAreOrdered DEF LastOf
<1>5. SUFFICES ASSUME NEW i \in DOMAIN (old \o new), NEW j \in DOMAIN (old \o new), i < j
               PROVE  Before((old \o new)[i], (old \o new)[j])
  BY DEF Falling
<1>6. i \in Nat /\ j \in Nat
  BY <1>1, <1>2
<1>7. CASE j <= Len(old)
  <2>1. i \in DOMAIN old /\ j \in DOMAIN old
    BY <1>1, <1>2, <1>5, <1>6, <1>7
  <2>2. (old \o new)[i] = old[i] /\ (old \o new)[j] = old[j]
    BY <1>1, <1>2, <1>5, <1>7, <2>1
  <2> QED
    BY <1>5, <2>1, <2>2 DEF Falling
<1>8. CASE i <= Len(old) /\ j > Len(old)
  <2>1. i \in DOMAIN old /\ j - Len(old) \in DOMAIN new
    BY <1>1, <1>2, <1>5, <1>6, <1>8
  <2>2. (old \o new)[i] = old[i] /\ (old \o new)[j] = new[j - Len(old)]
    BY <1>1, <1>2, <1>5, <1>6, <1>8
  <2> QED
    BY <1>4, <2>1, <2>2
<1>9. CASE i > Len(old)
  <2>1. i - Len(old) \in DOMAIN new /\ j - Len(old) \in DOMAIN new /\ i - Len(old) < j - Len(old)
    BY <1>1, <1>2, <1>5, <1>6, <1>9
  <2>2. (old \o new)[i] = new[i - Len(old)] /\ (old \o new)[j] = new[j - Len(old)]
    BY <1>1, <1>2, <1>5, <1>6, <1>9
  <2> QED
    BY <2>1, <2>2 DEF Falling
<1> QED
  BY <1>2, <1>6, <1>7, <1>8, <1>9

LEMMA PagesAnswer ==
  ASSUME ListingInv, NEW q \in asked, ListingAnswer(q)
  PROVE  ListingInv'
<1>1. PICK page : page = RunsPage(q)
  OBVIOUS
<1>2. /\ view' = [state |-> "ready", rows |-> Collected(q, page), cursor |-> page.cursor,
                  mixed |-> q.more /\ (q.stray \/ view.mixed)]
      /\ asked' = Overtaken(asked \ {q})
      /\ UNCHANGED <<now, updated, open, session, untouched>>
  BY <1>1 DEF ListingAnswer
<1>3. /\ updated \in [Runs -> Ticks] /\ Row \subseteq AnyRow /\ view.rows \in Seq(Row)
      /\ q \in Request /\ session \in Sessions \cup {None} /\ untouched \subseteq Runs
  BY RowsAreFinite DEF ListingInv, ListingTypeOK
<1>4. /\ page.rows \in Seq(Row) /\ Falling(page.rows)
      /\ \A i \in DOMAIN page.rows : After(page.rows[i], q.cursor)
      /\ page.cursor # None => page.rows # <<>> /\ page.cursor = CursorAt(LastOf(page.rows))
  BY <1>1, <1>3, PagesAreInOrder
<1>5. page.cursor \in Row \cup {None}
  <2>1. page.cursor # None => LastOf(page.rows) \in Row
    BY <1>4 DEF LastOf
  <2> QED
    BY <1>4, <2>1, CursorsAreRows
<1>6. Collected(q, page) \in Seq(Row)
  BY <1>3, <1>4, ConcatProperties DEF Collected
<1>7. view' \in ViewRecords
  <2>1. q.more \in BOOLEAN /\ q.stray \in BOOLEAN /\ view.mixed \in BOOLEAN
    BY <1>3 DEF Request, ListingInv, ListingTypeOK
  <2>2. (q.more /\ (q.stray \/ view.mixed)) \in BOOLEAN
    OBVIOUS
  <2> QED
    BY <1>2, <1>5, <1>6, <2>2 DEF ViewRecords
<1>8. ASSUME NEW o \in asked'
      PROVE  /\ o \in Request /\ (o.more <=> o.cursor # None) /\ o.stray = o.more
             /\ ~o.more => o.session = session
  <2>1. asked \ {q} \in SUBSET Request
    BY DEF ListingInv, ListingTypeOK
  <2>2. /\ o \in Request /\ o.stray = o.more
        /\ \E p \in asked \ {q} : o.session = p.session /\ o.cursor = p.cursor /\ o.more = p.more
    BY <1>2, <2>1, OvertakenRequests
  <2> QED
    BY <2>2 DEF ListingInv, ListingTypeOK, AskedKept
<1>9. ListingTypeOK'
  BY <1>2, <1>3, <1>7, <1>8, ListingStaysTyped
<1>10. AskedKept'
  BY <1>8 DEF AskedKept
<1>11. CASE ~q.more
  <2>1. /\ view'.rows = page.rows /\ view'.cursor = page.cursor /\ q.session = session /\ q.cursor = None
    BY <1>2, <1>11 DEF Collected, ListingInv, ListingTypeOK, AskedKept
  <2>2. ViewKept'
    BY <1>4, <2>1 DEF ViewKept
  <2>3. ASSUME NEW r \in untouched, ProjectOf[r] = SessionOf[session]
        PROVE  Accounted(r)'
    <3>1. r \in Runs /\ After(RowOf(r), q.cursor)
      BY <1>3, <2>1 DEF After
    <3> QED
      BY <1>1, <1>2, <1>3, <2>1, <2>3, <3>1, PagesAccount DEF Accounted, RowOf
  <2>4. AllAccounted'
    BY <1>2, <2>3 DEF AllAccounted
  <2> QED
    BY <1>7, <1>9, <1>10, <2>2, <2>4 DEF ListingInv
<1>12. CASE q.more /\ (q.stray \/ view.mixed)
  <2>1. view'.mixed
    BY <1>2, <1>12
  <2> QED
    BY <1>7, <1>9, <1>10, <2>1 DEF ListingInv, ViewKept, AllAccounted
<1>13. CASE q.more /\ ~q.stray /\ ~view.mixed
  <2>1. /\ view'.rows = view.rows \o page.rows /\ view'.cursor = page.cursor
        /\ q.session = session /\ q.cursor = view.cursor /\ q.cursor # None
    BY <1>2, <1>13 DEF Collected, ListingInv, AskedKept
  <2>2. view.rows # <<>> /\ view.cursor = CursorAt(LastOf(view.rows)) /\ Falling(view.rows)
    BY <1>13, <2>1 DEF ListingInv, ViewKept
  <2>3. \A i \in DOMAIN page.rows : Before(CursorAt(LastOf(view.rows)), page.rows[i])
    BY <1>4, <2>1, <2>2 DEF After
  <2>4. Falling(view'.rows)
    BY <1>3, <1>4, <2>1, <2>2, <2>3, PagesContinue
  <2>5. /\ Len(view'.rows) = Len(view.rows) + Len(page.rows)
        /\ \A i \in DOMAIN view.rows : i \in DOMAIN view'.rows /\ view'.rows[i] = view.rows[i]
        /\ \A i \in DOMAIN page.rows : /\ Len(view.rows) + i \in DOMAIN view'.rows
                                       /\ view'.rows[Len(view.rows) + i] = page.rows[i]
    <3>1. PICK old \in Seq(Row), new \in Seq(Row) : old = view.rows /\ new = page.rows
      BY <1>3, <1>4
    <3>2. /\ Len(old \o new) = Len(old) + Len(new)
          /\ \A i \in DOMAIN old : i \in DOMAIN (old \o new) /\ (old \o new)[i] = old[i]
          /\ \A i \in DOMAIN new : /\ Len(old) + i \in DOMAIN (old \o new)
                                   /\ (old \o new)[Len(old) + i] = new[i]
      BY PagesConcatenate
    <3>3. view'.rows = old \o new
      BY <2>1, <3>1
    <3> QED
      BY <3>1, <3>2, <3>3, Zenon
  <2>6. ViewKept'
    <3>1. page.cursor # None => view'.rows # <<>> /\ LastOf(view'.rows) = LastOf(page.rows)
      <4>1. SUFFICES ASSUME page.cursor # None PROVE view'.rows # <<>> /\ LastOf(view'.rows) = LastOf(page.rows)
        OBVIOUS
      <4>2. Len(page.rows) \in DOMAIN page.rows
        BY <1>4, <4>1
      <4>3. /\ Len(view.rows) + Len(page.rows) \in DOMAIN view'.rows
            /\ view'.rows[Len(view.rows) + Len(page.rows)] = page.rows[Len(page.rows)]
        BY <2>5, <4>2, Zenon
      <4>4. view'.rows # <<>>
        <5>1. DOMAIN <<>> = {}
          OBVIOUS
        <5> QED
          BY <4>3, <5>1, Zenon
      <4> QED
        BY <2>5, <4>3, <4>4 DEF LastOf
    <3> QED
      BY <1>4, <2>1, <2>4, <3>1 DEF ViewKept
  <2>7. ASSUME NEW r \in untouched, ProjectOf[r] = SessionOf[session], session # None
        PROVE  Accounted(r)'
    <3>1. r \in Runs /\ RowOf(r)' = RowOf(r) /\ updated'[r] = updated[r]
      BY <1>2, <1>3 DEF RowOf
    <3>2. Accounted(r)
      BY <1>13, <2>7 DEF ListingInv, AllAccounted
    <3>3. CASE \E i \in DOMAIN view.rows : view.rows[i].run = r
      BY <2>5, <3>3 DEF Accounted
    <3>4. CASE \E i \in DOMAIN view.rows :
                 Printed(view.rows[i].at) = Printed(updated[r]) /\ Before(view.rows[i], RowOf(r))
      BY <2>5, <3>1, <3>4 DEF Accounted
    <3>5. CASE Before(view.cursor, RowOf(r))
      <4>1. After(RowOf(r), q.cursor)
        BY <2>1, <3>5 DEF After
      <4>2. \/ \E i \in DOMAIN page.rows : page.rows[i].run = r
            \/ page.cursor # None /\ Before(page.cursor, RowOf(r))
            \/ \E i \in DOMAIN page.rows :
                 Printed(page.rows[i].at) = Printed(updated[r]) /\ Before(page.rows[i], RowOf(r))
        BY <1>1, <1>3, <2>1, <2>7, <3>1, <4>1, PagesAccount
      <4> QED
        BY <2>1, <2>5, <3>1, <4>2 DEF Accounted
    <3> QED
      BY <3>2, <3>3, <3>4, <3>5 DEF Accounted
  <2>8. AllAccounted'
    BY <1>2, <2>7 DEF AllAccounted
  <2> QED
    BY <1>7, <1>9, <1>10, <2>6, <2>8 DEF ListingInv
<1> QED
  BY <1>11, <1>12, <1>13

LEMMA ListingNextInv ==
  ASSUME ListingInv, [ListingNext]_listingVars
  PROVE  ListingInv'
<1>1. CASE UNCHANGED listingVars
  BY <1>1 DEF listingVars, ListingInv, ListingTypeOK, ViewKept, AskedKept, AllAccounted, Accounted, RowOf
<1>2. CASE ListingNext
  BY <1>2, RowsAreWritten, RowsAreCommitted, SessionsAreShown, MoreIsAsked, PagesAnswer, RequestsFail
     DEF ListingNext
<1> QED
  BY <1>1, <1>2

\* Whatever transactions write while the pages of a list are read, and for any number of
\* runs, sessions, requests and sizes of pages: a list that is complete leaves out only runs
\* that share the second of a row before them (the cursor of listRuns), and shows a run twice
\* only where its updated_at was set back (updateProjection), unless a page of another list
\* was put among its rows (RunsIndex).
THEOREM ListingKeepsItsPromise == ListingSpec => []ListingPromise
  BY ListingInitInv, ListingNextInv, ListingInvImplies, PTL DEF ListingSpec

---------------------------------------------------------------------------
(***************************************************************************)
(* Every part keeps the types of its state.                                *)
(***************************************************************************)

\* The rows, locks and answers of the admission keep their types, and the row lock is that of
\* the call inside its transaction.
THEOREM AdmissionTypesHold == AdmissionSpec => []AdmissionTypeOK
<1>1. AdmissionInv => AdmissionTypeOK
  BY DEF AdmissionInv
<1>2. AdmissionInv /\ [AdmissionNext]_admissionVars => AdmissionInv'
  BY AdmissionStep
<1> QED
  BY <1>1, <1>2, AdmissionInitially, PTL DEF AdmissionSpec

\* So do those of the wallet identity service; a quota row and an address are only locked by
\* a call that is inside its transaction.
THEOREM WalletTypesHold == WalletSpec => []WalletTypeOK
<1>1. WalletInit => WalletInv
  BY RequestsInitially, LoginsInitially DEF WalletInv
<1>2. WalletInv => WalletTypeOK
  <2> SUFFICES ASSUME WalletInv PROVE WalletTypeOK
    OBVIOUS
  <2>1. RequestTypes /\ LoginTypes
    BY DEF WalletInv, RequestsInv, LoginsInv
  <2>2. ASSUME NEW line \in DOMAIN held, held[line] # None
        PROVE  request[held[line]].at \in {"global", "insert"}
    <3>1. PICK m \in Minutes, s \in Subjects : line = <<m, s>>
      BY <2>1 DEF RequestTypes
    <3>2. PICK r \in Requests : r = held[<<m, s>>]
      BY <2>1, <2>2, <3>1 DEF RequestTypes
    <3>3. RowsHeld(r)
      BY DEF WalletInv, RequestsInv
    <3> QED
      BY <3>1, <3>2, <3>3 DEF RowsHeld, HasPassed
  <2>3. \A a \in Addresses : LockIsUsed(a)
    BY DEF WalletInv, LoginsInv
  <2> QED
    BY <2>1, <2>2, <2>3 DEF WalletTypeOK, RequestTypes, LoginTypes, RequestRecords, LoginRecords,
       LoginOutcomes, LockIsUsed
<1>3. WalletInv /\ [WalletNext]_walletVars => WalletInv'
  BY WalletStep
<1> QED
  BY <1>1, <1>2, <1>3, PTL DEF WalletSpec

\* Of the issuance of tokens: what is told is told at the end of a call.
THEOREM IssuanceTypesHold == IssuanceSpec => []IssuanceTypeOK
<1>1. IssuanceInv => IssuanceTypeOK
  BY DEF IssuanceInv
<1>2. IssuanceInv /\ [IssuanceNext]_issuanceVars => IssuanceInv'
  BY IssuanceStep
<1> QED
  BY <1>1, <1>2, IssuanceInitially, PTL DEF IssuanceSpec

\* Of the list of runs: a first page is only asked for the session that is shown.
THEOREM ListingTypesHold == ListingSpec => []ListingTypeOK
<1>1. ListingInv => ListingTypeOK
  BY DEF ListingInv
<1> QED
  BY <1>1, ListingInitInv, ListingNextInv, PTL DEF ListingSpec
=============================================================================
