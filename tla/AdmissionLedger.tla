--------------------------- MODULE AdmissionLedger --------------------------
(***************************************************************************)
(* What createRun in production-service.ts promises a project, without the *)
(* transactions, locks and counters that keep it: a call takes effect in   *)
(* one step or not at all, and is refused only with the reason that holds  *)
(* at that step.                                                           *)
(***************************************************************************)
EXTENDS Nothing, Naturals, FiniteSets

CONSTANTS Calls, Keys, Live, KeyOf, ManifestOf, DayLimit, LiveLimit, Colliding, LastDay

VARIABLES
  day,     \* the UTC day
  runs,    \* the run of each key: [manifest, day, over], or None
  spent,   \* keys whose command key another command has
  limit,   \* the runs a day may have, once it has one; None before and later
  cap,     \* the live runs at a time, once a day has a live one; None before and later
  answer   \* what a call was answered last, "none" before

ledgerVars == <<day, runs, spent, limit, cap, answer>>

Days == 1 .. LastDay

\* The days a call that is answered today may be charged to: it may have begun yesterday.
Recent == {day, day - 1} \cap Days

Taken(c) == runs[KeyOf[c]] # None

CreatedIn(d) == {k \in Keys : runs[k] # None /\ runs[k].day = d}

ActiveRuns == {k \in Keys : runs[k] # None /\ runs[k].manifest \in Live /\ ~runs[k].over}

\* The limit that was stored first holds for every process of that day.
LimitFor(c, d) == IF limit[d] = None THEN DayLimit[c] ELSE limit[d]

CapFor(c, d) == IF cap[d] = None THEN LiveLimit[c] ELSE cap[d]

LedgerInit ==
  /\ day = 1
  /\ runs = [k \in Keys |-> None]
  /\ spent = {}
  /\ limit = [d \in Days |-> None]
  /\ cap = [d \in Days |-> None]
  /\ answer = [c \in Calls |-> "none"]

Answer(c, a) == answer[c] = "none" /\ answer' = [answer EXCEPT ![c] = a]

\* A run for a free key, on a day that has fewer than its limit.
Charge(c, d) ==
  /\ ~Taken(c) /\ KeyOf[c] \notin spent
  /\ Cardinality(CreatedIn(d)) < LimitFor(c, d)
  /\ runs' = [runs EXCEPT ![KeyOf[c]] = [manifest |-> ManifestOf[c], day |-> d, over |-> FALSE]]
  /\ limit' = [limit EXCEPT ![d] = LimitFor(c, d)]

\* A live run also needs a place under the cap.
WithinCap(c) ==
  IF ManifestOf[c] \in Live
    THEN \E d \in Recent :
           /\ Cardinality(ActiveRuns) < CapFor(c, d)
           /\ cap' = [cap EXCEPT ![d] = CapFor(c, d)]
    ELSE UNCHANGED cap

\* The run is created; its answer may be lost.
Admit(c) ==
  /\ \E d \in Recent : Charge(c, d)
  /\ WithinCap(c)
  /\ \E a \in {"accepted", "error"} : Answer(c, a)
  /\ UNCHANGED <<day, spent>>

\* A call that creates nothing is told of the run of its key, of a key that is spent, of a
\* day or a cap that is full, or that it failed.
Tell(c) ==
  /\ \/ Taken(c) /\ runs[KeyOf[c]].manifest = ManifestOf[c] /\ Answer(c, "accepted")
     \/ Taken(c) /\ runs[KeyOf[c]].manifest # ManifestOf[c] /\ Answer(c, "conflict")
     \/ KeyOf[c] \in spent /\ Answer(c, "conflict")
     \/ /\ limit[day] # None /\ Cardinality(CreatedIn(day)) >= limit[day]
        /\ Answer(c, "daily")
     \/ /\ ManifestOf[c] \in Live /\ Cardinality(ActiveRuns) >= CapFor(c, day)
        /\ Answer(c, "active")
     \/ Answer(c, "error")
  /\ UNCHANGED <<day, runs, spent, limit, cap>>

\* The client asks again.
AskAgain(c) ==
  /\ answer[c] \in {"error", "daily", "active"}
  /\ answer' = [answer EXCEPT ![c] = "none"]
  /\ UNCHANGED <<day, runs, spent, limit, cap>>

\* A run ends, and with it its place under the cap.
Finish(k) ==
  /\ runs[k] # None /\ ~runs[k].over
  /\ runs' = [runs EXCEPT ![k].over = TRUE]
  /\ UNCHANGED <<day, spent, limit, cap, answer>>

\* Another command takes the command key of a free key.
Spend(k) ==
  /\ k \in Colliding \ spent /\ runs[k] = None
  /\ spent' = spent \cup {k}
  /\ UNCHANGED <<day, runs, limit, cap, answer>>

\* Midnight.
Tomorrow ==
  /\ day < LastDay /\ day' = day + 1
  /\ UNCHANGED <<runs, spent, limit, cap, answer>>

\* What was stored for a day is forgotten when no call can be charged to it.
Forget(d) ==
  /\ d + 2 <= day
  /\ \/ limit' = [limit EXCEPT ![d] = None] /\ UNCHANGED cap
     \/ cap' = [cap EXCEPT ![d] = None] /\ UNCHANGED limit
  /\ UNCHANGED <<day, runs, spent, answer>>

LedgerNext ==
  /\ ledgerVars' # ledgerVars
  /\ \/ \E c \in Calls : Admit(c) \/ Tell(c) \/ AskAgain(c)
     \/ \E k \in Keys : Finish(k) \/ Spend(k)
     \/ Tomorrow
     \/ \E d \in Days : Forget(d)

LedgerSpec == LedgerInit /\ [][LedgerNext]_ledgerVars
=============================================================================
