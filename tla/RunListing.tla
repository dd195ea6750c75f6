----------------------------- MODULE RunListing -----------------------------
(***************************************************************************)
(* The list of runs: pages cut by a cursor (production-service.ts          *)
(* listRuns), rows whose updated_at is the start of the transaction that   *)
(* wrote them (postgres.ts), and the page that collects them               *)
(* (RunsIndex.tsx).  updated_at has ticks; the cursor is printed through   *)
(* String(Date), which keeps the second.                                   *)
(***************************************************************************)
EXTENDS Nothing, Naturals, Sequences, FiniteSets, FiniteSetsExt

CONSTANTS
  Runs,          \* run ids, ordered as uuids are
  Sessions,      \* browser sessions
  Projects,
  ProjectOf,     \* the project of a run
  SessionOf,     \* the project of a session
  PageLimit,     \* rows of a page
  SecondLength,  \* ticks of a second
  LastTick,      \* bound: the last instant
  MaxOpen,       \* bound: open transactions
  MaxShown,      \* bound: rows the view collects
  MaxPageCalls   \* bound: requests in flight

ASSUME ListingAssumption ==
  /\ Runs \subseteq Nat /\ IsFiniteSet(Runs)
  /\ ProjectOf \in [Runs -> Projects]
  /\ SessionOf \in [Sessions -> Projects]
  /\ {PageLimit, SecondLength, LastTick, MaxOpen, MaxShown, MaxPageCalls} \subseteq Nat \ {0}
  /\ None \notin Sessions /\ None \notin [run : Nat, at : Nat]

VARIABLES
  now,      \* PostgreSQL's clock
  updated,  \* updated_at of the rows; 0 where there is none yet
  open,     \* open transactions: the run they write and when they began
  session,  \* the session of the page, or None
  view,     \* the page: state, rows, cursor, and whether the rows are not one list of the session
  asked,    \* requests for a page in flight
  untouched \* runs no transaction has written since the session was shown

listingVars == <<now, updated, open, session, view, asked, untouched>>

Ticks == 0 .. LastTick

Row == [run : Runs, at : Ticks]

\* A request is stray when the session, or the rows it was to continue, are gone.
Request ==
  [call : 1 .. MaxPageCalls, session : Sessions, cursor : Row \cup {None}, more : BOOLEAN, stray : BOOLEAN]

\* Types of the state; a first page is asked for the session that is shown.
ListingTypeOK ==
  /\ now \in Ticks
  /\ updated \in [Runs -> Ticks]
  /\ open \subseteq Runs \X Ticks
  /\ session \in Sessions \cup {None}
  /\ view.state \in {"ready", "loading", "loading-more", "error"}
  /\ view.rows \in Seq(Row)
  /\ view.cursor \in Row \cup {None}
  /\ view.mixed \in BOOLEAN
  /\ asked \subseteq Request
  /\ untouched \subseteq Runs
  /\ \A q \in asked : ~q.more => q.session = session /\ ~q.stray

ListingInit ==
  /\ now = 1
  /\ updated = [r \in Runs |-> 1]
  /\ open = {}
  /\ session = None
  /\ view = [state |-> "ready", rows |-> <<>>, cursor |-> None, mixed |-> FALSE]
  /\ asked = {}
  /\ untouched = Runs

---------------------------------------------------------------------------
(* The rows.                                                               *)

Tick ==
  /\ now < LastTick
  /\ now' = now + 1
  /\ UNCHANGED <<updated, open, session, view, asked, untouched>>

\* now() of a transaction is the instant it begins, before it waits for the run.
BeginUpdate(r) ==
  /\ Cardinality(open) < MaxOpen
  /\ open' = open \cup {<<r, now>>}
  /\ UNCHANGED <<now, updated, session, view, asked, untouched>>

\* Transactions of one run commit in the order in which they get its lock.
CommitUpdate(t) ==
  /\ open' = open \ {t}
  /\ updated' = [updated EXCEPT ![t[1]] = t[2]]
  /\ untouched' = untouched \ {t[1]}
  /\ UNCHANGED <<now, session, view, asked>>

---------------------------------------------------------------------------
(* listRuns.                                                               *)

RowOf(r) == [run |-> r, at |-> updated[r]]

\* ORDER BY updated_at DESC, id DESC.
Before(a, b) == a.at > b.at \/ (a.at = b.at /\ a.run > b.run)

\* Fault: the row the cursor names is listed again.
NotAfter(row, cursor) ==
  cursor = None \/ Before(cursor, row) \/ (row.run = cursor.run /\ row.at = cursor.at)

After(row, cursor) == cursor = None \/ Before(cursor, row)

\* The place of a row is how many come before it.
InOrder(rows) ==
  [i \in 1 .. Cardinality(rows) |->
    CHOOSE y \in rows : Cardinality({x \in rows : Before(x, y)}) = i - 1]

Listed(project, cursor) ==
  InOrder({RowOf(r) : r \in {x \in Runs : ProjectOf[x] = project /\ After(RowOf(x), cursor)}})

\* String(Date) prints no fraction of a second.
Printed(tick) == (tick \div SecondLength) * SecondLength

CursorAt(x) == [run |-> x.run, at |-> Printed(x.at)]

\* Fault: the cursor names the first row of the next page.
NextFromExtra(rows) ==
  IF Len(rows) > PageLimit THEN CursorAt(rows[PageLimit + 1]) ELSE None

NextCursor(rows) == IF Len(rows) > PageLimit THEN CursorAt(rows[PageLimit]) ELSE None

RunsPage(q) ==
  LET rows == Listed(SessionOf[q.session], q.cursor) IN
  [rows |-> SubSeq(rows, 1, Min({PageLimit, Len(rows)})), cursor |-> NextCursor(rows)]

---------------------------------------------------------------------------
(* RunsIndex.                                                              *)

\* Fault: a first page that is late is taken for the session now shown.
KeepFirst == {[q EXCEPT !.stray = TRUE] : q \in asked}

\* A further page continues rows that are no longer there.
Overtaken(requests) == {[q EXCEPT !.stray = q.more] : q \in requests}

\* The cleanup of the effect: the answer to a first page is ignored; that of a
\* further page is not.
CancelFirst == Overtaken({x \in asked : x.more})

FreeCalls == (1 .. MaxPageCalls) \ {q.call : q \in asked}

NewCall == CHOOSE c \in FreeCalls : TRUE

\* The effect runs when the session changes; rows and cursor stay until it answers,
\* or go with the session.
ShowSession(s) ==
  /\ s # session
  /\ session' = s
  /\ untouched' = Runs
  /\ IF s = None
       THEN /\ view' = [state |-> "ready", rows |-> <<>>, cursor |-> None, mixed |-> FALSE]
            /\ asked' = CancelFirst
       ELSE /\ FreeCalls # {}
            /\ view' = [view EXCEPT !.state = "loading", !.mixed = TRUE]
            /\ asked' = CancelFirst \cup
                 {[call |-> NewCall, session |-> s, cursor |-> None,
                   more |-> FALSE, stray |-> FALSE]}
  /\ UNCHANGED <<now, updated, open>>

\* The button, which the page shows outside "loading" and disables in "loading-more": an
\* earlier request that fails meanwhile enables it.
LoadMore ==
  /\ session # None /\ FreeCalls # {}
  /\ view.cursor # None /\ view.state \in {"ready", "error"}
  /\ Len(view.rows) + PageLimit <= MaxShown
  /\ view' = [view EXCEPT !.state = "loading-more"]
  /\ asked' = asked \cup {[call |-> NewCall, session |-> session, cursor |-> view.cursor,
                         more |-> TRUE, stray |-> view.mixed]}
  /\ UNCHANGED <<now, updated, open, session, untouched>>

Collected(q, page) == IF q.more THEN view.rows \o page.rows ELSE page.rows

ListingAnswer(q) ==
  LET page == RunsPage(q) IN
  /\ Len(Collected(q, page)) <= MaxShown + PageLimit
  /\ view' = [state |-> "ready", rows |-> Collected(q, page), cursor |-> page.cursor,
              mixed |-> q.more /\ (q.stray \/ view.mixed)]
  /\ asked' = Overtaken(asked \ {q})
  /\ UNCHANGED <<now, updated, open, session, untouched>>

ListingFails(q) ==
  /\ view' = [view EXCEPT !.state = "error"]
  /\ asked' = asked \ {q}
  /\ UNCHANGED <<now, updated, open, session, untouched>>

ListingNext ==
  \/ Tick
  \/ \E r \in Runs : BeginUpdate(r)
  \/ \E t \in open : CommitUpdate(t)
  \/ \E s \in Sessions \cup {None} : ShowSession(s)
  \/ LoadMore
  \/ \E q \in asked : ListingAnswer(q) \/ ListingFails(q)

ListingSpec == ListingInit /\ [][ListingNext]_listingVars

---------------------------------------------------------------------------
(* Properties.                                                             *)

\* The view has come to the end of its session's list.
Complete ==
  session # None /\ view.state = "ready" /\ view.cursor = None /\ ~view.mixed /\ asked = {}

Missed ==
  {r \in untouched : /\ ProjectOf[r] = SessionOf[session]
                     /\ \A i \in DOMAIN view.rows : view.rows[i].run # r}

\* A run that nothing has touched since the session was shown is on some page.
UntouchedRunsAreListed == Complete => Missed = {}

\* What the pages leave out shares the second of a row at which a page ended: the
\* cursor loses the fraction and nothing else.
MissedShareTheSecond ==
  Complete =>
    \A r \in Missed : \E i \in DOMAIN view.rows :
      /\ Printed(view.rows[i].at) = Printed(updated[r])
      /\ Before(view.rows[i], RowOf(r))

\* A run is listed twice only when a transaction that began earlier, and waited,
\* has set its updated_at back.
RepeatsWentBack ==
  ~view.mixed => \A i, j \in DOMAIN view.rows :
    i < j /\ view.rows[i].run = view.rows[j].run => view.rows[j].at < view.rows[i].at

\* What the Runs page shows when it has read all pages while runs are updated.
ListingPromise == MissedShareTheSecond /\ RepeatsWentBack
=============================================================================
